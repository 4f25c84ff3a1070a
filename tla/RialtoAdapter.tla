--------------------------- MODULE RialtoAdapter ---------------------------
(***************************************************************************)
(* RialtoStockAcquisitionAdapter.sol, between the vault and the router the *)
(* Rialto registry names: the registry lock on the quote's target, the     *)
(* quote deadline, exact consumption of the WETH, the balance baselines.   *)
(***************************************************************************)
EXTENDS AcquisitionVault

CONSTANTS
    Routers,        \* contracts the registry may name for feature 2
    NoRouter,       \* ownerOf(2) = address(0)
    InvalidRouters, \* registry, vault, adapter, WETH or a stock token
    Quotes          \* decoded RialtoExecutions that appear in calls

ASSUME AdapterAssumption ==
    /\ NoRouter \notin Routers
    /\ InvalidRouters \subseteq Routers
    /\ Quotes \subseteq [target : Routers, quoteDeadline : Times,
                         hasSelector : BOOLEAN]

VARIABLES
    currentRouter,   \* routerRegistry.ownerOf(2)
    adapterWeth,     \* weth.balanceOf(adapter)
    adapterStock     \* stock.balanceOf(adapter)

adapterVars == <<currentRouter, adapterWeth, adapterStock>>

AdapterTypeOK ==
    /\ currentRouter \in Routers \cup {NoRouter}
    /\ adapterWeth \in Nat
    /\ adapterStock \in [StockTokens -> Nat]

AdapterInit ==
    /\ currentRouter \in Routers \cup {NoRouter}
    /\ adapterWeth = 0
    /\ adapterStock = [s \in StockTokens |-> 0]

(* What the router call did: WETH it consumed out of its allowance, stock  *)
(* it sent to the adapter, and stock it sent straight to the vault.        *)
Swaps(wethAmountIn) ==
    [used : 0 .. wethAmountIn, toAdapter : StockAmounts, toVault : {0, 1}]

(* acquireStock's checks, with those of _executeQuote: `ex' is the decoded *)
(* RialtoExecution, `swap' what the router did, `fwd' the transfer of the  *)
(* acquired stock to the vault.                                            *)
AcquireStockOk(s, wethAmountIn, minStockOut, deadline, ex, swap, fwd) ==
    /\ s \in ApprovedStockTokens
    /\ wethAmountIn # 0
    /\ minStockOut # 0
    /\ now <= deadline
    /\ now <= ex.quoteDeadline
    /\ ex.hasSelector
    /\ currentRouter # NoRouter
    /\ ex.target = currentRouter
    /\ currentRouter \notin InvalidRouters
    /\ swap.toAdapter >= minStockOut
    /\ swap.used = wethAmountIn
    /\ fwd.sent = swap.toAdapter

(* what the vault observes of the adapter call *)
AdapterEffectOf(wethAmountIn, swap, fwd) ==
    [taken |-> wethAmountIn,
     delivered |-> fwd.received + swap.toVault,
     reported |-> swap.toAdapter,
     keptWeth |-> wethAmountIn - swap.used,
     keptStock |-> swap.toAdapter - fwd.sent]

(* acquireStock leaves the adapter with what it kept, if anything.         *)
AcquireStock(s, wethAmountIn, minStockOut, deadline, ex, swap, fwd) ==
    LET ad == AdapterEffectOf(wethAmountIn, swap, fwd)
    IN
    /\ AcquireStockOk(s, wethAmountIn, minStockOut, deadline, ex, swap, fwd)
    /\ adapterWeth' = adapterWeth + ad.keptWeth
    /\ adapterStock' = [adapterStock EXCEPT ![s] = @ + ad.keptStock]
    /\ UNCHANGED currentRouter

(* The registry's owner rotates the router at any time. *)
RotateRouter(r) ==
    /\ r # currentRouter
    /\ currentRouter' = r
    /\ UNCHANGED <<adapterWeth, adapterStock>>

DonateToAdapter(s) ==
    /\ adapterStock[s] + adapterWeth < MaxDonation
    /\ \/ /\ adapterStock' = [adapterStock EXCEPT ![s] = @ + 1]
          /\ UNCHANGED adapterWeth
       \/ /\ adapterWeth' = adapterWeth + 1
          /\ UNCHANGED adapterStock
    /\ UNCHANGED currentRouter
=============================================================================
