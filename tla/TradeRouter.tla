---------------------------- MODULE TradeRouter ----------------------------
(***************************************************************************)
(* BPSTradeRouter.sol with UniswapV3BPSSwapAdapter.sol and BPSToken.sol:   *)
(* official buys and sells of BPS, the WETH stock budget and the           *)
(* repurchase and burn they pay for.                                       *)
(*                                                                         *)
(* A trade is one transaction of several transfers.  The balances go       *)
(* through them one by one, as a value that is passed along; a set of      *)
(* results is what the rest of the call may find, and an empty set is a    *)
(* revert.  The venue (SwapRouter02 and its pool) is external: within its  *)
(* approval and its balance it does anything.                              *)
(***************************************************************************)
EXTENDS Chain, Ownable, FiniteSets, Functions

CONSTANTS
    weth, bps,             \* the two tokens
    router, adapter, venue, stockBudgetRecipient,
    Recipients,            \* recipients in calls, valid or not
    GrossInputs,           \* input amounts in calls
    Minimums,              \* minimum outputs in calls
    SwapOutputs,           \* what a swap may deliver
    InitialBalances,       \* balances after deployment and pool creation
    MaxTrades,             \* bound on tradeCount
    deployer               \* initialOwner: the security Safe

System == {router, adapter, venue, stockBudgetRecipient}
Addresses == Callers \cup System
Tokens == {weth, bps}

ASSUME RouterAssumption ==
    /\ weth # bps
    /\ IsFiniteSet(Callers)
    /\ Callers \cap System = {}
    /\ router \notin {adapter, venue, stockBudgetRecipient}
    /\ adapter \notin {venue, stockBudgetRecipient}
    /\ venue # stockBudgetRecipient
    /\ Nobody \notin System
    /\ Recipients \subseteq Addresses \cup {Nobody}
    /\ GrossInputs \subseteq Nat
    /\ Minimums \subseteq Nat
    /\ SwapOutputs \subseteq Nat
    /\ InitialBalances \in [Tokens -> [Addresses -> Nat]]
    /\ \A t \in Tokens, a \in {router, adapter} : InitialBalances[t][a] = 0
    /\ InitialBalances[weth][stockBudgetRecipient] = 0
    /\ MaxTrades \in Nat
    /\ deployer \in Callers

BPS_DENOMINATOR == 10000
BUY_STOCK_BPS == 200
BUY_BURN_BPS == 100
SELL_STOCK_BPS == 200
SELL_BURN_BPS == 200

VARIABLES
    bal,                        \* bal[t][a]: t.balanceOf(a)
    totalSupply,                \* of BPS
    paused,
    tradeCount,
    totalBuys,
    totalSells,
    totalGrossWethInFromBuys,
    totalGrossBpsInFromSells,
    totalStockBudgetDelivered,
    totalBurnBudgetConsumed,
    totalBpsBurned,
    grossWethFromSells,         \* the sum of the OfficialSell proceeds
    gifts,                      \* gifts[t][a]: unsolicited transfers to a
    burnedByHolders             \* voluntary ERC20Burnable burns

counters == <<tradeCount, totalBuys, totalSells, totalGrossWethInFromBuys,
              totalGrossBpsInFromSells, totalStockBudgetDelivered,
              totalBurnBudgetConsumed, totalBpsBurned, grossWethFromSells>>

routerVars == <<bal, totalSupply, paused, counters, gifts, burnedByHolders>>

RouterTypeOK ==
    /\ now \in Times
    /\ OwnTypeOK
    /\ bal \in [Tokens -> [Addresses -> Nat]]
    /\ gifts \in [Tokens -> [Addresses -> Nat]]
    /\ paused \in BOOLEAN
    /\ \A n \in {totalSupply, tradeCount, totalBuys, totalSells,
                 totalGrossWethInFromBuys, totalGrossBpsInFromSells,
                 totalStockBudgetDelivered, totalBurnBudgetConsumed,
                 totalBpsBurned, grossWethFromSells, burnedByHolders} :
           n \in Nat

(* the sum of a token's balances *)
Held(b, t) == SumFunctionOnSet(b[t], Addresses)

RouterInit ==
    /\ OwnInit(deployer)
    /\ bal = InitialBalances
    /\ totalSupply = Held(InitialBalances, bps)
    /\ paused = FALSE
    /\ tradeCount = 0
    /\ totalBuys = 0
    /\ totalSells = 0
    /\ totalGrossWethInFromBuys = 0
    /\ totalGrossBpsInFromSells = 0
    /\ totalStockBudgetDelivered = 0
    /\ totalBurnBudgetConsumed = 0
    /\ totalBpsBurned = 0
    /\ grossWethFromSells = 0
    /\ gifts = [t \in Tokens |-> [a \in Addresses |-> 0]]
    /\ burnedByHolders = 0

(* Operators whose name ends in _Defect... are faulty variants of the one   *)
(* that follows them; each breaks a property (see the README).             *)

(* WETH and BPS are plain ERC-20s: the amount moves, or the call reverts   *)
(* (the callers below make sure that it is there).                         *)
Moved(b, t, from, to, n) ==
    [b EXCEPT ![t] = [a \in Addresses |->
        b[t][a] + (IF a = to THEN n ELSE 0) - (IF a = from THEN n ELSE 0)]]

Burnt(b, from, n) == [b EXCEPT ![bps][from] = @ - n]

Cut(amount, rate) == (amount * rate) \div BPS_DENOMINATOR

----------------------------------------------------------------------------
(* UniswapV3BPSSwapAdapter                                                 *)

(* What exactInputSingle may do: pull no more than approved, deliver from  *)
(* the pool, send part of it to the adapter instead, report anything.      *)
VenueActs(amountIn, liquidity) ==
    { v \in [pulled : {amountIn, amountIn - 1}, delivered : SwapOutputs,
             astray : {0, 1}, reported : SwapOutputs] :
        v.delivered + v.astray <= liquidity }

VenueResults(b, tin, tout, amountIn, recipient) ==
    { [bal |-> Moved(Moved(Moved(b, tin, adapter, venue, v.pulled),
                           tout, venue, recipient, v.delivered),
                     tout, venue, adapter, v.astray),
       reported |-> v.reported] :
      v \in VenueActs(amountIn, b[tout][venue]) }

(* _validateRecipient: the router itself is allowed                        *)
AdapterRecipientOk(recipient) == recipient \notin {Nobody, adapter, venue}

SwapVerified_DefectKeepsResidue(before, r, tout, minOut, recipient) ==
    /\ r.bal[tout][recipient] - before[tout][recipient] = r.reported
    /\ r.reported >= minOut

(* swapExactInput's checks on what the venue did: the recipient's balance  *)
(* rose by the report and by the minimum, and the adapter kept nothing.    *)
SwapVerified(before, r, tout, minOut, recipient) ==
    /\ r.bal[tout][recipient] - before[tout][recipient] = r.reported
    /\ r.reported >= minOut
    /\ \A t \in Tokens : r.bal[t][adapter] = before[t][adapter]

(* swapExactInput, called by the router: the results that do not revert    *)
SwapExactInput(b, tin, tout, amountIn, minOut, recipient, deadline) ==
    { r \in VenueResults(Moved(b, tin, router, adapter, amountIn),
                         tin, tout, amountIn, recipient) :
        /\ amountIn # 0
        /\ now <= deadline
        /\ AdapterRecipientOk(recipient)
        /\ SwapVerified(b, r, tout, minOut, recipient) }

----------------------------------------------------------------------------
(* BPSTradeRouter *)

(* _adapterSwap: a zero budget makes no call and needs a zero minimum; the *)
(* spend and the output are checked again from the router's side.          *)
AdapterSwap(b, tin, tout, amountIn, minOut, recipient, deadline) ==
    IF amountIn = 0
    THEN { r \in {[bal |-> b, reported |-> 0]} : minOut = 0 }
    ELSE { r \in SwapExactInput(b, tin, tout, amountIn, minOut, recipient,
                                deadline) :
             /\ b[tin][router] - r.bal[tin][router] = amountIn
             /\ r.bal[tout][recipient] - b[tout][recipient] = r.reported
             /\ r.reported >= minOut }

BuybackAndBurn_DefectSendsAway(b, burnBudget, minOut, deadline) ==
    { [bal |-> Moved(r.bal, bps, router, venue, r.reported),
       reported |-> r.reported] :
      r \in AdapterSwap(b, weth, bps, burnBudget, minOut, router, deadline) }

(* _buybackAndBurn: what was bought is burnt, no more and no less          *)
BuybackAndBurn(b, burnBudget, minOut, deadline) ==
    { [bal |-> Burnt(r.bal, router, r.reported), reported |-> r.reported] :
      r \in AdapterSwap(b, weth, bps, burnBudget, minOut, router, deadline) }

(* _assertNoResidue: the router ends with the balances it started with     *)
NoNewResidue(b) == \A t \in Tokens : b[t][router] = bal[t][router]

(* _validateRecipient *)
RouterRecipientOk(recipient) == recipient \notin {Nobody, router, adapter}

WhenNotPaused == ~paused

(* the ERC-20's own condition on the transferFrom of _pullExact            *)
CanPay(trader, t, amount) == bal[t][trader] >= amount

(* _deliverStockBudget *)
Budgeted(b, stockBudget) ==
    Moved(b, weth, router, stockBudgetRecipient, stockBudget)

BuyStockBudget_DefectRoundsUp(gross) == Cut(gross, BUY_STOCK_BPS) + 1

BuyStockBudget(gross) == Cut(gross, BUY_STOCK_BPS)

(* buyExactWethForBps *)
Buy(trader, gross, minUser, minBurn, recipient, deadline) ==
    LET stockBudget == BuyStockBudget(gross)
        burnBudget == Cut(gross, BUY_BURN_BPS)
        userWethBudget == gross - stockBudget - burnBudget
        funded == Moved(bal, weth, trader, router, gross)
        budgeted == Budgeted(funded, stockBudget)
    IN
    /\ WhenNotPaused
    /\ gross # 0
    /\ RouterRecipientOk(recipient)
    /\ now <= deadline
    /\ CanPay(trader, weth, gross)
    /\ \E user \in AdapterSwap(budgeted, weth, bps, userWethBudget, minUser,
                               recipient, deadline) :
       \E burn \in BuybackAndBurn(user.bal, burnBudget, minBurn, deadline) :
           /\ NoNewResidue(burn.bal)
           /\ bal' = burn.bal
           /\ totalSupply' = totalSupply - burn.reported
           /\ totalBpsBurned' = totalBpsBurned + burn.reported
    /\ tradeCount' = tradeCount + 1
    /\ totalBuys' = totalBuys + 1
    /\ totalGrossWethInFromBuys' = totalGrossWethInFromBuys + gross
    /\ totalStockBudgetDelivered' = totalStockBudgetDelivered + stockBudget
    /\ totalBurnBudgetConsumed' = totalBurnBudgetConsumed + burnBudget
    /\ UNCHANGED <<paused, totalSells, totalGrossBpsInFromSells,
                   grossWethFromSells, gifts, burnedByHolders, ownVars>>

(* sellExactBpsForWeth: the budgets come out of the actual proceeds        *)
Sell(trader, gross, minGross, minUser, minBurn, recipient, deadline) ==
    LET funded == Moved(bal, bps, trader, router, gross)
    IN
    /\ WhenNotPaused
    /\ gross # 0
    /\ RouterRecipientOk(recipient)
    /\ now <= deadline
    /\ CanPay(trader, bps, gross)
    /\ \E sold \in AdapterSwap(funded, bps, weth, gross, minGross, router,
                               deadline) :
       LET stockBudget == Cut(sold.reported, SELL_STOCK_BPS)
           burnBudget == Cut(sold.reported, SELL_BURN_BPS)
           userWethOutput == sold.reported - stockBudget - burnBudget
           budgeted == Budgeted(sold.bal, stockBudget)
           paidOut == Moved(budgeted, weth, router, recipient, userWethOutput)
       IN
       /\ userWethOutput >= minUser
       /\ \E burn \in BuybackAndBurn(paidOut, burnBudget, minBurn, deadline) :
              /\ NoNewResidue(burn.bal)
              /\ bal' = burn.bal
              /\ totalSupply' = totalSupply - burn.reported
              /\ totalBpsBurned' = totalBpsBurned + burn.reported
       /\ grossWethFromSells' = grossWethFromSells + sold.reported
       /\ totalStockBudgetDelivered' = totalStockBudgetDelivered + stockBudget
       /\ totalBurnBudgetConsumed' = totalBurnBudgetConsumed + burnBudget
    /\ tradeCount' = tradeCount + 1
    /\ totalSells' = totalSells + 1
    /\ totalGrossBpsInFromSells' = totalGrossBpsInFromSells + gross
    /\ UNCHANGED <<paused, totalBuys, totalGrossWethInFromBuys, gifts,
                   burnedByHolders, ownVars>>

(* pause, unpause *)
Pause(caller) ==
    /\ OnlyOwner(caller)
    /\ ~paused
    /\ paused' = TRUE
    /\ UNCHANGED <<bal, totalSupply, counters, gifts, burnedByHolders, ownVars>>

Unpause(caller) ==
    /\ OnlyOwner(caller)
    /\ paused
    /\ paused' = FALSE
    /\ UNCHANGED <<bal, totalSupply, counters, gifts, burnedByHolders, ownVars>>

(* Ownable2Step without renounceOwnership, which reverts                   *)
RouterOwnership ==
    /\ \E caller \in Callers :
           \/ \E o \in Callers \cup {Nobody} : TransferOwnership(caller, o)
           \/ AcceptOwnership(caller)
    /\ UNCHANGED routerVars

(* Anyone may send tokens to a contract that did not ask for them.         *)
Gift(from, t, to) ==
    /\ bal[t][from] > 0
    /\ Held(gifts, weth) + Held(gifts, bps) < MaxDonation
    /\ bal' = Moved(bal, t, from, to, 1)
    /\ gifts' = [gifts EXCEPT ![t][to] = @ + 1]
    /\ UNCHANGED <<totalSupply, paused, counters, burnedByHolders, ownVars>>

(* ERC20Burnable.burn by a holder, unrelated to the protocol's burn        *)
HolderBurn(holder) ==
    /\ bal[bps][holder] > 0
    /\ burnedByHolders < MaxDonation
    /\ bal' = Burnt(bal, holder, 1)
    /\ totalSupply' = totalSupply - 1
    /\ burnedByHolders' = burnedByHolders + 1
    /\ UNCHANGED <<paused, counters, gifts, ownVars>>

Trade ==
    /\ tradeCount < MaxTrades
    /\ \E trader \in Callers, gross \in GrossInputs, minUser \in Minimums,
          minBurn \in Minimums, to \in Recipients, deadline \in Deadlines :
           \/ Buy(trader, gross, minUser, minBurn, to, deadline)
           \/ \E minGross \in Minimums :
                  Sell(trader, gross, minGross, minUser, minBurn, to, deadline)

RouterCall ==
    \/ Trade
    \/ \E caller \in Callers : Pause(caller) \/ Unpause(caller)
    \/ RouterOwnership
    \/ \E from \in Callers, t \in Tokens, to \in System : Gift(from, t, to)
    \/ \E holder \in Callers : HolderBurn(holder)

RouterNext ==
    \/ RouterCall /\ UNCHANGED now
    \/ Tick /\ UNCHANGED <<routerVars, ownVars>>

RouterStart == now = 0 /\ RouterInit

RouterSpec == RouterStart /\ [][RouterNext]_<<now, routerVars, ownVars>>

----------------------------------------------------------------------------
(* PROPERTIES *)

(* "A successful trade must leave no new trade-derived BPS or WETH         *)
(* residue": what the router and the adapter hold is what they were given, *)
(* after any sequence of trades and whatever the venue did.                *)
OnlyGiftsRemain ==
    \A t \in Tokens, a \in {router, adapter} : bal[t][a] = gifts[t][a]

(* Tokens are neither lost nor made: WETH is conserved, and the BPS supply *)
(* is the sum of the balances and falls by the recorded burns alone.       *)
SupplyAccountsForBurns ==
    /\ Held(bal, weth) = Held(InitialBalances, weth)
    /\ Held(bal, bps) = totalSupply
    /\ totalSupply + totalBpsBurned + burnedByHolders
           = Held(InitialBalances, bps)

(* The protocol takes its 2% + 1% of buys and 2% + 2% of sells, rounded    *)
(* down trade by trade: never more in total, and less than a unit under    *)
(* per trade; and the acquisition vault was really sent its part.          *)
BudgetsMatchRates ==
    LET stockRate == BUY_STOCK_BPS * totalGrossWethInFromBuys
                         + SELL_STOCK_BPS * grossWethFromSells
        burnRate == BUY_BURN_BPS * totalGrossWethInFromBuys
                        + SELL_BURN_BPS * grossWethFromSells
        Floored(total, rate) ==
            /\ total * BPS_DENOMINATOR <= rate
            /\ rate <= (total + tradeCount) * BPS_DENOMINATOR
    IN
    /\ Floored(totalStockBudgetDelivered, stockRate)
    /\ Floored(totalBurnBudgetConsumed, burnRate)
    /\ bal[weth][stockBudgetRecipient]
           >= totalStockBudgetDelivered + gifts[weth][stockBudgetRecipient]
=============================================================================
