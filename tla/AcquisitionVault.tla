-------------------------- MODULE AcquisitionVault --------------------------
(***************************************************************************)
(* StockAcquisitionVault.sol: custody of the WETH budget, acquisition of   *)
(* stock through the adapter, the frozen 80/20 split, release of the       *)
(* distribution part to the coordinator.                                   *)
(*                                                                         *)
(* The adapter is a call to another contract: what it did is the record    *)
(* `ad', which the vault checks from the balances on both sides.           *)
(***************************************************************************)
EXTENDS Chain

CONSTANTS
    ApprovedStockTokens,   \* the frozen basket
    Accounts,              \* callers
    acquisitionExecutor,   \* the only caller the vault serves
    WethAmounts,           \* wethAmountIn in calls
    StockAmounts,          \* minStockOut in calls, and what swaps return
    MaxWeth                \* bound on the WETH budget delivered over time

SPLIT_DENOMINATOR == 100
DISTRIBUTION_PERCENT == 80

ASSUME VaultAssumption ==
    /\ ApprovedStockTokens \subseteq StockTokens
    /\ ApprovedStockTokens # {}
    /\ acquisitionExecutor \in Accounts
    /\ WethAmounts \subseteq Nat
    /\ StockAmounts \subseteq Nat
    /\ MaxWeth \in Nat

VARIABLES
    vaultWeth,              \* weth.balanceOf(vault)
    vaultStock,             \* stock.balanceOf(vault)
    reserveStock,           \* stock.balanceOf(reserveRecipient)
    totalWethSpent,
    totalStockAcquired,
    distributionAllocated,
    reserveAllocated,
    distributionReleased,
    wethDelivered           \* all WETH ever sent to the vault

vaultVars == <<vaultWeth, vaultStock, reserveStock, totalWethSpent,
               totalStockAcquired, distributionAllocated, reserveAllocated,
               distributionReleased, wethDelivered>>

VaultTypeOK ==
    /\ now \in Times
    /\ vaultWeth \in Nat
    /\ totalWethSpent \in Nat
    /\ wethDelivered \in Nat
    /\ vaultStock \in [StockTokens -> Nat]
    /\ reserveStock \in [StockTokens -> Nat]
    /\ totalStockAcquired \in [StockTokens -> Nat]
    /\ distributionAllocated \in [StockTokens -> Nat]
    /\ reserveAllocated \in [StockTokens -> Nat]
    /\ distributionReleased \in [StockTokens -> Nat]

VaultInit ==
    /\ vaultWeth = 0
    /\ totalWethSpent = 0
    /\ wethDelivered = 0
    /\ vaultStock = [s \in StockTokens |-> 0]
    /\ reserveStock = [s \in StockTokens |-> 0]
    /\ totalStockAcquired = [s \in StockTokens |-> 0]
    /\ distributionAllocated = [s \in StockTokens |-> 0]
    /\ reserveAllocated = [s \in StockTokens |-> 0]
    /\ distributionReleased = [s \in StockTokens |-> 0]

(* Operators whose name ends in _Defect... are faulty variants of the one   *)
(* that follows them; each breaks a property (see the README).             *)

(* Math.mulDiv(acquired, 80, 100): the participants' part, rounded down    *)
DistributionPart(acquired) ==
    (acquired * DISTRIBUTION_PERCENT) \div SPLIT_DENOMINATOR

----------------------------------------------------------------------------
(* What the adapter did to the balances: WETH it took from the vault,      *)
(* stock it delivered to the vault and the amount it reported, and by how  *)
(* much its own WETH and stock balances rose.                              *)
AdapterEffect == [taken : Nat, delivered : Nat, reported : Nat,
                  keptWeth : Int, keptStock : Int]

(* executeAcquisition's independent verification of the adapter call       *)
AcquisitionVerified(ad, wethAmountIn, minStockOut) ==
    /\ ad.taken = wethAmountIn
    /\ ad.delivered = ad.reported
    /\ ad.delivered >= minStockOut
    /\ ad.keptWeth = 0
    /\ ad.keptStock = 0

ReserveDelivered_DefectSender(out, reserve) ==
    IF reserve > 0 THEN out.received = reserve
                   ELSE out = [sent |-> 0, received |-> 0]

ReserveDelivered_DefectReceiver(out, reserve) ==
    IF reserve > 0 THEN out.sent = reserve
                   ELSE out = [sent |-> 0, received |-> 0]

(* The delivery of the reserve part: skipped when there is none, otherwise *)
(* exact on both sides (`out' is what the token did).                      *)
ReserveDelivered(out, reserve) ==
    IF reserve > 0 THEN ExactTransfer(out, reserve)
                   ELSE out = [sent |-> 0, received |-> 0]

(* the budget is in custody *)
WethCustodyCovers(wethAmountIn) == vaultWeth >= wethAmountIn

(* executeAcquisition *)
ExecuteAcquisition(caller, s, wethAmountIn, minStockOut, deadline, ad, out) ==
    LET distribution == DistributionPart(ad.delivered)
        reserve == ad.delivered - distribution
    IN
    /\ caller = acquisitionExecutor
    /\ s \in ApprovedStockTokens
    /\ wethAmountIn # 0
    /\ minStockOut # 0
    /\ now <= deadline
    /\ WethCustodyCovers(wethAmountIn)
    /\ AcquisitionVerified(ad, wethAmountIn, minStockOut)
    /\ ReserveDelivered(out, reserve)
    /\ vaultWeth' = vaultWeth - ad.taken
    /\ totalWethSpent' = totalWethSpent + wethAmountIn
    /\ totalStockAcquired' = [totalStockAcquired EXCEPT ![s] = @ + ad.delivered]
    /\ distributionAllocated' =
           [distributionAllocated EXCEPT ![s] = @ + distribution]
    /\ reserveAllocated' = [reserveAllocated EXCEPT ![s] = @ + reserve]
    /\ vaultStock' = [vaultStock EXCEPT ![s] = @ + ad.delivered - out.sent]
    /\ reserveStock' = [reserveStock EXCEPT ![s] = @ + out.received]
    /\ UNCHANGED <<distributionReleased, wethDelivered>>

(* distributionReleasable() *)
Releasable(s) == distributionAllocated[s] - distributionReleased[s]

(* releaseToDistributionCoordinator: bounded by the unreleased allocation, *)
(* never by the balance                                                    *)
Release(caller, s, amount, out) ==
    /\ caller = acquisitionExecutor
    /\ s \in ApprovedStockTokens
    /\ amount # 0
    /\ amount <= Releasable(s)
    /\ out.sent <= vaultStock[s]
    /\ ExactTransfer(out, amount)
    /\ distributionReleased' = [distributionReleased EXCEPT ![s] = @ + amount]
    /\ vaultStock' = [vaultStock EXCEPT ![s] = @ - out.sent]
    /\ UNCHANGED <<vaultWeth, reserveStock, totalWethSpent, totalStockAcquired,
                   distributionAllocated, reserveAllocated, wethDelivered>>

(* The trade router (or anyone) sends the vault WETH. *)
DeliverBudget ==
    /\ wethDelivered < MaxWeth
    /\ vaultWeth' = vaultWeth + 1
    /\ wethDelivered' = wethDelivered + 1
    /\ UNCHANGED <<vaultStock, reserveStock, totalWethSpent, totalStockAcquired,
                   distributionAllocated, reserveAllocated,
                   distributionReleased>>

(* Anyone may send the vault stock it did not buy. *)
DonateToVault(s) ==
    /\ vaultStock[s] - Releasable(s) < MaxDonation
    /\ vaultStock' = [vaultStock EXCEPT ![s] = @ + 1]
    /\ UNCHANGED <<vaultWeth, reserveStock, totalWethSpent, totalStockAcquired,
                   distributionAllocated, reserveAllocated,
                   distributionReleased, wethDelivered>>

----------------------------------------------------------------------------
(* The vault on its own: the executor asks for anything, and the adapter   *)
(* and the stock token do anything to the balances they can reach.         *)
AnyAdapterEffect(wethAmountIn) ==
    [taken : 0 .. wethAmountIn, delivered : StockAmounts,
     reported : StockAmounts, keptWeth : {0, 1}, keptStock : {0, 1}]

VaultCall ==
    \/ \E caller \in Accounts, s \in StockTokens, w \in WethAmounts,
          min \in StockAmounts, deadline \in Deadlines :
          \E ad \in AnyAdapterEffect(w) :
          \E out \in Outcomes(ad.delivered - DistributionPart(ad.delivered)) :
              ExecuteAcquisition(caller, s, w, min, deadline, ad, out)
    \/ \E caller \in Accounts, s \in StockTokens, n \in StockAmounts :
          \E out \in Outcomes(n) : Release(caller, s, n, out)
    \/ DeliverBudget
    \/ \E s \in StockTokens : DonateToVault(s)

VaultNext ==
    \/ VaultCall /\ UNCHANGED now
    \/ Tick /\ UNCHANGED vaultVars

VaultStart == now = 0 /\ VaultInit

VaultSpec == VaultStart /\ [][VaultNext]_<<now, vaultVars>>

----------------------------------------------------------------------------
(* PROPERTIES *)

(* "balanceOf(vault) + released >= allocated": the unreleased distribution *)
(* stock is really there, whatever adapters, tokens and donors did.        *)
DistributionInCustody ==
    \A s \in StockTokens :
        vaultStock[s] + distributionReleased[s] >= distributionAllocated[s]

(* Every acquired unit is allocated once, the reserve really received its  *)
(* part, and rounding never favours the participants' side.                *)
SplitAccountsForAll ==
    \A s \in StockTokens :
        /\ totalStockAcquired[s] = distributionAllocated[s] + reserveAllocated[s]
        /\ reserveStock[s] = reserveAllocated[s]
        /\ distributionAllocated[s] * SPLIT_DENOMINATOR
               <= totalStockAcquired[s] * DISTRIBUTION_PERCENT

(* Every unit of WETH the vault was sent is spent on stock or still there. *)
WethAccounted == vaultWeth + totalWethSpent = wethDelivered

(* The vault's books and its balances tell the same story, after any       *)
(* sequence of acquisitions, releases and donations.                       *)
VaultAccountsBalance ==
    /\ DistributionInCustody
    /\ SplitAccountsForAll
    /\ WethAccounted
=============================================================================
