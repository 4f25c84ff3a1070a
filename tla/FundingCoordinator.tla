------------------------- MODULE FundingCoordinator -------------------------
(***************************************************************************)
(* DistributionFundingCoordinator.sol, composed with the three contracts   *)
(* its transactions run through: it is the vault's executor, the           *)
(* destination of the vault's releases and the claim manager's owner.      *)
(* A transaction is the conjunction of what each contract does in it: the  *)
(* counters "before" and "after" a nested call are the unprimed and the    *)
(* primed values, and a check that fails anywhere undoes the whole of it.  *)
(***************************************************************************)
EXTENDS RialtoAdapter, ClaimManager

CONSTANTS
    acquisitionOperator,   \* the keeper that initiates acquisitions
    rootPublisher,         \* the publisher that funds cycles
    MaxAcquisitions        \* bound on acquisitionCount

ASSUME CoordinatorAssumption ==
    /\ MaxAcquisitions \in Nat
    /\ Cycles \subseteq Nat
    /\ {acquisitionOperator, rootPublisher} \subseteq Accounts

VARIABLES
    acquisitions,         \* acquisition records by id, ids start at 1
    acquisitionCount,
    cycleUsed,
    cycleAcquisitionId,
    coordStock            \* stock.balanceOf(coordinator)

coordVars == <<acquisitions, acquisitionCount, cycleUsed, cycleAcquisitionId,
               coordStock>>

allVars == <<now, vaultVars, adapterVars, mgrVars, coordVars>>

AcquisitionIds == 1 .. MaxAcquisitions

AcquisitionStatus == {"NONE", "RECORDED", "FUNDED"}

(* the default of the mapping *)
NoRecord == [status |-> "NONE", stockToken |-> ZeroAddress, wethSpent |-> 0,
             acquiredStock |-> 0, distributionAmount |-> 0,
             reserveAmount |-> 0, cycleId |-> 0]

AcquisitionRecord ==
    [status : AcquisitionStatus, stockToken : Assets, wethSpent : Nat,
     acquiredStock : Nat, distributionAmount : Nat, reserveAmount : Nat,
     cycleId : Cycles \cup {0}]

CoordTypeOK ==
    /\ acquisitions \in [AcquisitionIds -> AcquisitionRecord]
    /\ acquisitionCount \in 0 .. MaxAcquisitions
    /\ cycleUsed \in [Cycles -> BOOLEAN]
    /\ cycleAcquisitionId \in [Cycles -> 0 .. MaxAcquisitions]
    /\ coordStock \in [StockTokens -> Nat]

CoordInit ==
    /\ acquisitions = [id \in AcquisitionIds |-> NoRecord]
    /\ acquisitionCount = 0
    /\ cycleUsed = [c \in Cycles |-> FALSE]
    /\ cycleAcquisitionId = [c \in Cycles |-> 0]
    /\ coordStock = [s \in StockTokens |-> 0]

----------------------------------------------------------------------------
(* _deriveRecord: the record of one acquisition, from the vault's counters *)
(* before and after it                                                     *)
DerivedRecord(s) ==
    [status |-> "RECORDED",
     stockToken |-> s,
     wethSpent |-> totalWethSpent' - totalWethSpent,
     acquiredStock |-> totalStockAcquired'[s] - totalStockAcquired[s],
     distributionAmount |->
         distributionAllocated'[s] - distributionAllocated[s],
     reserveAmount |-> reserveAllocated'[s] - reserveAllocated[s],
     cycleId |-> 0]

(* _deriveRecord's checks against the frozen 80/20 rule                    *)
DeltasVerified(s, rec, wethAmountIn) ==
    /\ rec.wethSpent = wethAmountIn
    /\ rec.acquiredStock # 0
    /\ rec.distributionAmount = DistributionPart(rec.acquiredStock)
    /\ rec.reserveAmount = rec.acquiredStock - rec.distributionAmount
    /\ distributionReleased'[s] = distributionReleased[s]

(* executeAndRecordAcquisition, through the vault, the adapter and the     *)
(* router and back: spend `weth' for at least `min' of stock s before `dl' *)
ExecuteAndRecordAcquisition(caller, s, weth, min, dl, ex, swap, fwd, out) ==
    LET rec == DerivedRecord(s)
    IN
    /\ caller = acquisitionOperator
    /\ s \in ApprovedStockTokens
    /\ weth # 0
    /\ min # 0
    /\ now <= dl
    /\ AcquireStock(s, weth, min, dl, ex, swap, fwd)
    /\ ExecuteAcquisition(acquisitionExecutor, s, weth, min, dl,
                          AdapterEffectOf(weth, swap, fwd), out)
    /\ DeltasVerified(s, rec, weth)
    /\ acquisitionCount' = acquisitionCount + 1
    /\ acquisitions' = [acquisitions EXCEPT ![acquisitionCount + 1] = rec]
    /\ UNCHANGED <<cycleUsed, cycleAcquisitionId, coordStock>>

(* _releaseExact and _publishExact: every balance and counter the two      *)
(* nested calls moved, checked against the recorded amount.  The allowance *)
(* is granted for the amount and cleared in the same transaction.          *)
ReleaseAndFundExact(s, amount, rel) ==
    /\ distributionReleased'[s] - distributionReleased[s] = amount
    /\ rel.received = amount
    /\ reserveAllocated'[s] = reserveAllocated[s]
    /\ coordStock'[s] = coordStock[s]
    /\ mgrStock'[s] - mgrStock[s] = amount

MayFund_DefectTwice(id, c) ==
    /\ acquisitions[id].status # "NONE"
    /\ ~cycleUsed[c]

(* a recorded acquisition and a cycle id no acquisition has                *)
MayFund(id, c) ==
    /\ acquisitions[id].status = "RECORDED"
    /\ ~cycleUsed[c]

(* fundRecordedAcquisition: RECORDED -> FUNDED, bound to one cycle.  `rel' *)
(* is the transfer from the vault, `received' what the manager is credited *)
(* when it pulls the amount on, `win' the claim start and deadline.        *)
FundRecordedAcquisition(caller, id, root, hashes, win, c, rel, received) ==
    LET s == acquisitions[id].stockToken
        amount == acquisitions[id].distributionAmount
    IN
    /\ caller = rootPublisher
    /\ MayFund(id, c)
    /\ acquisitions' = [acquisitions EXCEPT ![id] =
           [@ EXCEPT !.status = "FUNDED", !.cycleId = c]]
    /\ cycleUsed' = [cycleUsed EXCEPT ![c] = TRUE]
    /\ cycleAcquisitionId' = [cycleAcquisitionId EXCEPT ![c] = id]
    /\ Release(acquisitionExecutor, s, amount, rel)
    /\ PublishCycle(c, root, hashes, win[1], win[2],
           <<[asset |-> s, amount |-> amount, received |-> received]>>)
    /\ coordStock' = [coordStock EXCEPT ![s] = @ + rel.received - amount]
    /\ ReleaseAndFundExact(s, amount, rel)
    /\ UNCHANGED acquisitionCount

DonateToCoordinator(s) ==
    /\ coordStock[s] < MaxDonation
    /\ coordStock' = [coordStock EXCEPT ![s] = @ + 1]
    /\ UNCHANGED <<acquisitions, acquisitionCount, cycleUsed,
                   cycleAcquisitionId>>

----------------------------------------------------------------------------
(* Every transaction of the composed system *)
Acquire ==
    /\ acquisitionCount < MaxAcquisitions
    /\ \E caller \in Accounts, s \in StockTokens, w \in WethAmounts,
          min \in StockAmounts, deadline \in Deadlines, ex \in Quotes :
       \E swap \in Swaps(w) :
       \E fwd \in Outcomes(swap.toAdapter) :
       \E out \in LET got == fwd.received + swap.toVault
                  IN Outcomes(got - DistributionPart(got)) :
           ExecuteAndRecordAcquisition(caller, s, w, min, deadline, ex, swap,
                                       fwd, out)

Fund ==
    \E caller \in Accounts, id \in 1 .. acquisitionCount,
       root \in Roots \cup {ZeroRoot}, hashes \in {{1}, {0, 1}},
       win \in Windows, c \in Cycles :
    \E rel, pull \in Outcomes(acquisitions[id].distributionAmount) :
        FundRecordedAcquisition(caller, id, root, hashes, win, c, rel,
                                pull.received)

(* What holders and strangers call on the manager *)
ClaimOrRecover ==
    \/ \E c \in Cycles, w \in Claimants, a \in StockTokens, n \in Amounts :
          Claim(c, w, a, n)
    \/ \E c \in Cycles, w \in Claimants, as \in SUBSET StockTokens :
          \E amount \in [as -> Amounts] : ClaimBatch(c, w, as, amount)
    \/ \E c \in Cycles, a \in StockTokens : RecoverExpired(c, a)

Next ==
    \/ Acquire /\ UNCHANGED <<now, mgrVars>>
    \/ Fund /\ UNCHANGED <<now, adapterVars>>
    \/ /\ ClaimOrRecover \/ \E a \in StockTokens : DonateToManager(a)
       /\ UNCHANGED <<now, vaultVars, adapterVars, coordVars>>
    \/ /\ DeliverBudget \/ \E s \in StockTokens : DonateToVault(s)
       /\ UNCHANGED <<now, adapterVars, mgrVars, coordVars>>
    \/ /\ \/ \E r \in Routers \cup {NoRouter} : RotateRouter(r)
          \/ \E s \in StockTokens : DonateToAdapter(s)
       /\ UNCHANGED <<now, vaultVars, mgrVars, coordVars>>
    \/ /\ \E s \in StockTokens : DonateToCoordinator(s)
       /\ UNCHANGED <<now, vaultVars, adapterVars, mgrVars>>
    \/ Tick /\ UNCHANGED <<vaultVars, adapterVars, mgrVars, coordVars>>

Init == now = 0 /\ VaultInit /\ AdapterInit /\ MgrInit /\ CoordInit

Spec == Init /\ [][Next]_allVars

----------------------------------------------------------------------------
(* PROPERTIES *)

TypeOK == VaultTypeOK /\ AdapterTypeOK /\ MgrTypeOK /\ CoordTypeOK

(* The acquisitions of stock s that wait for their cycle *)
Waiting(s) == {id \in AcquisitionIds : /\ acquisitions[id].status = "RECORDED"
                                       /\ acquisitions[id].stockToken = s}

(* what they are to distribute *)
Due(s) ==
    SumFunctionOnSet([id \in AcquisitionIds |->
                          IF id \in Waiting(s)
                          THEN acquisitions[id].distributionAmount ELSE 0],
                     AcquisitionIds)

(* A recorded acquisition can always still be funded, in any order and     *)
(* whatever was funded, claimed or donated in between: the vault has the   *)
(* allocation and the stock for all of them together, and every unused     *)
(* cycle id is free in the manager.                                        *)
RecordedStaysFundable ==
    /\ \A s \in StockTokens :
           Due(s) = Releasable(s) /\ Due(s) <= vaultStock[s]
    /\ \A c \in Cycles, a \in StockTokens :
           ~cycleUsed[c] => ~cycles[c].published /\ ~assetFunding[c][a].registered

(* The stock of cycle c: owed, swept to recovery, or in claimants' hands    *)
InCycle(c, s) ==
    Remaining(c, s) + assetFunding[c][s].recovered
        + SumFunctionOnSet([w \in Claimants |-> paid[c][w][s]], Claimants)

(* Every unit of stock ever acquired is in exactly one place: the reserve, *)
(* a waiting acquisition, a cycle's remainder, a claimant or recovery.     *)
StockTraced ==
    \A s \in StockTokens :
        totalStockAcquired[s] =
            reserveStock[s] + Due(s)
                + SumFunctionOnSet([c \in Cycles |-> InCycle(c, s)], Cycles)

(* DistributionClaimManager.sol says of publishCycle that "fundedAmounts   *)
(* are the TASK 3 `allocated` participant entitlements only -- never the   *)
(* strategic reserve, distribution dust, full participant pool": a cycle   *)
(* is funded with the sum of its root's entitlements.                      *)
FundedWithEntitlementsOnly ==
    \A c \in Cycles, a \in StockTokens :
        cycles[c].published =>
            assetFunding[c][a].funded = Entitled(c, a)

(* The refinement mapping to the promise made about every acquisition      *)
Stage == [id \in AcquisitionIds |-> acquisitions[id].status]

Pot == [id \in AcquisitionIds |->
           CASE acquisitions[id].status = "NONE" -> 0
             [] acquisitions[id].status = "RECORDED" ->
                    acquisitions[id].distributionAmount
             [] acquisitions[id].status = "FUNDED" ->
                    Remaining(acquisitions[id].cycleId,
                              acquisitions[id].stockToken)]

Unassigned == -1

Binding == [id \in AcquisitionIds |->
               IF acquisitions[id].status = "FUNDED"
               THEN acquisitions[id].cycleId ELSE Unassigned]

Closed == [id \in AcquisitionIds |->
              /\ acquisitions[id].status = "FUNDED"
              /\ assetFunding[acquisitions[id].cycleId]
                             [acquisitions[id].stockToken].recoveryClosed]

Promise == INSTANCE DistributionPromise WITH
               Ids <- AcquisitionIds, CycleIds <- Cycles,
               Unbound <- Unassigned, stage <- Stage, pot <- Pot,
               binding <- Binding, closed <- Closed

(* The four contracts together keep the promise: every step of theirs is   *)
(* a step of DistributionPromise or leaves the pots alone.                 *)
KeepsPromise == Promise!PromiseSpec
=============================================================================
