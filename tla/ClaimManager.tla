---------------------------- MODULE ClaimManager ----------------------------
(***************************************************************************)
(* DistributionClaimManager.sol: publication and exact funding of claim    *)
(* cycles, claims against a cycle's Merkle root, recovery after the        *)
(* deadline.                                                               *)
(*                                                                         *)
(* A Merkle root stands for the set of leaves it commits to, and a proof   *)
(* for membership: the hash is collision free.  The leaf binds the cycle   *)
(* (and the chain and this manager, which never vary here), so a root      *)
(* built for another cycle proves nothing in this one.                     *)
(***************************************************************************)
EXTENDS Chain, FiniteSets, Functions, Sequences

CONSTANTS
    Cycles,        \* cycle ids
    Claimants,
    ZeroAddress,   \* address(0), an asset the code rejects
    Amounts,       \* amounts that appear in calls and in leaves
    Roots,         \* Merkle roots that appear in calls
    Windows,       \* <<claimStart, claimDeadline>> that appear in calls; they
                   \* end before MaxTime, so each can be seen to expire
    Fundings       \* (assets, fundedAmounts) arrays that appear in calls

Assets == StockTokens \cup {ZeroAddress}
Leaves == [cycle : Cycles, claimant : Claimants, asset : StockTokens,
           amount : Amounts]

(* one entry of the two arrays, with what the token will credit for it *)
FundingEntry == [asset : Assets, amount : Amounts, received : Nat]

(* bytes32(0): the root of no tree *)
ZeroRoot == {}

ASSUME ClaimAssumption ==
    /\ ZeroAddress \notin StockTokens
    /\ Amounts \subseteq Nat
    /\ Roots \subseteq SUBSET Leaves
    /\ Windows \subseteq Times \X (0 .. (MaxTime - 1))
    /\ Fundings \subseteq Seq(FundingEntry)
    /\ IsFiniteSet(Cycles)       \* ids and addresses are words of fixed width,
    /\ IsFiniteSet(Claimants)    \* and a Merkle tree has finitely many leaves
    /\ \A root \in Roots : IsFiniteSet(root)

VARIABLES
    cycles,            \* cycles[c]: root, window, published
    assetFunding,      \* assetFunding[c][a]
    claimed,           \* claimed[c][w][a]
    totalOutstanding,  \* totalOutstanding[a]
    mgrStock,          \* token.balanceOf(manager)
    paid               \* paid[c][w][a]: what Claimed events have paid so far

mgrVars == <<cycles, assetFunding, claimed, totalOutstanding, mgrStock, paid>>

Cycle == [merkleRoot : Roots \cup {ZeroRoot}, claimStart : Times,
          claimDeadline : Times, published : BOOLEAN]

AssetFunding == [registered : BOOLEAN, funded : Nat, claimed : Nat,
                 recovered : Nat, recoveryClosed : BOOLEAN]

MgrTypeOK ==
    /\ now \in Times
    /\ cycles \in [Cycles -> Cycle]
    /\ assetFunding \in [Cycles -> [StockTokens -> AssetFunding]]
    /\ claimed \in [Cycles -> [Claimants -> [StockTokens -> BOOLEAN]]]
    /\ totalOutstanding \in [StockTokens -> Nat]
    /\ mgrStock \in [StockTokens -> Nat]
    /\ paid \in [Cycles -> [Claimants -> [StockTokens -> Nat]]]

MgrInit ==
    /\ cycles = [c \in Cycles |->
                   [merkleRoot |-> ZeroRoot, claimStart |-> 0,
                    claimDeadline |-> 0, published |-> FALSE]]
    /\ assetFunding = [c \in Cycles |-> [a \in StockTokens |->
                   [registered |-> FALSE, funded |-> 0, claimed |-> 0,
                    recovered |-> 0, recoveryClosed |-> FALSE]]]
    /\ claimed = [c \in Cycles |-> [w \in Claimants |->
                   [a \in StockTokens |-> FALSE]]]
    /\ totalOutstanding = [a \in StockTokens |-> 0]
    /\ mgrStock = [a \in StockTokens |-> 0]
    /\ paid = [c \in Cycles |-> [w \in Claimants |->
                   [a \in StockTokens |-> 0]]]

(* remaining(): the liability a cycle still has in an asset *)
Remaining(c, a) ==
    assetFunding[c][a].funded - assetFunding[c][a].claimed
        - assetFunding[c][a].recovered

----------------------------------------------------------------------------
(* Operators whose name ends in _Defect... are faulty variants of the one   *)
(* that follows them; each breaks a property (see the README).             *)

FundAssetOk_DefectShortCredit(c, a, amount, received) ==
    /\ a # ZeroAddress
    /\ amount # 0
    /\ ~assetFunding[c][a].registered

(* _fundAsset's guard: a real asset, a nonzero amount, not registered yet, *)
(* and the balance rose by exactly the declared amount.                    *)
FundAssetOk(c, a, amount, received) ==
    /\ a # ZeroAddress
    /\ amount # 0
    /\ ~assetFunding[c][a].registered
    /\ received = amount

(* publishCycle: `funding' is the pair of arrays, as a sequence of         *)
(* [asset, amount, received] where `received' is what the token credited.  *)
(* An asset that appears twice finds itself registered: DuplicateAsset.    *)
PublishCycle(c, root, hashes, start, deadline, funding) ==
    LET funded(a) == \E i \in DOMAIN funding : funding[i].asset = a
        entry(a) == funding[CHOOSE i \in DOMAIN funding : funding[i].asset = a]
    IN
    /\ ~cycles[c].published
    /\ root # ZeroRoot
    /\ 0 \notin hashes
    /\ start > now
    /\ deadline > start
    /\ Len(funding) > 0
    /\ \A i, j \in DOMAIN funding :
           i # j => funding[i].asset # funding[j].asset
    /\ \A i \in DOMAIN funding :
           FundAssetOk(c, funding[i].asset, funding[i].amount,
                       funding[i].received)
    /\ cycles' = [cycles EXCEPT ![c] =
           [merkleRoot |-> root, claimStart |-> start,
            claimDeadline |-> deadline, published |-> TRUE]]
    /\ assetFunding' = [assetFunding EXCEPT ![c] =
           [a \in StockTokens |->
               IF funded(a)
               THEN [@[a] EXCEPT !.registered = TRUE,
                                 !.funded = entry(a).amount]
               ELSE @[a]]]
    /\ totalOutstanding' = [a \in StockTokens |->
           IF funded(a) THEN totalOutstanding[a] + entry(a).amount
                        ELSE totalOutstanding[a]]
    /\ mgrStock' = [a \in StockTokens |->
           IF funded(a) THEN mgrStock[a] + entry(a).received
                        ELSE mgrStock[a]]
    /\ UNCHANGED <<claimed, paid>>

----------------------------------------------------------------------------
ClaimOk_DefectReplay(c, w, a, amount) ==
    /\ amount # 0
    /\ cycles[c].published
    /\ assetFunding[c][a].registered
    /\ now \in cycles[c].claimStart .. cycles[c].claimDeadline
    /\ [cycle |-> c, claimant |-> w, asset |-> a, amount |-> amount]
           \in cycles[c].merkleRoot
    /\ amount <= Remaining(c, a)
    /\ amount <= totalOutstanding[a]
    /\ amount <= mgrStock[a]

ClaimOk_DefectLateAndUncapped(c, w, a, amount) ==
    /\ amount # 0
    /\ cycles[c].published
    /\ assetFunding[c][a].registered
    /\ now >= cycles[c].claimStart
    /\ ~claimed[c][w][a]
    /\ [cycle |-> c, claimant |-> w, asset |-> a, amount |-> amount]
           \in cycles[c].merkleRoot
    /\ amount <= totalOutstanding[a]
    /\ amount <= mgrStock[a]

(* _claim's guard, the checked arithmetic and the transfer it ends with    *)
ClaimOk(c, w, a, amount) ==
    /\ amount # 0
    /\ cycles[c].published
    /\ assetFunding[c][a].registered
    /\ now >= cycles[c].claimStart
    /\ now <= cycles[c].claimDeadline
    /\ ~claimed[c][w][a]
    /\ [cycle |-> c, claimant |-> w, asset |-> a, amount |-> amount]
           \in cycles[c].merkleRoot
    /\ amount <= Remaining(c, a)
    /\ amount <= totalOutstanding[a]
    /\ amount <= mgrStock[a]

(* totalOutstanding[asset] -= amount, for every claimed asset *)
OutstandingAfterPaying(as, amount) ==
    [a \in StockTokens |->
        IF a \in as THEN totalOutstanding[a] - amount[a]
                    ELSE totalOutstanding[a]]

(* _claim's effects for every asset of the set `as' at once.  The claims   *)
(* of one batch touch disjoint assets (a repeated asset finds its `claimed'*)
(* flag set and reverts the batch), so their order does not matter.        *)
PayClaims(c, w, as, amount) ==
    /\ \A a \in as : ClaimOk(c, w, a, amount[a])
    /\ claimed' = [claimed EXCEPT ![c][w] =
           [a \in StockTokens |-> IF a \in as THEN TRUE ELSE @[a]]]
    /\ assetFunding' = [assetFunding EXCEPT ![c] =
           [a \in StockTokens |->
               IF a \in as
               THEN [assetFunding[c][a] EXCEPT !.claimed = @ + amount[a]]
               ELSE @[a]]]
    /\ totalOutstanding' = OutstandingAfterPaying(as, amount)
    /\ mgrStock' = [a \in StockTokens |->
           IF a \in as THEN mgrStock[a] - amount[a] ELSE mgrStock[a]]
    /\ paid' = [paid EXCEPT ![c][w] =
           [a \in StockTokens |->
               IF a \in as THEN @[a] + amount[a] ELSE @[a]]]
    /\ UNCHANGED cycles

(* claim: one entitlement of the caller *)
Claim(c, w, a, amount) ==
    PayClaims(c, w, {a}, [x \in {a} |-> amount])

(* claimBatch: several entitlements of the caller in one cycle, atomically *)
ClaimBatch(c, w, as, amount) ==
    /\ as # {}
    /\ PayClaims(c, w, as, amount)

RecoveryOk_DefectAtDeadline(c, a) ==
    /\ cycles[c].published
    /\ assetFunding[c][a].registered
    /\ now >= cycles[c].claimDeadline
    /\ ~assetFunding[c][a].recoveryClosed

RecoveryOk_DefectUntouchedOnly(c, a) ==
    /\ cycles[c].published
    /\ assetFunding[c][a].registered
    /\ now > cycles[c].claimDeadline
    /\ assetFunding[c][a].claimed = 0
    /\ ~assetFunding[c][a].recoveryClosed

(* recoverExpired's guard: a funded asset, after the deadline, once        *)
RecoveryOk(c, a) ==
    /\ cycles[c].published
    /\ assetFunding[c][a].registered
    /\ now > cycles[c].claimDeadline
    /\ ~assetFunding[c][a].recoveryClosed

(* recoverExpired: anyone may sweep what is left to the recovery recipient *)
RecoverExpired(c, a) ==
    LET remainingAmount == Remaining(c, a)
    IN
    /\ RecoveryOk(c, a)
    /\ remainingAmount <= totalOutstanding[a]
    /\ remainingAmount <= mgrStock[a]
    /\ assetFunding' = [assetFunding EXCEPT
           ![c][a].recovered = @ + remainingAmount,
           ![c][a].recoveryClosed = TRUE]
    /\ totalOutstanding' = [totalOutstanding EXCEPT ![a] = @ - remainingAmount]
    /\ mgrStock' = [mgrStock EXCEPT ![a] = @ - remainingAmount]
    /\ UNCHANGED <<cycles, claimed, paid>>

(* Anyone may send the manager stock it did not ask for. *)
DonateToManager(a) ==
    /\ mgrStock[a] - totalOutstanding[a] < MaxDonation
    /\ mgrStock' = [mgrStock EXCEPT ![a] = @ + 1]
    /\ UNCHANGED <<cycles, assetFunding, claimed, totalOutstanding, paid>>

----------------------------------------------------------------------------
(* The manager on its own: its owner publishes whatever it likes, as soon  *)
(* as the code lets it.                                                    *)
MgrCall ==
    \/ \E c \in Cycles, root \in Roots \cup {ZeroRoot}, f \in Fundings,
          hashes \in {{1}, {0, 1}}, win \in Windows :
              PublishCycle(c, root, hashes, win[1], win[2], f)
    \/ \E c \in Cycles, w \in Claimants, a \in StockTokens, n \in Amounts :
              Claim(c, w, a, n)
    \/ \E c \in Cycles, w \in Claimants, as \in SUBSET StockTokens :
          \E amount \in [as -> Amounts] : ClaimBatch(c, w, as, amount)
    \/ \E c \in Cycles, a \in StockTokens : RecoverExpired(c, a)
    \/ \E a \in StockTokens : DonateToManager(a)

MgrNext ==
    \/ MgrCall /\ UNCHANGED now
    \/ Tick /\ UNCHANGED mgrVars

(* Recovery is permissionless and moves nothing of its caller's, so        *)
(* somebody (the recovery recipient at the latest) calls it; time passes.  *)
MgrFairness ==
    /\ WF_<<now, mgrVars>>(Tick /\ UNCHANGED mgrVars)
    /\ \A c \in Cycles, a \in StockTokens :
           WF_<<now, mgrVars>>(RecoverExpired(c, a) /\ UNCHANGED now)

MgrStart == now = 0 /\ MgrInit

MgrSpec == MgrStart /\ [][MgrNext]_<<now, mgrVars>>

MgrFairSpec == MgrSpec /\ MgrFairness

----------------------------------------------------------------------------
(* PROPERTIES *)

(* totalOutstanding is the sum of what the cycles still owe, so that the   *)
(* checked subtractions of _claim and recoverExpired never revert and no   *)
(* cycle's claims eat into another's funding.                              *)
OutstandingIsSum ==
    \A a \in StockTokens :
        totalOutstanding[a] =
            SumFunctionOnSet([c \in Cycles |-> Remaining(c, a)], Cycles)

(* A cycle never pays out or sweeps more than it was funded with.          *)
CycleWithinFunding ==
    \A c \in Cycles, a \in StockTokens :
        /\ Remaining(c, a) >= 0
        /\ assetFunding[c][a].recoveryClosed => Remaining(c, a) = 0

(* The manager can pay every cycle all it still owes it, at the same time: *)
(* a short credit at funding, a double payment or a recovery of another    *)
(* cycle's stock would each break it, donations never do.                  *)
Solvent ==
    /\ OutstandingIsSum
    /\ CycleWithinFunding
    /\ \A a \in StockTokens : mgrStock[a] >= totalOutstanding[a]

(* What a claimant was paid in a cycle is nothing, or the amount of one    *)
(* leaf of that cycle's root, whatever mix of claim, claimBatch and        *)
(* replays it took.                                                        *)
PaidOneLeaf ==
    \A c \in Cycles, w \in Claimants, a \in StockTokens :
        IF claimed[c][w][a]
        THEN [cycle |-> c, claimant |-> w, asset |-> a,
              amount |-> paid[c][w][a]] \in cycles[c].merkleRoot
        ELSE paid[c][w][a] = 0

(* The leaves of cycle c in asset a *)
LeavesOf(c, a) == {l \in cycles[c].merkleRoot : l.cycle = c /\ l.asset = a}

(* what they add up to *)
Entitled(c, a) ==
    SumFunctionOnSet([l \in LeavesOf(c, a) |-> l.amount], LeavesOf(c, a))

(* The cycle was funded with at least the entitlements of its root.        *)
Backed(c, a) ==
    /\ cycles[c].published
    /\ Entitled(c, a) <= assetFunding[c][a].funded

(* In a cycle whose root is covered by its funding no entitled claimant is *)
(* refused: while the window is open every unclaimed leaf can be claimed,  *)
(* in whatever order the others came.                                      *)
NoClaimStarved ==
    \A c \in Cycles, a \in StockTokens :
        \A l \in LeavesOf(c, a) :
            /\ Backed(c, a)
            /\ l.amount # 0
            /\ now \in cycles[c].claimStart .. cycles[c].claimDeadline
            /\ ~claimed[c][l.claimant][a]
            => ClaimOk(c, l.claimant, a, l.amount)

(* Once a cycle asset was recovered its books are closed: no claim and no  *)
(* second sweep ever touches them.                                         *)
RecoveryIsFinal ==
    [][\A c \in Cycles, a \in StockTokens :
           assetFunding[c][a].recoveryClosed
           => assetFunding'[c][a] = assetFunding[c][a]]_<<now, mgrVars>>

(* Nothing stays in a published cycle for ever: all it was funded with is  *)
(* eventually claimed or recovered.                                        *)
EverythingLeaves ==
    \A c \in Cycles, a \in StockTokens :
        assetFunding[c][a].registered ~> (Remaining(c, a) = 0)
=============================================================================
