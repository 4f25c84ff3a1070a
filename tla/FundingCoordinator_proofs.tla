---------------------- MODULE FundingCoordinator_proofs ----------------------
(***************************************************************************)
(* Proofs about the claim manager, about the acquisition vault, and about  *)
(* the composition of vault, adapter, coordinator and manager: for every   *)
(* basket, every number of acquisitions, cycles and claimants, and         *)
(* whatever adapters, routers, tokens and donors do.  The manager and the  *)
(* vault come first, each alone; the lemmas about the vault's actions      *)
(* leave their arguments free, so that they also serve the composition.    *)
(* What follows adds what the coordinator's records tie together.          *)
(***************************************************************************)
EXTENDS FundingCoordinator, SequenceTheorems, Sums_proofs

----------------------------------------------------------------------------
(* THE CLAIM MANAGER, for every set of cycles, claimants, stocks, roots,   *)
(* windows and funding arrays.  What a call does to the books of one asset *)
(* of one cycle is one of four entries: nothing (Kept), a funding, a       *)
(* payment to one claimant, a sweep.  Each action is first shown to make   *)
(* such entries in one cycle and to leave the others alone (CycleStep);    *)
(* the invariant is then shown to be preserved by the entries.             *)

(* Before it is published a cycle has no root and no books; a recovered    *)
(* asset belongs to a published cycle whose window is over.                *)
BooksFollowCycle ==
    \A c \in Cycles :
        /\ ~cycles[c].published => cycles[c].merkleRoot = ZeroRoot
        /\ \A a \in StockTokens :
            /\ assetFunding[c][a].registered => cycles[c].published
            /\ ~assetFunding[c][a].registered =>
                   /\ assetFunding[c][a].funded = 0
                   /\ assetFunding[c][a].claimed = 0
                   /\ assetFunding[c][a].recovered = 0
                   /\ ~assetFunding[c][a].recoveryClosed
            /\ assetFunding[c][a].recoveryClosed => now > cycles[c].claimDeadline
            /\ ~assetFunding[c][a].recoveryClosed =>
                   assetFunding[c][a].recovered = 0

(* What a cycle has recorded as claimed is what its claimants were paid.   *)
PaymentsBooked ==
    \A c \in Cycles, a \in StockTokens :
        assetFunding[c][a].claimed =
            SumFunctionOnSet([w \in Claimants |-> paid[c][w][a]], Claimants)

(* The inductive invariant *)
MgrInv ==
    /\ MgrTypeOK
    /\ BooksFollowCycle
    /\ PaymentsBooked
    /\ Solvent
    /\ PaidOneLeaf

----------------------------------------------------------------------------
(* The entries a step may make in the books of asset a of cycle c          *)
Kept(c, a) ==
    /\ assetFunding'[c][a] = assetFunding[c][a]
    /\ totalOutstanding'[a] = totalOutstanding[a]
    /\ mgrStock'[a] = mgrStock[a]
    /\ \A w \in Claimants : /\ claimed'[c][w][a] = claimed[c][w][a]
                            /\ paid'[c][w][a] = paid[c][w][a]

FundedNow(c, a) ==
    /\ ~cycles[c].published /\ cycles'[c].published
    /\ \E n \in Nat :
        /\ assetFunding'[c][a] =
               [assetFunding[c][a] EXCEPT !.registered = TRUE, !.funded = n]
        /\ totalOutstanding'[a] = totalOutstanding[a] + n
        /\ mgrStock'[a] = mgrStock[a] + n
    /\ \A w \in Claimants : /\ claimed'[c][w][a] = claimed[c][w][a]
                            /\ paid'[c][w][a] = paid[c][w][a]

PaidNow(c, a) ==
    /\ cycles'[c] = cycles[c]
    /\ \E w \in Claimants, n \in Nat :
        /\ ClaimOk(c, w, a, n)
        /\ assetFunding'[c][a] = [assetFunding[c][a] EXCEPT !.claimed = @ + n]
        /\ totalOutstanding'[a] = totalOutstanding[a] - n
        /\ mgrStock'[a] = mgrStock[a] - n
        /\ claimed'[c][w][a] = TRUE
        /\ paid'[c][w][a] = paid[c][w][a] + n
        /\ \A v \in Claimants \ {w} : /\ claimed'[c][v][a] = claimed[c][v][a]
                                      /\ paid'[c][v][a] = paid[c][v][a]

SweptNow(c, a) ==
    /\ cycles'[c] = cycles[c]
    /\ RecoveryOk(c, a)
    /\ Remaining(c, a) <= totalOutstanding[a]
    /\ Remaining(c, a) <= mgrStock[a]
    /\ assetFunding'[c][a] =
           [assetFunding[c][a] EXCEPT !.recovered = @ + Remaining(c, a),
                                      !.recoveryClosed = TRUE]
    /\ totalOutstanding'[a] = totalOutstanding[a] - Remaining(c, a)
    /\ mgrStock'[a] = mgrStock[a] - Remaining(c, a)
    /\ \A w \in Claimants : /\ claimed'[c][w][a] = claimed[c][w][a]
                            /\ paid'[c][w][a] = paid[c][w][a]

BookEntry(c, a) == Kept(c, a) \/ FundedNow(c, a) \/ PaidNow(c, a) \/ SweptNow(c, a)

(* The books are functions of cycle, claimant and asset. *)
BooksShape ==
    /\ cycles = [d \in Cycles |-> cycles[d]]
    /\ assetFunding = [d \in Cycles |-> [a \in StockTokens |-> assetFunding[d][a]]]
    /\ claimed = [d \in Cycles |-> [w \in Claimants |->
                     [a \in StockTokens |-> claimed[d][w][a]]]]
    /\ totalOutstanding = [a \in StockTokens |-> totalOutstanding[a]]
    /\ mgrStock = [a \in StockTokens |-> mgrStock[a]]
    /\ paid = [d \in Cycles |-> [w \in Claimants |->
                  [a \in StockTokens |-> paid[d][w][a]]]]

(* A step that makes entries in the books of cycle c only *)
CycleStep(c) ==
    /\ now' = now
    /\ BooksShape'
    /\ \A d \in Cycles \ {c} :
           /\ cycles'[d] = cycles[d]
           /\ assetFunding'[d] = assetFunding[d]
           /\ claimed'[d] = claimed[d]
           /\ paid'[d] = paid[d]
    /\ \/ cycles'[c] = cycles[c]
       \/ ~cycles[c].published /\ cycles'[c] \in Cycle /\ cycles'[c].published
    /\ \A a \in StockTokens : BookEntry(c, a)

(* A step that leaves every book alone: time passes, or stock comes in.    *)
IdleStep ==
    /\ now' \in Times /\ now' >= now
    /\ UNCHANGED <<cycles, assetFunding, claimed, totalOutstanding, paid>>
    /\ mgrStock' \in [StockTokens -> Nat]
    /\ \A a \in StockTokens : mgrStock'[a] >= mgrStock[a]

----------------------------------------------------------------------------
(* What the updates of an AssetFunding record do to its fields.            *)
LEMMA RecordUpdates ==
    ASSUME NEW r \in AssetFunding, NEW n \in Nat
    PROVE  /\ [r EXCEPT !.registered = TRUE, !.funded = n] \in AssetFunding
           /\ [r EXCEPT !.claimed = @ + n] \in AssetFunding
           /\ [r EXCEPT !.recovered = @ + n, !.recoveryClosed = TRUE]
                  \in AssetFunding
<1>1. r.recovered + n \in Nat /\ r.claimed + n \in Nat
  BY DEF AssetFunding
<1>2. \A m \in Nat : /\ [r EXCEPT !.registered = TRUE] \in AssetFunding
                     /\ [r EXCEPT !.recovered = m] \in AssetFunding
                     /\ [r EXCEPT !.claimed = m] \in AssetFunding
  BY DEF AssetFunding
<1>3. [[r EXCEPT !.registered = TRUE] EXCEPT !.funded = n] \in AssetFunding
  BY <1>2 DEF AssetFunding
<1>4. [[r EXCEPT !.recovered = @ + n] EXCEPT !.recoveryClosed = TRUE]
          \in AssetFunding
  BY <1>1, <1>2 DEF AssetFunding
<1> QED  BY <1>1, <1>2, <1>3, <1>4

(* An entry of the funding arrays, for any amounts *)
AnyFunding == Seq([asset : Assets, amount : Nat, received : Nat])

(* publishCycle enters a funding, or nothing, for each asset of its cycle. *)
LEMMA PublishStep ==
    ASSUME MgrTypeOK, now' = now,
           NEW c \in Cycles, NEW root \in Roots \cup {ZeroRoot}, NEW hashes,
           NEW start \in Times, NEW deadline \in Times,
           NEW funding \in AnyFunding,
           PublishCycle(c, root, hashes, start, deadline, funding)
    PROVE  CycleStep(c)
<1> DEFINE funded(a) == \E i \in DOMAIN funding : funding[i].asset = a
           k(a) == CHOOSE i \in DOMAIN funding : funding[i].asset = a
           opened == [merkleRoot |-> root, claimStart |-> start,
                      claimDeadline |-> deadline, published |-> TRUE]
           books == [a \in StockTokens |->
                        IF funded(a)
                        THEN [assetFunding[c][a] EXCEPT !.registered = TRUE,
                                  !.funded = funding[k(a)].amount]
                        ELSE assetFunding[c][a]]
<1>1. /\ ~cycles[c].published
      /\ cycles' = [cycles EXCEPT ![c] = opened]
      /\ assetFunding' = [assetFunding EXCEPT ![c] = books]
      /\ claimed' = claimed /\ paid' = paid
  BY DEF PublishCycle, MgrTypeOK
<1>2. ASSUME NEW a \in StockTokens
      PROVE  /\ funded(a) =>
                    /\ totalOutstanding'[a] =
                           totalOutstanding[a] + funding[k(a)].amount
                    /\ mgrStock'[a] = mgrStock[a] + funding[k(a)].received
             /\ ~funded(a) => /\ totalOutstanding'[a] = totalOutstanding[a]
                              /\ mgrStock'[a] = mgrStock[a]
  BY DEF PublishCycle
<1>3. /\ totalOutstanding' = [a \in StockTokens |-> totalOutstanding'[a]]
      /\ mgrStock' = [a \in StockTokens |-> mgrStock'[a]]
  BY DEF PublishCycle
<1>4. opened \in Cycle /\ opened.published
  BY DEF Cycle
<1>5. ASSUME NEW a \in StockTokens, funded(a)
      PROVE  /\ funding[k(a)].amount \in Nat
             /\ funding[k(a)].received = funding[k(a)].amount
  <2>1. k(a) \in DOMAIN funding /\ funding[k(a)].asset = a
    BY <1>5
  <2>2. FundAssetOk(c, funding[k(a)].asset, funding[k(a)].amount,
                    funding[k(a)].received)
    BY <2>1 DEF PublishCycle
  <2> HIDE DEF k
  <2>3. k(a) \in 1 .. Len(funding)
    BY <2>1, LenProperties DEF AnyFunding
  <2>4. funding[k(a)] \in [asset : Assets, amount : Nat, received : Nat]
    BY <2>3, ElementOfSeq DEF AnyFunding
  <2> QED  BY <2>2, <2>4 DEF FundAssetOk
<1> HIDE DEF k, opened
<1>6. /\ cycles'[c] = opened
      /\ assetFunding'[c] = books
      /\ \A d \in Cycles \ {c} : /\ cycles'[d] = cycles[d]
                                 /\ assetFunding'[d] = assetFunding[d]
  <2> HIDE DEF books
  <2> QED  BY <1>1 DEF MgrTypeOK
<1>7. BooksShape'
  <2>1. /\ cycles' = [d \in Cycles |-> cycles'[d]]
        /\ assetFunding' = [d \in Cycles |-> assetFunding'[d]]
    <3> HIDE DEF books
    <3> QED  BY <1>1 DEF MgrTypeOK
  <2>2. \A d \in Cycles :
            assetFunding'[d] = [a \in StockTokens |-> assetFunding'[d][a]]
    BY <1>6 DEF MgrTypeOK
  <2>3. /\ claimed = [d \in Cycles |-> [w \in Claimants |->
                         [a \in StockTokens |-> claimed[d][w][a]]]]
        /\ paid = [d \in Cycles |-> [w \in Claimants |->
                      [a \in StockTokens |-> paid[d][w][a]]]]
    BY DEF MgrTypeOK
  <2>4. assetFunding' = [d \in Cycles |->
                            [a \in StockTokens |-> assetFunding'[d][a]]]
    <3> HIDE DEF books
    <3> QED  BY <2>1, <2>2
  <2>5. /\ claimed' = [d \in Cycles |-> [w \in Claimants |->
                          [a \in StockTokens |-> claimed'[d][w][a]]]]
        /\ paid' = [d \in Cycles |-> [w \in Claimants |->
                       [a \in StockTokens |-> paid'[d][w][a]]]]
    <3> HIDE DEF books
    <3> QED  BY <1>1, <2>3
  <2> HIDE DEF books
  <2> QED  BY <1>3, <2>1, <2>4, <2>5 DEF BooksShape
<1>8. ASSUME NEW a \in StockTokens PROVE BookEntry(c, a)
  <2>1. totalOutstanding[a] \in Nat /\ mgrStock[a] \in Nat
    BY DEF MgrTypeOK
  <2>2. CASE funded(a)
    <3>1. assetFunding'[c][a] =
              [assetFunding[c][a] EXCEPT !.registered = TRUE,
                   !.funded = funding[k(a)].amount]
      BY <1>6, <2>2
    <3>2. /\ funding[k(a)].amount \in Nat
          /\ totalOutstanding'[a] = totalOutstanding[a] + funding[k(a)].amount
          /\ mgrStock'[a] = mgrStock[a] + funding[k(a)].amount
      BY <1>2, <1>5, <2>2
    <3>3. \A w \in Claimants : /\ claimed'[c][w][a] = claimed[c][w][a]
                               /\ paid'[c][w][a] = paid[c][w][a]
      BY <1>1
    <3> DEFINE n == funding[k(a)].amount
    <3> HIDE DEF n, books
    <3>4. FundedNow(c, a)
      BY <1>1, <1>4, <1>6, <3>1, <3>2, <3>3 DEF FundedNow, n
    <3> QED  BY <3>4 DEF BookEntry
  <2>3. CASE ~funded(a)
    <3>1. assetFunding'[c][a] = assetFunding[c][a]
      BY <1>6, <2>3
    <3>2. totalOutstanding'[a] = totalOutstanding[a] /\ mgrStock'[a] = mgrStock[a]
      BY <1>2, <2>3
    <3> QED  BY <1>1, <3>1, <3>2 DEF BookEntry, Kept
  <2> QED  BY <2>2, <2>3
<1> HIDE DEF books
<1> QED  BY <1>1, <1>4, <1>6, <1>7, <1>8 DEF CycleStep

(* claim and claimBatch enter a payment for each claimed asset. *)
LEMMA PayStep ==
    ASSUME MgrTypeOK, now' = now,
           NEW c \in Cycles, NEW w \in Claimants, NEW as \in SUBSET StockTokens,
           NEW amount \in [as -> Nat],
           PayClaims(c, w, as, amount)
    PROVE  CycleStep(c)
<1> DEFINE books == [a \in StockTokens |->
                        IF a \in as
                        THEN [assetFunding[c][a] EXCEPT !.claimed = @ + amount[a]]
                        ELSE assetFunding[c][a]]
           flags == [a \in StockTokens |->
                        IF a \in as THEN TRUE ELSE claimed[c][w][a]]
           sums == [a \in StockTokens |->
                       IF a \in as THEN paid[c][w][a] + amount[a]
                       ELSE paid[c][w][a]]
<1>1. /\ cycles' = cycles
      /\ assetFunding' = [assetFunding EXCEPT ![c] = books]
      /\ claimed' = [claimed EXCEPT ![c][w] = flags]
      /\ paid' = [paid EXCEPT ![c][w] = sums]
  <2>1. cycles' = cycles
    BY DEF PayClaims
  <2>2. assetFunding' = [assetFunding EXCEPT ![c] = books]
    BY DEF PayClaims, MgrTypeOK
  <2>3. claimed' = [claimed EXCEPT ![c][w] = flags]
    BY DEF PayClaims, MgrTypeOK
  <2>4. paid' = [paid EXCEPT ![c][w] = sums]
    BY DEF PayClaims, MgrTypeOK
  <2> QED  BY <2>1, <2>2, <2>3, <2>4
<1>2. ASSUME NEW a \in StockTokens
      PROVE  /\ a \in as =>
                    /\ totalOutstanding'[a] = totalOutstanding[a] - amount[a]
                    /\ mgrStock'[a] = mgrStock[a] - amount[a]
             /\ a \notin as => /\ totalOutstanding'[a] = totalOutstanding[a]
                               /\ mgrStock'[a] = mgrStock[a]
  BY DEF PayClaims, OutstandingAfterPaying
<1>3. /\ totalOutstanding' = [a \in StockTokens |-> totalOutstanding'[a]]
      /\ mgrStock' = [a \in StockTokens |-> mgrStock'[a]]
  BY DEF PayClaims, OutstandingAfterPaying
<1>4. /\ assetFunding'[c] = books
      /\ claimed'[c][w] = flags
      /\ paid'[c][w] = sums
      /\ \A d \in Cycles \ {c} : /\ assetFunding'[d] = assetFunding[d]
                                 /\ claimed'[d] = claimed[d]
                                 /\ paid'[d] = paid[d]
      /\ \A v \in Claimants \ {w} : /\ claimed'[c][v] = claimed[c][v]
                                    /\ paid'[c][v] = paid[c][v]
  <2> HIDE DEF books, flags, sums
  <2> QED  BY <1>1 DEF MgrTypeOK
<1>5. BooksShape'
  <2>1. /\ assetFunding' = [d \in Cycles |-> assetFunding'[d]]
        /\ claimed' = [d \in Cycles |-> [v \in Claimants |-> claimed'[d][v]]]
        /\ paid' = [d \in Cycles |-> [v \in Claimants |-> paid'[d][v]]]
    <3> HIDE DEF books, flags, sums
    <3> QED  BY <1>1 DEF MgrTypeOK
  <2>2. \A d \in Cycles :
            assetFunding'[d] = [a \in StockTokens |-> assetFunding'[d][a]]
    <3> TAKE d \in Cycles
    <3>1. CASE d = c
      BY <1>4, <3>1
    <3>2. CASE d # c
      <4> HIDE DEF books
      <4>1. assetFunding'[d] = assetFunding[d]
        BY <1>4, <3>2
      <4> QED  BY <4>1 DEF MgrTypeOK
    <3> QED  BY <3>1, <3>2
  <2>3. \A d \in Cycles, v \in Claimants :
            /\ claimed'[d][v] = [a \in StockTokens |-> claimed'[d][v][a]]
            /\ paid'[d][v] = [a \in StockTokens |-> paid'[d][v][a]]
    <3> TAKE d \in Cycles, v \in Claimants
    <3>1. CASE d = c /\ v = w
      BY <1>4, <3>1
    <3>2. CASE ~(d = c /\ v = w)
      <4>1. claimed'[d][v] = claimed[d][v] /\ paid'[d][v] = paid[d][v]
        <5> HIDE DEF flags, sums
        <5> QED  BY <1>4, <3>2
      <4> QED  BY <4>1 DEF MgrTypeOK
    <3> QED  BY <3>1, <3>2
  <2>4. cycles' = [d \in Cycles |-> cycles'[d]]
    BY <1>1 DEF MgrTypeOK
  <2> HIDE DEF books, flags, sums
  <2>5. assetFunding' = [d \in Cycles |->
                            [a \in StockTokens |-> assetFunding'[d][a]]]
    BY <2>1, <2>2
  <2>6. /\ claimed' = [d \in Cycles |-> [v \in Claimants |->
                          [a \in StockTokens |-> claimed'[d][v][a]]]]
        /\ paid' = [d \in Cycles |-> [v \in Claimants |->
                       [a \in StockTokens |-> paid'[d][v][a]]]]
    <3>1. claimed' = [d \in Cycles |-> [v \in Claimants |->
                         [a \in StockTokens |-> claimed'[d][v][a]]]]
      BY <2>1, <2>3
    <3>2. paid' = [d \in Cycles |-> [v \in Claimants |->
                      [a \in StockTokens |-> paid'[d][v][a]]]]
      BY <2>1, <2>3
    <3> QED  BY <3>1, <3>2
  <2> QED  BY <1>3, <2>4, <2>5, <2>6 DEF BooksShape
<1>6. ASSUME NEW a \in StockTokens PROVE BookEntry(c, a)
  <2>1. CASE a \in as
    <3>1. amount[a] \in Nat /\ ClaimOk(c, w, a, amount[a])
      BY <2>1 DEF PayClaims
    <3>2. /\ assetFunding'[c][a] =
                [assetFunding[c][a] EXCEPT !.claimed = @ + amount[a]]
          /\ claimed'[c][w][a] = TRUE
          /\ paid'[c][w][a] = paid[c][w][a] + amount[a]
      BY <1>4, <2>1
    <3>3. PaidNow(c, a)
      <4> HIDE DEF books, flags, sums
      <4> QED  BY <1>1, <1>2, <1>4, <2>1, <3>1, <3>2 DEF PaidNow
    <3> QED  BY <3>3 DEF BookEntry
  <2>2. CASE a \notin as
    <3>1. /\ assetFunding'[c][a] = assetFunding[c][a]
          /\ claimed'[c][w][a] = claimed[c][w][a]
          /\ paid'[c][w][a] = paid[c][w][a]
      BY <1>4, <2>2
    <3>2. \A v \in Claimants : /\ claimed'[c][v][a] = claimed[c][v][a]
                               /\ paid'[c][v][a] = paid[c][v][a]
      <4> HIDE DEF books, flags, sums
      <4> QED  BY <1>4, <3>1
    <3> QED  BY <1>2, <2>2, <3>1, <3>2 DEF BookEntry, Kept
  <2> QED  BY <2>1, <2>2
<1> HIDE DEF books, flags, sums
<1> QED  BY <1>1, <1>4, <1>5, <1>6 DEF CycleStep

(* recoverExpired enters a sweep. *)
LEMMA RecoverStep ==
    ASSUME MgrTypeOK, now' = now,
           NEW c \in Cycles, NEW a \in StockTokens, RecoverExpired(c, a)
    PROVE  CycleStep(c)
<1> DEFINE swept == [assetFunding[c][a] EXCEPT
                        !.recovered = @ + Remaining(c, a),
                        !.recoveryClosed = TRUE]
<1>1. /\ RecoveryOk(c, a)
      /\ Remaining(c, a) <= totalOutstanding[a]
      /\ Remaining(c, a) <= mgrStock[a]
      /\ assetFunding' = [assetFunding EXCEPT ![c][a] = swept]
      /\ totalOutstanding' = [totalOutstanding EXCEPT ![a] = @ - Remaining(c, a)]
      /\ mgrStock' = [mgrStock EXCEPT ![a] = @ - Remaining(c, a)]
      /\ cycles' = cycles /\ claimed' = claimed /\ paid' = paid
  <2>1. assetFunding' = [assetFunding EXCEPT ![c][a] = swept]
    BY DEF RecoverExpired, MgrTypeOK
  <2> QED  BY <2>1 DEF RecoverExpired
<1> HIDE DEF swept
<1>2. /\ assetFunding'[c][a] = swept
      /\ \A b \in StockTokens \ {a} : assetFunding'[c][b] = assetFunding[c][b]
      /\ \A d \in Cycles \ {c} : assetFunding'[d] = assetFunding[d]
  BY <1>1 DEF MgrTypeOK
<1>3. /\ totalOutstanding'[a] = totalOutstanding[a] - Remaining(c, a)
      /\ mgrStock'[a] = mgrStock[a] - Remaining(c, a)
      /\ \A b \in StockTokens \ {a} : /\ totalOutstanding'[b] = totalOutstanding[b]
                                      /\ mgrStock'[b] = mgrStock[b]
  BY <1>1 DEF MgrTypeOK
<1>4. BooksShape'
  <2>1. assetFunding' = [d \in Cycles |->
                            [b \in StockTokens |-> assetFunding'[d][b]]]
    BY <1>1 DEF MgrTypeOK
  <2>2. /\ claimed = [d \in Cycles |-> [w \in Claimants |->
                         [b \in StockTokens |-> claimed[d][w][b]]]]
        /\ paid = [d \in Cycles |-> [w \in Claimants |->
                      [b \in StockTokens |-> paid[d][w][b]]]]
        /\ cycles = [d \in Cycles |-> cycles[d]]
    BY DEF MgrTypeOK
  <2>3. /\ totalOutstanding' = [b \in StockTokens |-> totalOutstanding'[b]]
        /\ mgrStock' = [b \in StockTokens |-> mgrStock'[b]]
    BY <1>1 DEF MgrTypeOK
  <2> QED  BY <1>1, <2>1, <2>2, <2>3 DEF BooksShape
<1>5. SweptNow(c, a)
  BY <1>1, <1>2, <1>3 DEF SweptNow, swept
<1>6. \A b \in StockTokens \ {a} : Kept(c, b)
  BY <1>1, <1>2, <1>3 DEF Kept
<1> QED  BY <1>1, <1>2, <1>4, <1>5, <1>6 DEF CycleStep, BookEntry

(* Every step of the manager makes entries in one cycle, or is idle. *)
LEMMA MgrSteps ==
    ASSUME MgrTypeOK, [MgrNext]_<<now, mgrVars>>
    PROVE  IdleStep \/ \E c \in Cycles : CycleStep(c)
<1> USE DEF Times
<1>1. ASSUME NEW c \in Cycles, NEW root \in Roots \cup {ZeroRoot},
             NEW f \in Fundings, NEW hashes, NEW win \in Windows,
             PublishCycle(c, root, hashes, win[1], win[2], f), now' = now
      PROVE  CycleStep(c)
  <2>1. /\ win[1] \in Times /\ win[2] \in Times
    BY ChainAssumption, ClaimAssumption
  <2>2. f \in AnyFunding
    <3>1. FundingEntry \subseteq [asset : Assets, amount : Nat, received : Nat]
      BY ClaimAssumption DEF FundingEntry
    <3>2. f \in Seq(FundingEntry)
      BY ClaimAssumption
    <3> QED  BY <3>1, <3>2, SeqMonotonic DEF AnyFunding
  <2> QED  BY <1>1, <2>1, <2>2, PublishStep
<1>2. ASSUME NEW c \in Cycles, NEW w \in Claimants, NEW a \in StockTokens,
             NEW n \in Amounts, Claim(c, w, a, n), now' = now
      PROVE  CycleStep(c)
  BY <1>2, PayStep, ClaimAssumption DEF Claim
<1>3. ASSUME NEW c \in Cycles, NEW w \in Claimants,
             NEW as \in SUBSET StockTokens, NEW amount \in [as -> Amounts],
             ClaimBatch(c, w, as, amount), now' = now
      PROVE  CycleStep(c)
  BY <1>3, PayStep, ClaimAssumption DEF ClaimBatch
<1>4. ASSUME NEW c \in Cycles, NEW a \in StockTokens, RecoverExpired(c, a),
             now' = now
      PROVE  CycleStep(c)
  BY <1>4, RecoverStep
<1>5. ASSUME NEW a \in StockTokens, DonateToManager(a), now' = now
      PROVE  IdleStep
  BY <1>5 DEF DonateToManager, IdleStep, MgrTypeOK
<1>6. ASSUME Tick, UNCHANGED mgrVars
      PROVE  IdleStep
  BY <1>6, ChainAssumption DEF Tick, IdleStep, MgrTypeOK, mgrVars
<1>7. ASSUME UNCHANGED <<now, mgrVars>>
      PROVE  IdleStep
  BY <1>7 DEF IdleStep, MgrTypeOK, mgrVars
<1> QED
  BY <1>1, <1>2, <1>3, <1>4, <1>5, <1>6, <1>7 DEF MgrNext, MgrCall

----------------------------------------------------------------------------
(* What the invariant says of asset a of cycle c *)
AssetTypes(c, a) ==
    /\ assetFunding[c][a] \in AssetFunding
    /\ totalOutstanding[a] \in Nat
    /\ mgrStock[a] \in Nat
    /\ \A w \in Claimants : claimed[c][w][a] \in BOOLEAN /\ paid[c][w][a] \in Nat

LifeFollowed(c, a) ==
    /\ assetFunding[c][a].registered => cycles[c].published
    /\ ~assetFunding[c][a].registered =>
           /\ assetFunding[c][a].funded = 0
           /\ assetFunding[c][a].claimed = 0
           /\ assetFunding[c][a].recovered = 0
           /\ ~assetFunding[c][a].recoveryClosed
    /\ assetFunding[c][a].recoveryClosed => now > cycles[c].claimDeadline
    /\ ~assetFunding[c][a].recoveryClosed => assetFunding[c][a].recovered = 0

AssetBooks(c, a) ==
    /\ Remaining(c, a) >= 0
    /\ assetFunding[c][a].recoveryClosed => Remaining(c, a) = 0
    /\ assetFunding[c][a].claimed =
           SumFunctionOnSet([w \in Claimants |-> paid[c][w][a]], Claimants)
    /\ mgrStock[a] >= totalOutstanding[a]

LeafPaid(c, a) ==
    \A w \in Claimants :
        IF claimed[c][w][a]
        THEN [cycle |-> c, claimant |-> w, asset |-> a,
              amount |-> paid[c][w][a]] \in cycles[c].merkleRoot
        ELSE paid[c][w][a] = 0

AssetRight(c, a) ==
    AssetTypes(c, a) /\ LifeFollowed(c, a) /\ AssetBooks(c, a) /\ LeafPaid(c, a)

(* The totals moved by what the cycle's liability moved. *)
TotalFollows(c, a) ==
    totalOutstanding'[a] = totalOutstanding[a] + (Remaining(c, a)' - Remaining(c, a))

(* the facts about cycle c and asset a that the entries start from *)
LEMMA InvAtAsset ==
    ASSUME MgrInv, NEW c \in Cycles, NEW a \in StockTokens
    PROVE  /\ AssetRight(c, a)
           /\ cycles[c] \in Cycle /\ now \in Nat
           /\ ~cycles[c].published => cycles[c].merkleRoot = ZeroRoot
<1>1. AssetTypes(c, a)
  BY DEF MgrInv, MgrTypeOK, AssetTypes
<1>2. LifeFollowed(c, a)
  BY DEF MgrInv, BooksFollowCycle, LifeFollowed
<1>3. AssetBooks(c, a)
  BY DEF MgrInv, Solvent, CycleWithinFunding, PaymentsBooked, AssetBooks
<1>4. LeafPaid(c, a)
  BY DEF MgrInv, PaidOneLeaf, LeafPaid
<1>5. cycles[c] \in Cycle /\ now \in Nat
  BY DEF MgrInv, MgrTypeOK, Times
<1> QED
  BY <1>1, <1>2, <1>3, <1>4, <1>5 DEF AssetRight, MgrInv, BooksFollowCycle

(* The fields of the books are numbers. *)
LEMMA FieldTypes ==
    ASSUME NEW r \in AssetFunding
    PROVE  /\ r.funded \in Nat /\ r.claimed \in Nat /\ r.recovered \in Nat
           /\ r.registered \in BOOLEAN /\ r.recoveryClosed \in BOOLEAN
BY DEF AssetFunding

(* Publication may change a cycle that was not published; no claim was     *)
(* made in it, since its root was empty.                                   *)
CycleKeptOrOpened(c) ==
    \/ cycles'[c] = cycles[c]
    \/ ~cycles[c].published /\ cycles'[c] \in Cycle /\ cycles'[c].published

LEMMA UnpublishedIsUnclaimed ==
    ASSUME NEW c, NEW a, AssetRight(c, a), ~cycles[c].published,
           cycles[c].merkleRoot = ZeroRoot
    PROVE  /\ ~assetFunding[c][a].registered
           /\ \A w \in Claimants : ~claimed[c][w][a] /\ paid[c][w][a] = 0
BY DEF AssetRight, LifeFollowed, LeafPaid, ZeroRoot

(* An asset whose books were not touched stays right. *)
LEMMA KeptRight ==
    ASSUME MgrInv, now' = now, NEW c \in Cycles, NEW a \in StockTokens,
           CycleKeptOrOpened(c), Kept(c, a)
    PROVE  AssetRight(c, a)' /\ TotalFollows(c, a)
<1>1. /\ AssetRight(c, a) /\ cycles[c] \in Cycle
      /\ ~cycles[c].published => cycles[c].merkleRoot = ZeroRoot
  BY InvAtAsset
<1>2. AssetTypes(c, a)'
  BY <1>1 DEF AssetRight, AssetTypes, Kept
<1>3. LifeFollowed(c, a)'
  BY <1>1, UnpublishedIsUnclaimed
  DEF AssetRight, LifeFollowed, Kept, CycleKeptOrOpened
<1>4. AssetBooks(c, a)'
  <2>1. [w \in Claimants |-> paid'[c][w][a]] = [w \in Claimants |-> paid[c][w][a]]
    BY DEF Kept
  <2> QED  BY <1>1, <2>1 DEF AssetRight, AssetBooks, Kept, Remaining
<1>5. LeafPaid(c, a)'
  <2>1. CASE cycles'[c] = cycles[c]
    BY <1>1, <2>1 DEF AssetRight, LeafPaid, Kept
  <2>2. CASE ~cycles[c].published
    BY <1>1, <2>2, UnpublishedIsUnclaimed DEF LeafPaid, Kept
  <2> QED  BY <2>1, <2>2 DEF CycleKeptOrOpened
<1>6. TotalFollows(c, a)
  <2>1. Remaining(c, a)' = Remaining(c, a) /\ Remaining(c, a) \in Int
    BY <1>1, FieldTypes DEF AssetRight, AssetTypes, Kept, Remaining
  <2>2. totalOutstanding[a] \in Nat
    BY <1>1 DEF AssetRight, AssetTypes
  <2> QED  BY <2>1, <2>2 DEF TotalFollows, Kept
<1> QED  BY <1>2, <1>3, <1>4, <1>5, <1>6 DEF AssetRight

(* An asset that is funded is right: it had no books before. *)
LEMMA FundedRight ==
    ASSUME MgrInv, now' = now, NEW c \in Cycles, NEW a \in StockTokens,
           CycleKeptOrOpened(c), FundedNow(c, a)
    PROVE  AssetRight(c, a)' /\ TotalFollows(c, a)
<1>1. /\ AssetRight(c, a) /\ cycles[c] \in Cycle
      /\ cycles[c].merkleRoot = ZeroRoot
  BY InvAtAsset DEF FundedNow
<1>2. PICK n \in Nat :
          /\ assetFunding'[c][a] =
                 [assetFunding[c][a] EXCEPT !.registered = TRUE, !.funded = n]
          /\ totalOutstanding'[a] = totalOutstanding[a] + n
          /\ mgrStock'[a] = mgrStock[a] + n
  BY DEF FundedNow
<1>3. assetFunding'[c][a] \in AssetFunding
  BY <1>1, <1>2, RecordUpdates DEF AssetRight, AssetTypes
<1>4. /\ ~assetFunding[c][a].registered
      /\ assetFunding[c][a].funded = 0
      /\ assetFunding[c][a].claimed = 0
      /\ assetFunding[c][a].recovered = 0
      /\ ~assetFunding[c][a].recoveryClosed
      /\ \A w \in Claimants : ~claimed[c][w][a] /\ paid[c][w][a] = 0
  BY <1>1, UnpublishedIsUnclaimed DEF FundedNow, AssetRight, LifeFollowed
<1>5. /\ assetFunding'[c][a].registered
      /\ assetFunding'[c][a].funded = n
      /\ assetFunding'[c][a].claimed = 0
      /\ assetFunding'[c][a].recovered = 0
      /\ ~assetFunding'[c][a].recoveryClosed
  <2>1. assetFunding[c][a] \in AssetFunding
    BY <1>1 DEF AssetRight, AssetTypes
  <2>2. /\ assetFunding'[c][a].registered = TRUE
        /\ assetFunding'[c][a].funded = n
        /\ assetFunding'[c][a].claimed = assetFunding[c][a].claimed
        /\ assetFunding'[c][a].recovered = assetFunding[c][a].recovered
        /\ assetFunding'[c][a].recoveryClosed = assetFunding[c][a].recoveryClosed
    BY <1>2, <2>1 DEF AssetFunding
  <2> QED  BY <1>4, <2>2
<1>6. totalOutstanding[a] \in Nat /\ mgrStock[a] \in Nat
  BY <1>1 DEF AssetRight, AssetTypes
<1>7. AssetTypes(c, a)'
  BY <1>1, <1>2, <1>3, <1>6 DEF AssetRight, AssetTypes, FundedNow
<1>8. LifeFollowed(c, a)'
  BY <1>5 DEF LifeFollowed, FundedNow
<1>9. AssetBooks(c, a)'
  <2>1. [w \in Claimants |-> paid'[c][w][a]] = [w \in Claimants |-> paid[c][w][a]]
    BY DEF FundedNow
  <2>2. SumFunctionOnSet([w \in Claimants |-> paid[c][w][a]], Claimants) = 0
    BY <1>1, <1>4 DEF AssetRight, AssetBooks
  <2>3. mgrStock[a] >= totalOutstanding[a]
    BY <1>1 DEF AssetRight, AssetBooks
  <2> QED
    BY <1>2, <1>5, <1>6, <2>1, <2>2, <2>3 DEF AssetBooks, Remaining
<1>10. LeafPaid(c, a)'
  BY <1>4 DEF LeafPaid, FundedNow
<1>11. TotalFollows(c, a)
  BY <1>2, <1>4, <1>5, <1>6 DEF TotalFollows, Remaining
<1> QED  BY <1>7, <1>8, <1>9, <1>10, <1>11 DEF AssetRight

(* A payment keeps the asset right: it is within what remains, and it adds *)
(* the same amount to the claimant's receipts and to the cycle's claims.   *)
LEMMA PaidRight ==
    ASSUME MgrInv, now' = now, NEW c \in Cycles, NEW a \in StockTokens,
           PaidNow(c, a)
    PROVE  AssetRight(c, a)' /\ TotalFollows(c, a)
<1>1. /\ AssetRight(c, a) /\ cycles[c] \in Cycle /\ now \in Nat
  BY InvAtAsset
<1>2. PICK w \in Claimants, n \in Nat :
        /\ ClaimOk(c, w, a, n)
        /\ assetFunding'[c][a] = [assetFunding[c][a] EXCEPT !.claimed = @ + n]
        /\ totalOutstanding'[a] = totalOutstanding[a] - n
        /\ mgrStock'[a] = mgrStock[a] - n
        /\ claimed'[c][w][a] = TRUE
        /\ paid'[c][w][a] = paid[c][w][a] + n
        /\ \A v \in Claimants \ {w} : /\ claimed'[c][v][a] = claimed[c][v][a]
                                      /\ paid'[c][v][a] = paid[c][v][a]
  BY DEF PaidNow
<1>3. /\ assetFunding[c][a] \in AssetFunding
      /\ assetFunding'[c][a] \in AssetFunding
      /\ totalOutstanding[a] \in Nat /\ mgrStock[a] \in Nat
      /\ \A v \in Claimants : paid[c][v][a] \in Nat
  BY <1>1, <1>2, RecordUpdates DEF AssetRight, AssetTypes
<1>4. /\ assetFunding'[c][a].registered = assetFunding[c][a].registered
      /\ assetFunding'[c][a].funded = assetFunding[c][a].funded
      /\ assetFunding'[c][a].claimed = assetFunding[c][a].claimed + n
      /\ assetFunding'[c][a].recovered = assetFunding[c][a].recovered
      /\ assetFunding'[c][a].recoveryClosed = assetFunding[c][a].recoveryClosed
  BY <1>2, <1>3 DEF AssetFunding
<1>5. /\ n # 0
      /\ cycles[c].published /\ assetFunding[c][a].registered
      /\ now <= cycles[c].claimDeadline
      /\ ~claimed[c][w][a]
      /\ [cycle |-> c, claimant |-> w, asset |-> a, amount |-> n]
             \in cycles[c].merkleRoot
      /\ n <= Remaining(c, a)
      /\ n <= totalOutstanding[a]
      /\ n <= mgrStock[a]
  BY <1>2 DEF ClaimOk
<1>6. ~assetFunding[c][a].recoveryClosed
  <2>1. cycles[c].claimDeadline \in Int
    BY <1>1 DEF Cycle, Times
  <2> QED  BY <1>1, <1>5, <2>1 DEF AssetRight, LifeFollowed
<1>7. cycles'[c] = cycles[c]
  BY DEF PaidNow
<1>8. AssetTypes(c, a)'
  <2>1. totalOutstanding'[a] \in Nat /\ mgrStock'[a] \in Nat
    BY <1>2, <1>3, <1>5
  <2>2. ASSUME NEW v \in Claimants
        PROVE  claimed'[c][v][a] \in BOOLEAN /\ paid'[c][v][a] \in Nat
    <3>1. claimed[c][v][a] \in BOOLEAN /\ paid[c][v][a] \in Nat
      BY <1>1 DEF AssetRight, AssetTypes
    <3>2. CASE v = w
      <4>1. paid'[c][w][a] \in Nat
        BY <1>2, <1>3
      <4> QED  BY <1>2, <3>2, <4>1, Zenon
    <3>3. CASE v # w
      BY <1>2, <3>1, <3>3
    <3> QED  BY <3>2, <3>3
  <2> QED  BY <1>3, <2>1, <2>2 DEF AssetTypes
<1>9. LifeFollowed(c, a)'
  BY <1>1, <1>4, <1>5, <1>6, <1>7 DEF AssetRight, LifeFollowed
<1>10. /\ Remaining(c, a)' = Remaining(c, a) - n
       /\ Remaining(c, a) \in Int
  BY <1>3, <1>4, FieldTypes DEF Remaining
<1>11. AssetBooks(c, a)'
  <2> DEFINE before == [v \in Claimants |-> paid[c][v][a]]
             after == [v \in Claimants |-> paid'[c][v][a]]
  <2>1. \A v \in Claimants : before[v] \in Int /\ after[v] \in Int
    BY <1>2, <1>3
  <2>2. /\ after[w] - before[w] = n
        /\ \A v \in Claimants : v # w => after[v] = before[v]
    BY <1>2, <1>3
  <2>3. IsFiniteSet(Claimants)
    BY ClaimAssumption
  <2> HIDE DEF before, after
  <2>4. SumFunctionOnSet(after, Claimants) = SumFunctionOnSet(before, Claimants) + n
    BY <2>1, <2>2, <2>3, SumUpdate
  <2>5. /\ assetFunding[c][a].claimed = SumFunctionOnSet(before, Claimants)
        /\ mgrStock[a] >= totalOutstanding[a]
    BY <1>1 DEF AssetRight, AssetBooks, before
  <2>6. assetFunding'[c][a].claimed = SumFunctionOnSet(after, Claimants)
    BY <1>4, <2>4, <2>5
  <2> QED
    BY <1>2, <1>3, <1>4, <1>5, <1>6, <1>10, <2>5, <2>6 DEF AssetBooks, after
<1>12. LeafPaid(c, a)'
  <2>1. paid[c][w][a] = 0
    BY <1>1, <1>5 DEF AssetRight, LeafPaid
  <2>2. paid'[c][w][a] = n
    BY <1>2, <2>1
  <2> QED  BY <1>1, <1>2, <1>5, <1>7, <2>2 DEF AssetRight, LeafPaid
<1>13. TotalFollows(c, a)
  BY <1>2, <1>3, <1>10 DEF TotalFollows
<1> QED  BY <1>8, <1>9, <1>11, <1>12, <1>13 DEF AssetRight

(* A sweep keeps the asset right: it takes exactly what remains. *)
LEMMA SweptRight ==
    ASSUME MgrInv, now' = now, NEW c \in Cycles, NEW a \in StockTokens,
           SweptNow(c, a)
    PROVE  AssetRight(c, a)' /\ TotalFollows(c, a)
<1> DEFINE n == Remaining(c, a)
<1>1. AssetRight(c, a)
  BY InvAtAsset
<1>2. /\ assetFunding[c][a] \in AssetFunding
      /\ totalOutstanding[a] \in Nat /\ mgrStock[a] \in Nat
      /\ mgrStock[a] >= totalOutstanding[a]
  BY <1>1 DEF AssetRight, AssetTypes, AssetBooks
<1>3. n \in Nat
  <2>1. n \in Int
    BY <1>2, FieldTypes DEF Remaining
  <2>2. n >= 0
    BY <1>1 DEF AssetRight, AssetBooks
  <2> QED  BY <2>1, <2>2
<1>4. /\ cycles'[c] = cycles[c]
      /\ cycles[c].published
      /\ assetFunding[c][a].registered
      /\ now > cycles[c].claimDeadline
      /\ ~assetFunding[c][a].recoveryClosed
      /\ n <= totalOutstanding[a]
      /\ n <= mgrStock[a]
      /\ totalOutstanding'[a] = totalOutstanding[a] - n
      /\ mgrStock'[a] = mgrStock[a] - n
      /\ assetFunding'[c][a] =
             [assetFunding[c][a] EXCEPT !.recovered = @ + n,
                                        !.recoveryClosed = TRUE]
  BY DEF SweptNow, RecoveryOk
<1>5. /\ assetFunding'[c][a] \in AssetFunding
      /\ assetFunding'[c][a].registered = assetFunding[c][a].registered
      /\ assetFunding'[c][a].funded = assetFunding[c][a].funded
      /\ assetFunding'[c][a].claimed = assetFunding[c][a].claimed
      /\ assetFunding'[c][a].recovered = assetFunding[c][a].recovered + n
      /\ assetFunding'[c][a].recoveryClosed
  <2> HIDE DEF n
  <2>1. assetFunding'[c][a] \in AssetFunding
    BY <1>2, <1>3, <1>4, RecordUpdates
  <2> QED  BY <1>2, <1>4, <2>1 DEF AssetFunding
<1>6. Remaining(c, a)' = 0
  BY <1>2, <1>5, FieldTypes DEF Remaining
<1>7. AssetTypes(c, a)'
  <2>1. totalOutstanding'[a] \in Nat /\ mgrStock'[a] \in Nat
    <3> HIDE DEF n
    <3> QED  BY <1>2, <1>3, <1>4
  <2> QED  BY <1>1, <1>5, <2>1 DEF AssetRight, AssetTypes, SweptNow
<1>8. LifeFollowed(c, a)'
  <2> HIDE DEF n
  <2> QED  BY <1>4, <1>5 DEF LifeFollowed
<1>9. AssetBooks(c, a)'
  <2>1. [w \in Claimants |-> paid'[c][w][a]] = [w \in Claimants |-> paid[c][w][a]]
    BY DEF SweptNow
  <2>2. mgrStock'[a] >= totalOutstanding'[a]
    <3> HIDE DEF n
    <3> QED  BY <1>2, <1>3, <1>4
  <2> QED  BY <1>1, <1>5, <1>6, <2>1, <2>2 DEF AssetRight, AssetBooks
<1>10. LeafPaid(c, a)'
  BY <1>1, <1>4 DEF AssetRight, LeafPaid, SweptNow
<1>11. TotalFollows(c, a)
  <2> HIDE DEF n
  <2>1. totalOutstanding'[a] = totalOutstanding[a] + (Remaining(c, a)' - n)
    BY <1>2, <1>3, <1>4, <1>6
  <2> QED  BY <2>1 DEF TotalFollows, n
<1> QED  BY <1>7, <1>8, <1>9, <1>10, <1>11 DEF AssetRight

----------------------------------------------------------------------------
(* Entries in one cycle preserve the invariant. *)
LEMMA CyclePreserves ==
    ASSUME MgrInv, NEW c \in Cycles, CycleStep(c)
    PROVE  MgrInv'
<1>1. /\ now' = now /\ BooksShape' /\ CycleKeptOrOpened(c)
      /\ \A d \in Cycles \ {c} : /\ cycles'[d] = cycles[d]
                                 /\ assetFunding'[d] = assetFunding[d]
                                 /\ claimed'[d] = claimed[d]
                                 /\ paid'[d] = paid[d]
  BY DEF CycleStep, CycleKeptOrOpened
<1>2. ASSUME NEW a \in StockTokens
      PROVE  AssetRight(c, a)' /\ TotalFollows(c, a)
  <2>1. BookEntry(c, a)
    BY DEF CycleStep
  <2> QED
    BY <1>1, <2>1, KeptRight, FundedRight, PaidRight, SweptRight DEF BookEntry
<1>3. ASSUME NEW d \in Cycles, d # c, NEW a \in StockTokens
      PROVE  /\ LifeFollowed(d, a)' /\ LeafPaid(d, a)'
             /\ assetFunding'[d][a] \in AssetFunding
             /\ \A w \in Claimants : /\ claimed'[d][w][a] \in BOOLEAN
                                     /\ paid'[d][w][a] \in Nat
             /\ Remaining(d, a)' = Remaining(d, a)
             /\ Remaining(d, a) >= 0
             /\ assetFunding'[d][a].recoveryClosed => Remaining(d, a)' = 0
             /\ assetFunding'[d][a].claimed =
                 SumFunctionOnSet([w \in Claimants |-> paid'[d][w][a]], Claimants)
  <2>1. AssetRight(d, a)
    BY InvAtAsset
  <2>2. /\ cycles'[d] = cycles[d]
        /\ assetFunding'[d] = assetFunding[d]
        /\ claimed'[d] = claimed[d]
        /\ paid'[d] = paid[d]
    BY <1>1, <1>3
  <2> QED
    BY <1>1, <2>1, <2>2
    DEF AssetRight, AssetTypes, LifeFollowed, AssetBooks, LeafPaid, Remaining
<1>4. \A d \in Cycles, a \in StockTokens :
          /\ LifeFollowed(d, a)' /\ LeafPaid(d, a)'
          /\ assetFunding'[d][a] \in AssetFunding
          /\ \A w \in Claimants : /\ claimed'[d][w][a] \in BOOLEAN
                                  /\ paid'[d][w][a] \in Nat
          /\ Remaining(d, a)' >= 0
          /\ assetFunding'[d][a].recoveryClosed => Remaining(d, a)' = 0
          /\ assetFunding'[d][a].claimed =
                 SumFunctionOnSet([w \in Claimants |-> paid'[d][w][a]], Claimants)
  BY <1>2, <1>3 DEF AssetRight, AssetTypes, AssetBooks
<1>5. \A a \in StockTokens : /\ totalOutstanding'[a] \in Nat
                             /\ mgrStock'[a] \in Nat
                             /\ mgrStock'[a] >= totalOutstanding'[a]
  BY <1>2 DEF AssetRight, AssetTypes, AssetBooks
<1>6. \A d \in Cycles : /\ cycles'[d] \in Cycle
                        /\ ~cycles'[d].published => cycles'[d].merkleRoot = ZeroRoot
  <2>1. \A d \in Cycles : /\ cycles[d] \in Cycle
                          /\ ~cycles[d].published => cycles[d].merkleRoot = ZeroRoot
    BY DEF MgrInv, MgrTypeOK, BooksFollowCycle
  <2> QED  BY <1>1, <2>1 DEF CycleKeptOrOpened
<1>7. MgrTypeOK'
  <2>1. now' \in Times
    BY <1>1 DEF MgrInv, MgrTypeOK
  <2>6. cycles' \in [Cycles -> Cycle]
    <3>1. cycles' = [d \in Cycles |-> cycles'[d]]
      BY <1>1 DEF BooksShape
    <3>2. \A d \in Cycles : cycles'[d] \in Cycle
      BY <1>6
    <3> QED  BY <3>1, <3>2, Zenon
  <2>2. assetFunding' \in [Cycles -> [StockTokens -> AssetFunding]]
    BY <1>1, <1>4 DEF BooksShape
  <2>3. claimed' \in [Cycles -> [Claimants -> [StockTokens -> BOOLEAN]]]
    <3>1. claimed' = [d \in Cycles |-> [w \in Claimants |->
                         [a \in StockTokens |-> claimed'[d][w][a]]]]
      BY <1>1, Zenon DEF BooksShape
    <3>2. \A d \in Cycles, w \in Claimants, a \in StockTokens :
              claimed'[d][w][a] \in BOOLEAN
      BY <1>4
    <3> DEFINE row(d, w) == [a \in StockTokens |-> claimed'[d][w][a]]
    <3>3. \A d \in Cycles, w \in Claimants : row(d, w) \in [StockTokens -> BOOLEAN]
      BY <3>2
    <3>4. claimed' = [d \in Cycles |-> [w \in Claimants |-> row(d, w)]]
      BY <3>1
    <3> HIDE DEF row
    <3> QED  BY <3>3, <3>4
  <2>4. paid' \in [Cycles -> [Claimants -> [StockTokens -> Nat]]]
    <3>1. paid' = [d \in Cycles |-> [w \in Claimants |->
                      [a \in StockTokens |-> paid'[d][w][a]]]]
      BY <1>1, Zenon DEF BooksShape
    <3>2. \A d \in Cycles, w \in Claimants, a \in StockTokens :
              paid'[d][w][a] \in Nat
      BY <1>4
    <3> DEFINE row(d, w) == [a \in StockTokens |-> paid'[d][w][a]]
    <3>3. \A d \in Cycles, w \in Claimants : row(d, w) \in [StockTokens -> Nat]
      BY <3>2
    <3>4. paid' = [d \in Cycles |-> [w \in Claimants |-> row(d, w)]]
      BY <3>1
    <3> HIDE DEF row
    <3> QED  BY <3>3, <3>4
  <2>5. /\ totalOutstanding' \in [StockTokens -> Nat]
        /\ mgrStock' \in [StockTokens -> Nat]
    BY <1>1, <1>5 DEF BooksShape
  <2> QED  BY <2>1, <2>2, <2>3, <2>4, <2>5, <2>6 DEF MgrTypeOK
<1>8. BooksFollowCycle'
  <2>1. \A d \in Cycles, a \in StockTokens : LifeFollowed(d, a)'
    BY <1>4
  <2>2. \A d \in Cycles :
            ~cycles'[d].published => cycles'[d].merkleRoot = ZeroRoot
    BY <1>6
  <2> QED  BY <2>1, <2>2 DEF BooksFollowCycle, LifeFollowed
<1>9. PaymentsBooked'
  BY <1>4 DEF PaymentsBooked
<1>10. OutstandingIsSum'
  <2> SUFFICES ASSUME NEW a \in StockTokens
               PROVE  totalOutstanding'[a] =
                   SumFunctionOnSet([d \in Cycles |-> Remaining(d, a)'], Cycles)
    BY DEF OutstandingIsSum
  <2> DEFINE before == [d \in Cycles |-> Remaining(d, a)]
             after == [d \in Cycles |-> Remaining(d, a)']
  <2>1. \A d \in Cycles : before[d] \in Int /\ after[d] \in Int
    <3> TAKE d \in Cycles
    <3>1. assetFunding[d][a] \in AssetFunding /\ assetFunding'[d][a] \in AssetFunding
      BY <1>4 DEF MgrInv, MgrTypeOK
    <3>2. Remaining(d, a) \in Int /\ Remaining(d, a)' \in Int
      BY <3>1, FieldTypes DEF Remaining
    <3> QED  BY <3>2
  <2>2. \A d \in Cycles : d # c => after[d] = before[d]
    BY <1>3
  <2>3. /\ after[c] = Remaining(c, a)' /\ before[c] = Remaining(c, a)
        /\ totalOutstanding[a] = SumFunctionOnSet(before, Cycles)
    BY DEF MgrInv, Solvent, OutstandingIsSum
  <2>4. totalOutstanding'[a] = totalOutstanding[a] + (after[c] - before[c])
    BY <1>2, <2>3 DEF TotalFollows
  <2>5. IsFiniteSet(Cycles)
    BY ClaimAssumption
  <2> HIDE DEF before, after
  <2>6. SumFunctionOnSet(after, Cycles) =
            SumFunctionOnSet(before, Cycles) + (after[c] - before[c])
    BY <2>1, <2>2, <2>5, SumUpdate
  <2>7. totalOutstanding'[a] = SumFunctionOnSet(after, Cycles)
    BY <2>3, <2>4, <2>6
  <2> QED  BY <2>7 DEF after
<1>11. Solvent'
  BY <1>4, <1>5, <1>10 DEF Solvent, CycleWithinFunding
<1>12. PaidOneLeaf'
  BY <1>4 DEF PaidOneLeaf, LeafPaid
<1> QED  BY <1>7, <1>8, <1>9, <1>11, <1>12 DEF MgrInv

(* So do a donation and the passing of time. *)
LEMMA IdlePreserves ==
    ASSUME MgrInv, IdleStep
    PROVE  MgrInv'
<1>1. MgrTypeOK'
  BY DEF MgrInv, MgrTypeOK, IdleStep
<1>2. BooksFollowCycle'
  <2>1. now \in Int /\ now' \in Int /\ now' >= now
    BY DEF MgrInv, MgrTypeOK, IdleStep, Times
  <2>2. \A c \in Cycles : cycles[c].claimDeadline \in Int
    BY DEF MgrInv, MgrTypeOK, Cycle, Times
  <2> QED  BY <2>1, <2>2 DEF MgrInv, BooksFollowCycle, IdleStep
<1>3. PaymentsBooked' /\ PaidOneLeaf'
  BY DEF MgrInv, PaymentsBooked, PaidOneLeaf, IdleStep
<1>4. OutstandingIsSum' /\ CycleWithinFunding'
  BY DEF MgrInv, Solvent, OutstandingIsSum, CycleWithinFunding, Remaining, IdleStep
<1>5. \A a \in StockTokens : mgrStock'[a] >= totalOutstanding'[a]
  <2> TAKE a \in StockTokens
  <2>1. /\ mgrStock[a] \in Nat /\ mgrStock'[a] \in Nat
        /\ totalOutstanding[a] \in Nat
        /\ mgrStock'[a] >= mgrStock[a] /\ mgrStock[a] >= totalOutstanding[a]
        /\ totalOutstanding'[a] = totalOutstanding[a]
    BY DEF MgrInv, MgrTypeOK, Solvent, IdleStep
  <2> QED  BY <2>1
<1> QED  BY <1>1, <1>2, <1>3, <1>4, <1>5 DEF MgrInv, Solvent

(* The invariant holds of a manager that was just deployed. *)
LEMMA MgrStartInv == MgrStart => MgrInv
<1> SUFFICES ASSUME MgrStart PROVE MgrInv
  OBVIOUS
<1> USE DEF MgrStart, MgrInit
<1>1. MgrTypeOK
  BY ChainAssumption DEF MgrTypeOK, Cycle, AssetFunding, Times
<1>2. BooksFollowCycle
  BY DEF BooksFollowCycle
<1>3. PaymentsBooked
  <2> SUFFICES ASSUME NEW c \in Cycles, NEW a \in StockTokens
               PROVE  SumFunctionOnSet([w \in Claimants |-> paid[c][w][a]],
                                       Claimants) = 0
    BY DEF PaymentsBooked
  <2> DEFINE f == [w \in Claimants |-> paid[c][w][a]]
  <2>1. IsFiniteSet(Claimants) /\ \A w \in Claimants : f[w] = 0
    BY ClaimAssumption
  <2> HIDE DEF f
  <2>2. SumFunctionOnSet(f, Claimants) = 0
    BY <2>1, SumZero
  <2> QED  BY <2>2 DEF f
<1>4. Solvent
  <2>1. \A c \in Cycles, a \in StockTokens : Remaining(c, a) = 0
    <3> TAKE c \in Cycles, a \in StockTokens
    <3>1. /\ assetFunding[c][a].funded = 0
          /\ assetFunding[c][a].claimed = 0
          /\ assetFunding[c][a].recovered = 0
      OBVIOUS
    <3> QED  BY <3>1 DEF Remaining
  <2>2. OutstandingIsSum
    <3> SUFFICES ASSUME NEW a \in StockTokens
                 PROVE  SumFunctionOnSet([c \in Cycles |-> Remaining(c, a)],
                                         Cycles) = 0
      BY DEF OutstandingIsSum
    <3> DEFINE f == [c \in Cycles |-> Remaining(c, a)]
    <3>1. IsFiniteSet(Cycles) /\ \A c \in Cycles : f[c] = 0
      BY <2>1, ClaimAssumption
    <3> HIDE DEF f
    <3>2. SumFunctionOnSet(f, Cycles) = 0
      BY <3>1, SumZero
    <3> QED  BY <3>2 DEF f
  <2> QED  BY <2>1, <2>2 DEF Solvent, CycleWithinFunding
<1>5. PaidOneLeaf
  BY DEF PaidOneLeaf
<1> QED  BY <1>1, <1>2, <1>3, <1>4, <1>5 DEF MgrInv

(* Every step of the manager preserves the invariant. *)
LEMMA MgrNextInv == MgrInv /\ [MgrNext]_<<now, mgrVars>> => MgrInv'
<1> SUFFICES ASSUME MgrInv, [MgrNext]_<<now, mgrVars>> PROVE MgrInv'
  OBVIOUS
<1>1. IdleStep \/ \E c \in Cycles : CycleStep(c)
  BY MgrSteps DEF MgrInv
<1> QED  BY <1>1, CyclePreserves, IdlePreserves

LEMMA MgrInvAlways == MgrSpec => []MgrInv
  BY MgrStartInv, MgrNextInv, PTL DEF MgrSpec

----------------------------------------------------------------------------
(* Whatever is published, funded, claimed and recovered, the manager's     *)
(* variables keep their types: in particular no counter goes below zero,   *)
(* so none of the subtractions in _claim and recoverExpired reverts.       *)
THEOREM ManagerTyped == MgrSpec => []MgrTypeOK
  BY MgrInvAlways, PTL DEF MgrInv

(* The manager can at all times pay every cycle all it still owes it:      *)
(* totalOutstanding is the sum of what the cycles owe, no cycle pays or    *)
(* sweeps more than _fundAsset recorded for it, and the balance covers     *)
(* the total.                                                              *)
THEOREM ManagerSolvent == MgrSpec => []Solvent
  BY MgrInvAlways, PTL DEF MgrInv

(* A claimant is paid one leaf of the cycle's root in an asset, or         *)
(* nothing: claim, claimBatch and their replays add up to no more.         *)
THEOREM OneLeafPaid == MgrSpec => []PaidOneLeaf
  BY MgrInvAlways, PTL DEF MgrInv

(* After recoverExpired the books of the cycle asset never change again.   *)
THEOREM RecoveryFinal == MgrSpec => RecoveryIsFinal
<1>1. ASSUME MgrInv, [MgrNext]_<<now, mgrVars>>,
             NEW c \in Cycles, NEW a \in StockTokens,
             assetFunding[c][a].recoveryClosed
      PROVE  assetFunding'[c][a] = assetFunding[c][a]
  <2>1. AssetRight(c, a)
    BY <1>1, InvAtAsset
  <2>2. Remaining(c, a) = 0 /\ assetFunding[c][a].registered /\ cycles[c].published
    BY <1>1, <2>1 DEF AssetRight, LifeFollowed, AssetBooks
  <2>3. CASE IdleStep
    BY <2>3 DEF IdleStep
  <2>4. ASSUME NEW d \in Cycles, CycleStep(d)
        PROVE  assetFunding'[c][a] = assetFunding[c][a]
    <3>1. CASE d # c
      BY <2>4, <3>1 DEF CycleStep
    <3>2. CASE d = c
      <4>1. BookEntry(c, a)
        BY <2>4, <3>2 DEF CycleStep
      <4>2. ~FundedNow(c, a)
        BY <2>2 DEF FundedNow
      <4>3. ~PaidNow(c, a)
        <5> SUFFICES ASSUME PaidNow(c, a) PROVE FALSE
          OBVIOUS
        <5>1. PICK n \in Nat : n # 0 /\ n <= Remaining(c, a)
          BY DEF PaidNow, ClaimOk
        <5> QED  BY <2>2, <5>1
      <4>4. ~SweptNow(c, a)
        BY <1>1 DEF SweptNow, RecoveryOk
      <4> QED  BY <4>1, <4>2, <4>3, <4>4 DEF BookEntry, Kept
    <3> QED  BY <3>1, <3>2
  <2>5. IdleStep \/ \E d \in Cycles : CycleStep(d)
    BY <1>1, MgrSteps DEF MgrInv
  <2> QED  BY <2>3, <2>4, <2>5
<1>2. MgrInv /\ [MgrNext]_<<now, mgrVars>> =>
          [\A c \in Cycles, a \in StockTokens :
              assetFunding[c][a].recoveryClosed
              => assetFunding'[c][a] = assetFunding[c][a]]_<<now, mgrVars>>
  BY <1>1
<1> QED  BY <1>2, MgrInvAlways, PTL DEF MgrSpec, RecoveryIsFinal

----------------------------------------------------------------------------
(* In a backed cycle whose window is open, what the other leaves have been *)
(* paid leaves enough for each unclaimed one.                              *)
LEMMA EnoughRemains ==
    ASSUME MgrInv, NEW c \in Cycles, NEW a \in StockTokens,
           NEW l \in LeavesOf(c, a), Backed(c, a), ~claimed[c][l.claimant][a],
           ~assetFunding[c][a].recoveryClosed
    PROVE  l.amount <= Remaining(c, a)
<1> DEFINE L == LeavesOf(c, a)
           due == [m \in L |-> m.amount]
           settled == [m \in L |-> IF claimed[c][m.claimant][a]
                                   THEN m.amount ELSE 0]
           withL == [m \in L |-> IF m = l THEN l.amount ELSE settled[m]]
           receipts == [w \in Claimants |-> paid[c][w][a]]
           leaf == [w \in Claimants |->
                       [cycle |-> c, claimant |-> w, asset |-> a,
                        amount |-> paid[c][w][a]]]
<1>1. /\ AssetRight(c, a)
      /\ cycles[c] \in Cycle
  BY InvAtAsset
<1>2. /\ IsFiniteSet(Claimants)
      /\ IsFiniteSet(L)
      /\ \A m \in L : m \in Leaves /\ m.amount \in Nat
  <2>1. IsFiniteSet(cycles[c].merkleRoot) /\ cycles[c].merkleRoot \subseteq Leaves
    BY <1>1, ClaimAssumption, FS_EmptySet DEF Cycle, ZeroRoot
  <2>2. L \subseteq cycles[c].merkleRoot
    BY DEF LeavesOf
  <2>3. IsFiniteSet(L)
    BY <2>1, <2>2, FS_Subset
  <2>4. IsFiniteSet(Claimants)
    BY ClaimAssumption
  <2>5. \A m \in L : m \in Leaves /\ m.amount \in Nat
    BY <2>1, <2>2, ClaimAssumption DEF Leaves
  <2> QED  BY <2>3, <2>4, <2>5
<1>3. SumFunctionOnSet(receipts, Claimants) <= SumFunctionOnSet(settled, L)
  <2>1. \A w \in Claimants : receipts[w] \in Nat
    BY <1>1 DEF AssetRight, AssetTypes
  <2>2. \A m \in L : settled[m] \in Nat
    BY <1>2
  <2>3. \A v, w \in Claimants : leaf[v] = leaf[w] => v = w
    <3> SUFFICES ASSUME NEW v \in Claimants, NEW w \in Claimants,
                        leaf[v] = leaf[w]
                 PROVE  v = w
      OBVIOUS
    <3>1. leaf[v].claimant = v /\ leaf[w].claimant = w
      OBVIOUS
    <3> QED  BY <3>1
  <2>4. ASSUME NEW w \in Claimants
        PROVE  receipts[w] = 0 \/ (leaf[w] \in L /\ receipts[w] <= settled[leaf[w]])
    <3>1. CASE claimed[c][w][a]
      <4>1. /\ leaf[w] \in cycles[c].merkleRoot
            /\ leaf[w].cycle = c /\ leaf[w].asset = a
            /\ leaf[w].claimant = w /\ leaf[w].amount = paid[c][w][a]
        BY <1>1, <3>1 DEF AssetRight, LeafPaid
      <4> HIDE DEF leaf
      <4>2. leaf[w] \in L
        BY <4>1 DEF LeavesOf
      <4>3. settled[leaf[w]] = receipts[w]
        BY <3>1, <4>1, <4>2
      <4> QED  BY <2>1, <4>2, <4>3
    <3>2. CASE ~claimed[c][w][a]
      BY <1>1, <3>2 DEF AssetRight, LeafPaid
    <3> QED  BY <3>1, <3>2
  <2> HIDE DEF receipts, settled, leaf, L
  <2> QED  BY <1>2, <2>1, <2>2, <2>3, <2>4, SumCovered
<1>4. SumFunctionOnSet(withL, L) = SumFunctionOnSet(settled, L) + l.amount
  <2>1. /\ \A m \in L : settled[m] \in Int /\ withL[m] \in Int
        /\ l \in L /\ settled[l] = 0 /\ withL[l] = l.amount
        /\ \A m \in L : m # l => withL[m] = settled[m]
    BY <1>2
  <2>2. l.amount \in Int
    BY <1>2
  <2> HIDE DEF withL, settled, L
  <2>3. SumFunctionOnSet(withL, L) =
            SumFunctionOnSet(settled, L) + (withL[l] - settled[l])
    BY <1>2, <2>1, SumUpdate
  <2> QED  BY <2>1, <2>2, <2>3
<1>5. SumFunctionOnSet(withL, L) <= SumFunctionOnSet(due, L)
  <2>1. \A m \in L : withL[m] \in Int /\ due[m] \in Int /\ withL[m] <= due[m]
    BY <1>2
  <2> HIDE DEF withL, due, L
  <2> QED  BY <1>2, <2>1, SumMonotone
<1>6. /\ SumFunctionOnSet(receipts, Claimants) \in Int
      /\ SumFunctionOnSet(settled, L) \in Int
      /\ SumFunctionOnSet(due, L) \in Int
      /\ l.amount \in Nat
  <2>1. /\ \A w \in Claimants : receipts[w] \in Int
        /\ \A m \in L : settled[m] \in Int /\ due[m] \in Int
    BY <1>1, <1>2 DEF AssetRight, AssetTypes
  <2> HIDE DEF receipts, settled, due, L
  <2>2. l.amount \in Nat
    BY <1>2 DEF L
  <2> QED  BY <1>2, <2>1, <2>2, SumType
<1>7. /\ SumFunctionOnSet(due, L) <= assetFunding[c][a].funded
      /\ assetFunding[c][a].claimed = SumFunctionOnSet(receipts, Claimants)
      /\ assetFunding[c][a].recovered = 0
  BY <1>1 DEF Backed, Entitled, AssetRight, AssetBooks, LifeFollowed
<1>8. assetFunding[c][a].funded \in Nat
  BY <1>1, FieldTypes DEF AssetRight, AssetTypes
<1> HIDE DEF withL, settled, due, receipts, leaf, L
<1> QED  BY <1>3, <1>4, <1>5, <1>6, <1>7, <1>8 DEF Remaining

(* In a cycle funded with at least its entitlements, claim never refuses   *)
(* an unclaimed leaf while the window is open, in whatever order the       *)
(* others claimed and whatever the other cycles did.                       *)
THEOREM NobodyStarved == MgrSpec => []NoClaimStarved
<1>1. ASSUME MgrInv, NEW c \in Cycles, NEW a \in StockTokens,
             NEW l \in LeavesOf(c, a), Backed(c, a), l.amount # 0,
             now \in cycles[c].claimStart .. cycles[c].claimDeadline,
             ~claimed[c][l.claimant][a]
      PROVE  ClaimOk(c, l.claimant, a, l.amount)
  <2>1. /\ AssetRight(c, a) /\ cycles[c] \in Cycle /\ now \in Nat
    BY <1>1, InvAtAsset
  <2>2. /\ cycles[c].published
        /\ now >= cycles[c].claimStart
        /\ now <= cycles[c].claimDeadline
    <3>1. cycles[c].claimStart \in Int /\ cycles[c].claimDeadline \in Int
      BY <2>1 DEF Cycle, Times
    <3> QED  BY <1>1, <2>1, <3>1 DEF Backed
  <2>3. ~assetFunding[c][a].recoveryClosed
    <3>1. cycles[c].claimDeadline \in Int
      BY <2>1 DEF Cycle, Times
    <3> QED  BY <2>1, <2>2, <3>1 DEF AssetRight, LifeFollowed
  <2>4. l.amount <= Remaining(c, a)
    BY <1>1, <2>3, EnoughRemains
  <2>5. /\ l \in cycles[c].merkleRoot /\ l \in Leaves
        /\ l.cycle = c /\ l.asset = a
    BY <1>1, <2>1, ClaimAssumption DEF LeavesOf, Cycle, ZeroRoot
  <2>6. /\ l.amount \in Nat
        /\ l = [cycle |-> c, claimant |-> l.claimant, asset |-> a,
                amount |-> l.amount]
    BY <2>5, ClaimAssumption DEF Leaves
  <2>7. Remaining(c, a) <= totalOutstanding[a]
    <3> DEFINE owed == [d \in Cycles |-> Remaining(d, a)]
    <3>1. \A d \in Cycles : owed[d] \in Nat
      <4> TAKE d \in Cycles
      <4>1. AssetRight(d, a)
        BY <1>1, InvAtAsset
      <4>2. Remaining(d, a) \in Int /\ Remaining(d, a) >= 0
        BY <4>1, FieldTypes DEF AssetRight, AssetTypes, AssetBooks, Remaining
      <4> QED  BY <4>2
    <3>2. /\ IsFiniteSet(Cycles)
          /\ totalOutstanding[a] = SumFunctionOnSet(owed, Cycles)
          /\ owed[c] = Remaining(c, a)
      BY <1>1, ClaimAssumption DEF MgrInv, Solvent, OutstandingIsSum
    <3> HIDE DEF owed
    <3>3. owed[c] <= SumFunctionOnSet(owed, Cycles)
      BY <3>1, <3>2, SumBound
    <3> QED  BY <3>2, <3>3
  <2>8. /\ assetFunding[c][a].registered
        /\ l.amount <= totalOutstanding[a]
        /\ l.amount <= mgrStock[a]
    <3>1. /\ assetFunding[c][a] \in AssetFunding
          /\ totalOutstanding[a] \in Nat /\ mgrStock[a] \in Nat
          /\ mgrStock[a] >= totalOutstanding[a]
          /\ Remaining(c, a) >= 0
      BY <2>1 DEF AssetRight, AssetTypes, AssetBooks
    <3>2. Remaining(c, a) \in Int
      BY <3>1, FieldTypes DEF Remaining
    <3>3. CASE ~assetFunding[c][a].registered
      <4>1. /\ assetFunding[c][a].funded = 0
            /\ assetFunding[c][a].claimed = 0
            /\ assetFunding[c][a].recovered = 0
        BY <2>1, <3>3 DEF AssetRight, LifeFollowed
      <4>2. Remaining(c, a) = 0
        BY <4>1 DEF Remaining
      <4> QED  BY <1>1, <2>4, <2>6, <4>2
    <3> QED  BY <2>4, <2>6, <2>7, <3>1, <3>2, <3>3
  <2> HIDE DEF MgrInv
  <2> QED  BY <1>1, <2>2, <2>4, <2>5, <2>6, <2>8 DEF ClaimOk
<1>2. MgrInv => NoClaimStarved
  BY <1>1 DEF NoClaimStarved
<1> QED  BY <1>2, MgrInvAlways, PTL

----------------------------------------------------------------------------
(* THE VAULT                                                               *)

(* Nothing is released that was not allocated: what ties the checked       *)
(* subtraction in distributionReleasable() to the counters.                *)
ReleasedWithinAllocated ==
    \A s \in StockTokens : distributionReleased[s] <= distributionAllocated[s]

(* The inductive invariant *)
VaultInv ==
    /\ VaultTypeOK
    /\ VaultAccountsBalance
    /\ ReleasedWithinAllocated

(* What the invariant says of one stock *)
StockRight(s) ==
    /\ vaultStock[s] \in Nat /\ reserveStock[s] \in Nat
    /\ totalStockAcquired[s] \in Nat
    /\ distributionAllocated[s] \in Nat /\ reserveAllocated[s] \in Nat
    /\ distributionReleased[s] \in Nat
    /\ distributionReleased[s] <= distributionAllocated[s]
    /\ vaultStock[s] + distributionReleased[s] >= distributionAllocated[s]
    /\ totalStockAcquired[s] = distributionAllocated[s] + reserveAllocated[s]
    /\ reserveStock[s] = reserveAllocated[s]
    /\ distributionAllocated[s] * 100 <= totalStockAcquired[s] * 80

(* The stock books are functions of the stock. *)
StockShape ==
    /\ vaultStock = [s \in StockTokens |-> vaultStock[s]]
    /\ reserveStock = [s \in StockTokens |-> reserveStock[s]]
    /\ totalStockAcquired = [s \in StockTokens |-> totalStockAcquired[s]]
    /\ distributionAllocated = [s \in StockTokens |-> distributionAllocated[s]]
    /\ reserveAllocated = [s \in StockTokens |-> reserveAllocated[s]]
    /\ distributionReleased = [s \in StockTokens |-> distributionReleased[s]]

----------------------------------------------------------------------------
(* Math.mulDiv(acquired, 80, 100) is the floor of four fifths. *)
LEMMA DistributionPartFloor ==
    ASSUME NEW n \in Nat
    PROVE  /\ DistributionPart(n) \in Nat
           /\ DistributionPart(n) <= n
           /\ DistributionPart(n) * 100 <= n * 80
           /\ n * 80 < DistributionPart(n) * 100 + 100
<1> DEFINE p == n * 80
<1>1. p \in Nat
  OBVIOUS
<1>2. DistributionPart(n) = p \div 100
  BY DEF DistributionPart, SPLIT_DENOMINATOR, DISTRIBUTION_PERCENT
<1>3. /\ p \div 100 \in Nat
      /\ (p \div 100) * 100 <= p
      /\ p < (p \div 100) * 100 + 100
  <2> HIDE DEF p
  <2> QED  BY <1>1
<1> QED  BY <1>2, <1>3

(* The invariant, stock by stock *)
LEMMA VaultInvByStock ==
    ASSUME VaultInv
    PROVE  /\ \A s \in StockTokens : StockRight(s)
           /\ StockShape
BY DEF VaultInv, VaultTypeOK, VaultAccountsBalance, DistributionInCustody,
       SplitAccountsForAll, ReleasedWithinAllocated, StockRight, StockShape,
       SPLIT_DENOMINATOR, DISTRIBUTION_PERCENT

(* and back: a step that keeps every stock right keeps the invariant.      *)
LEMMA VaultInvFromStock ==
    ASSUME StockShape', \A s \in StockTokens : StockRight(s)', now' \in Times,
           vaultWeth' \in Nat, totalWethSpent' \in Nat, wethDelivered' \in Nat,
           vaultWeth' + totalWethSpent' = wethDelivered'
    PROVE  VaultInv'
<1>1. VaultTypeOK'
  BY DEF VaultTypeOK, StockShape, StockRight
<1>2. VaultAccountsBalance' /\ ReleasedWithinAllocated'
  BY DEF VaultAccountsBalance, DistributionInCustody, SplitAccountsForAll,
         WethAccounted, ReleasedWithinAllocated, StockRight,
         SPLIT_DENOMINATOR, DISTRIBUTION_PERCENT
<1> QED  BY <1>1, <1>2 DEF VaultInv

----------------------------------------------------------------------------
(* executeAcquisition, whatever the adapter and the stock token did. *)
LEMMA ExecutePreserves ==
    ASSUME VaultInv, now' = now,
           NEW caller, NEW s \in StockTokens, NEW w \in Nat, NEW min,
           NEW deadline, NEW ad, ad.delivered \in Nat, NEW out,
           ExecuteAcquisition(caller, s, w, min, deadline, ad, out)
    PROVE  VaultInv'
<1> DEFINE n == ad.delivered
           d == DistributionPart(n)
           r == n - d
<1>1. /\ n \in Nat /\ d \in Nat /\ r \in Nat
      /\ d * 100 <= n * 80
  BY DistributionPartFloor
<1>2. out.sent = r /\ out.received = r
  <2>1. ReserveDelivered(out, r)
    BY DEF ExecuteAcquisition
  <2> HIDE DEF r
  <2>2. CASE r > 0
    BY <2>1, <2>2 DEF ReserveDelivered, ExactTransfer
  <2>3. CASE r = 0
    BY <2>1, <2>3 DEF ReserveDelivered
  <2> QED  BY <1>1, <2>2, <2>3
<1>3. /\ ad.taken = w /\ w <= vaultWeth
      /\ vaultWeth' = vaultWeth - ad.taken
      /\ totalWethSpent' = totalWethSpent + w
      /\ wethDelivered' = wethDelivered
  BY DEF ExecuteAcquisition, AcquisitionVerified, WethCustodyCovers
<1>4. /\ totalStockAcquired' = [totalStockAcquired EXCEPT ![s] = @ + n]
      /\ distributionAllocated' = [distributionAllocated EXCEPT ![s] = @ + d]
      /\ reserveAllocated' = [reserveAllocated EXCEPT ![s] = @ + r]
      /\ vaultStock' = [vaultStock EXCEPT ![s] = @ + n - out.sent]
      /\ reserveStock' = [reserveStock EXCEPT ![s] = @ + out.received]
      /\ distributionReleased' = distributionReleased
  BY DEF ExecuteAcquisition
<1>5. n = d + r
  BY <1>1
<1> HIDE DEF n, d, r
<1>6. StockShape'
  BY <1>4 DEF StockShape, VaultInv, VaultTypeOK
<1>7. ASSUME NEW t \in StockTokens PROVE StockRight(t)'
  <2>1. StockRight(t)
    BY VaultInvByStock
  <2>2. CASE t = s
    <3>1. /\ totalStockAcquired'[t] = totalStockAcquired[t] + n
          /\ distributionAllocated'[t] = distributionAllocated[t] + d
          /\ reserveAllocated'[t] = reserveAllocated[t] + r
          /\ vaultStock'[t] = vaultStock[t] + n - r
          /\ reserveStock'[t] = reserveStock[t] + r
          /\ distributionReleased'[t] = distributionReleased[t]
      BY <1>2, <1>4, <2>2 DEF VaultInv, VaultTypeOK
    <3> QED  BY <1>1, <1>5, <2>1, <3>1 DEF StockRight
  <2>3. CASE t # s
    BY <1>4, <2>1, <2>3 DEF StockRight, VaultInv, VaultTypeOK
  <2> QED  BY <2>2, <2>3
<1>8. /\ vaultWeth' \in Nat /\ totalWethSpent' \in Nat /\ wethDelivered' \in Nat
      /\ vaultWeth' + totalWethSpent' = wethDelivered'
      /\ now' \in Times
  BY <1>3 DEF VaultInv, VaultTypeOK, VaultAccountsBalance, WethAccounted
<1> QED  BY <1>6, <1>7, <1>8, VaultInvFromStock

(* releaseToDistributionCoordinator, whatever the stock token did. *)
LEMMA ReleasePreserves ==
    ASSUME VaultInv, now' = now,
           NEW caller, NEW s \in StockTokens, NEW n \in Nat, NEW out,
           Release(caller, s, n, out)
    PROVE  VaultInv'
<1>1. /\ n <= distributionAllocated[s] - distributionReleased[s]
      /\ out.sent = n /\ n <= vaultStock[s]
      /\ distributionReleased' = [distributionReleased EXCEPT ![s] = @ + n]
      /\ vaultStock' = [vaultStock EXCEPT ![s] = @ - out.sent]
      /\ UNCHANGED <<vaultWeth, reserveStock, totalWethSpent,
                     totalStockAcquired, distributionAllocated,
                     reserveAllocated, wethDelivered>>
  BY DEF Release, Releasable, ExactTransfer
<1>2. StockShape'
  BY <1>1 DEF StockShape, VaultInv, VaultTypeOK
<1>3. ASSUME NEW t \in StockTokens PROVE StockRight(t)'
  <2>1. StockRight(t)
    BY VaultInvByStock
  <2>2. CASE t = s
    <3>1. /\ distributionReleased'[t] = distributionReleased[t] + n
          /\ vaultStock'[t] = vaultStock[t] - n
      BY <1>1, <2>2 DEF VaultInv, VaultTypeOK
    <3> QED  BY <1>1, <2>1, <2>2, <3>1 DEF StockRight
  <2>3. CASE t # s
    BY <1>1, <2>1, <2>3 DEF StockRight, VaultInv, VaultTypeOK
  <2> QED  BY <2>2, <2>3
<1>4. /\ vaultWeth' \in Nat /\ totalWethSpent' \in Nat /\ wethDelivered' \in Nat
      /\ vaultWeth' + totalWethSpent' = wethDelivered'
      /\ now' \in Times
  BY <1>1 DEF VaultInv, VaultTypeOK, VaultAccountsBalance, WethAccounted
<1> QED  BY <1>2, <1>3, <1>4, VaultInvFromStock

(* Anyone sends the vault WETH. *)
LEMMA DeliverPreserves ==
    ASSUME VaultInv, now' = now, DeliverBudget
    PROVE  VaultInv'
<1>1. /\ vaultWeth' = vaultWeth + 1
      /\ wethDelivered' = wethDelivered + 1
      /\ UNCHANGED <<vaultStock, reserveStock, totalWethSpent,
                     totalStockAcquired, distributionAllocated,
                     reserveAllocated, distributionReleased>>
  BY DEF DeliverBudget
<1>2. /\ StockShape'
      /\ \A s \in StockTokens : StockRight(s)'
  BY <1>1, VaultInvByStock DEF StockShape, StockRight
<1>3. /\ vaultWeth' \in Nat /\ totalWethSpent' \in Nat /\ wethDelivered' \in Nat
      /\ vaultWeth' + totalWethSpent' = wethDelivered'
      /\ now' \in Times
  BY <1>1 DEF VaultInv, VaultTypeOK, VaultAccountsBalance, WethAccounted
<1> QED  BY <1>2, <1>3, VaultInvFromStock

(* Anyone sends the vault a stock: custody only grows. *)
LEMMA DonatePreserves ==
    ASSUME VaultInv, now' = now, NEW s \in StockTokens, DonateToVault(s)
    PROVE  VaultInv'
<1>1. /\ vaultStock' = [vaultStock EXCEPT ![s] = @ + 1]
      /\ UNCHANGED <<vaultWeth, reserveStock, totalWethSpent,
                     totalStockAcquired, distributionAllocated,
                     reserveAllocated, distributionReleased, wethDelivered>>
  BY DEF DonateToVault
<1>2. StockShape'
  BY <1>1 DEF StockShape, VaultInv, VaultTypeOK
<1>3. ASSUME NEW t \in StockTokens PROVE StockRight(t)'
  <2>1. StockRight(t)
    BY VaultInvByStock
  <2>2. vaultStock'[t] = vaultStock[t] \/ vaultStock'[t] = vaultStock[t] + 1
    BY <1>1 DEF VaultInv, VaultTypeOK
  <2> QED  BY <1>1, <2>1, <2>2 DEF StockRight
<1>4. /\ vaultWeth' \in Nat /\ totalWethSpent' \in Nat /\ wethDelivered' \in Nat
      /\ vaultWeth' + totalWethSpent' = wethDelivered'
      /\ now' \in Times
  BY <1>1 DEF VaultInv, VaultTypeOK, VaultAccountsBalance, WethAccounted
<1> QED  BY <1>2, <1>3, <1>4, VaultInvFromStock

(* A step of somebody else leaves the books as they are. *)
LEMMA VaultStutters ==
    ASSUME VaultInv, UNCHANGED vaultVars, now' \in Times
    PROVE  VaultInv'
BY DEF VaultInv, VaultTypeOK, VaultAccountsBalance, DistributionInCustody,
       SplitAccountsForAll, WethAccounted, ReleasedWithinAllocated, vaultVars

----------------------------------------------------------------------------
LEMMA VaultStarts ==
    ASSUME VaultInit, now \in Times
    PROVE  VaultInv
BY DEF VaultInit, VaultInv, VaultTypeOK, VaultAccountsBalance,
       DistributionInCustody, SplitAccountsForAll, WethAccounted,
       ReleasedWithinAllocated, SPLIT_DENOMINATOR, DISTRIBUTION_PERCENT

LEMMA VaultNextInv ==
    VaultInv /\ [VaultNext]_<<now, vaultVars>> => VaultInv'
<1> SUFFICES ASSUME VaultInv, [VaultNext]_<<now, vaultVars>>
             PROVE  VaultInv'
  OBVIOUS
<1>1. now \in Times
  BY DEF VaultInv, VaultTypeOK
<1>2. ASSUME NEW caller \in Accounts, NEW s \in StockTokens, NEW w \in WethAmounts,
             NEW min \in StockAmounts, NEW deadline \in Deadlines,
             NEW ad \in AnyAdapterEffect(w),
             NEW out \in Outcomes(ad.delivered - DistributionPart(ad.delivered)),
             ExecuteAcquisition(caller, s, w, min, deadline, ad, out),
             UNCHANGED now
      PROVE  VaultInv'
  <2>1. w \in Nat /\ ad.delivered \in Nat
    BY VaultAssumption DEF AnyAdapterEffect
  <2> QED  BY <1>2, <2>1, ExecutePreserves
<1>3. ASSUME NEW caller \in Accounts, NEW s \in StockTokens, NEW n \in StockAmounts,
             NEW out \in Outcomes(n), Release(caller, s, n, out), UNCHANGED now
      PROVE  VaultInv'
  <2>1. n \in Nat
    BY VaultAssumption
  <2> QED  BY <1>3, <2>1, ReleasePreserves
<1>4. CASE VaultCall /\ UNCHANGED now
  <2>1. CASE DeliverBudget
    BY <1>4, <2>1, DeliverPreserves
  <2>2. ASSUME NEW s \in StockTokens, DonateToVault(s)
        PROVE  VaultInv'
    BY <1>4, <2>2, DonatePreserves
  <2> QED  BY <1>2, <1>3, <1>4, <2>1, <2>2 DEF VaultCall
<1>5. CASE Tick /\ UNCHANGED vaultVars
  <2>1. now' \in Times
    BY <1>1, <1>5, ChainAssumption DEF Tick, Times
  <2> QED  BY <1>5, <2>1, VaultStutters
<1>6. CASE UNCHANGED <<now, vaultVars>>
  BY <1>1, <1>6, VaultStutters
<1> QED  BY <1>4, <1>5, <1>6 DEF VaultNext

(* The vault on its own, with an adapter and tokens that may do anything:  *)
(* the inductive invariant holds.                                          *)
LEMMA VaultInvAlways == VaultSpec => []VaultInv
<1>1. VaultStart => VaultInv
  BY VaultStarts, ChainAssumption DEF VaultStart, Times
<1> QED  BY <1>1, VaultNextInv, PTL DEF VaultSpec

(* StockAcquisitionVault.sol keeps its counters in range: no acquisition   *)
(* or release underflows.                                                  *)
THEOREM VaultBooksTyped == VaultSpec => [](VaultTypeOK /\ ReleasedWithinAllocated)
<1>1. VaultInv => VaultTypeOK /\ ReleasedWithinAllocated
  BY DEF VaultInv
<1> QED  BY <1>1, VaultInvAlways, PTL

(* executeAcquisition and releaseToDistributionCoordinator keep the books  *)
(* equal to the balances: the unreleased distribution stock is in custody, *)
(* every acquired unit is allocated exactly once with the rounding on the  *)
(* reserve's side, and every unit of WETH is spent on stock or still there *)
THEOREM VaultBooksBalance == VaultSpec => []VaultAccountsBalance
<1>1. VaultInv => VaultAccountsBalance
  BY DEF VaultInv
<1> QED  BY <1>1, VaultInvAlways, PTL

----------------------------------------------------------------------------
(* THE COMPOSITION                                                         *)

(* Ids are handed out in order. *)
RecordsInOrder ==
    \A id \in AcquisitionIds :
        acquisitions[id].status = "NONE" <=> id > acquisitionCount

(* A funded acquisition and its cycle name each other, so no cycle has two.*)
CyclesBound ==
    \A id \in AcquisitionIds :
        acquisitions[id].status = "FUNDED" =>
            /\ acquisitions[id].stockToken \in StockTokens
            /\ acquisitions[id].cycleId \in Cycles
            /\ cycleUsed[acquisitions[id].cycleId]
            /\ cycleAcquisitionId[acquisitions[id].cycleId] = id

(* A cycle id the coordinator has not used is free in the manager. *)
UnusedUnpublished == \A c \in Cycles : ~cycleUsed[c] => ~cycles[c].published

(* What waits to be funded is what the vault still has to release. *)
DueReleasable == \A s \in StockTokens : Due(s) = Releasable(s)

(* What the vault has released is what the cycles were funded with. *)
Funded(s) == SumFunctionOnSet([c \in Cycles |-> assetFunding[c][s].funded], Cycles)

ReleasedFunded == \A s \in StockTokens : distributionReleased[s] = Funded(s)

(* The part of the invariant that is about the records *)
RecordsInv ==
    /\ CoordTypeOK
    /\ RecordsInOrder
    /\ CyclesBound
    /\ UnusedUnpublished
    /\ DueReleasable

(* The inductive invariant *)
PipeInv ==
    /\ VaultInv
    /\ AdapterTypeOK
    /\ MgrInv
    /\ RecordsInv
    /\ ReleasedFunded

----------------------------------------------------------------------------
(* What a record adds to Due(s) *)
DueOf(r, s) ==
    IF r.status = "RECORDED" /\ r.stockToken = s THEN r.distributionAmount ELSE 0

LEMMA DueOfType ==
    ASSUME NEW r \in AcquisitionRecord, NEW s
    PROVE  DueOf(r, s) \in Nat
BY DEF DueOf, AcquisitionRecord

LEMMA IdsFinite == IsFiniteSet(AcquisitionIds)
BY CoordinatorAssumption, FS_Interval DEF AcquisitionIds

(* Due, as a sum over the records *)
LEMMA DueSums ==
    ASSUME NEW s
    PROVE  /\ Due(s) = SumFunctionOnSet(
                  [id \in AcquisitionIds |-> DueOf(acquisitions[id], s)],
                  AcquisitionIds)
           /\ Due(s)' = SumFunctionOnSet(
                  [id \in AcquisitionIds |-> DueOf(acquisitions'[id], s)],
                  AcquisitionIds)
<1>1. \A id \in AcquisitionIds :
          (IF id \in Waiting(s) THEN acquisitions[id].distributionAmount ELSE 0)
              = DueOf(acquisitions[id], s)
  BY DEF Waiting, DueOf
<1>2. [id \in AcquisitionIds |->
          IF id \in Waiting(s) THEN acquisitions[id].distributionAmount ELSE 0]
          = [id \in AcquisitionIds |-> DueOf(acquisitions[id], s)]
  BY <1>1
<1>3. \A id \in AcquisitionIds :
          (IF id \in Waiting(s)' THEN acquisitions'[id].distributionAmount ELSE 0)
              = DueOf(acquisitions'[id], s)
  BY DEF Waiting, DueOf
<1>4. [id \in AcquisitionIds |->
          IF id \in Waiting(s)' THEN acquisitions'[id].distributionAmount ELSE 0]
          = [id \in AcquisitionIds |-> DueOf(acquisitions'[id], s)]
  BY <1>3
<1> QED  BY <1>2, <1>4 DEF Due

(* When one record changes, what is due changes by as much. *)
LEMMA OneRecordChanges ==
    ASSUME NEW s, NEW i \in AcquisitionIds, NEW r \in AcquisitionRecord,
           acquisitions \in [AcquisitionIds -> AcquisitionRecord],
           acquisitions' = [acquisitions EXCEPT ![i] = r]
    PROVE  Due(s)' = Due(s) + (DueOf(r, s) - DueOf(acquisitions[i], s))
<1> DEFINE f == [id \in AcquisitionIds |-> DueOf(acquisitions[id], s)]
           g == [id \in AcquisitionIds |-> DueOf(acquisitions'[id], s)]
<1>1. /\ \A id \in AcquisitionIds : acquisitions'[id] \in AcquisitionRecord
      /\ \A id \in AcquisitionIds : acquisitions[id] \in AcquisitionRecord
      /\ acquisitions'[i] = r
      /\ \A id \in AcquisitionIds : i # id => acquisitions'[id] = acquisitions[id]
  OBVIOUS
<1>2. \A id \in AcquisitionIds : f[id] \in Int /\ g[id] \in Int
  BY <1>1, DueOfType
<1>3. \A id \in AcquisitionIds : i # id => g[id] = f[id]
  BY <1>1
<1>4. f[i] = DueOf(acquisitions[i], s) /\ g[i] = DueOf(r, s)
  BY <1>1
<1>5. /\ Due(s) = SumFunctionOnSet(f, AcquisitionIds)
      /\ Due(s)' = SumFunctionOnSet(g, AcquisitionIds)
  BY DueSums
<1> HIDE DEF f, g
<1>6. SumFunctionOnSet(g, AcquisitionIds)
          = SumFunctionOnSet(f, AcquisitionIds) + (g[i] - f[i])
  BY <1>2, <1>3, IdsFinite, SumUpdate
<1> QED  BY <1>4, <1>5, <1>6

(* A step that leaves the records, the cycles and the allocation alone *)
QuietStep ==
    /\ UNCHANGED <<acquisitions, acquisitionCount, cycleUsed,
                   cycleAcquisitionId, cycles, distributionAllocated,
                   distributionReleased>>
    /\ \A c \in Cycles, a \in StockTokens :
           assetFunding'[c][a].funded = assetFunding[c][a].funded

LEMMA QuietKeeps ==
    ASSUME PipeInv, QuietStep, VaultInv', AdapterTypeOK', MgrInv',
           coordStock' \in [StockTokens -> Nat]
    PROVE  PipeInv'
<1>1. CoordTypeOK' /\ RecordsInOrder' /\ CyclesBound' /\ UnusedUnpublished'
  BY DEF PipeInv, RecordsInv, CoordTypeOK, RecordsInOrder, CyclesBound,
         UnusedUnpublished, QuietStep
<1>2. DueReleasable'
  BY DEF PipeInv, RecordsInv, DueReleasable, Due, Waiting, Releasable, QuietStep
<1>3. ReleasedFunded'
  <2> SUFFICES ASSUME NEW s \in StockTokens
               PROVE  distributionReleased'[s] = Funded(s)'
    BY DEF ReleasedFunded
  <2>1. [c \in Cycles |-> assetFunding'[c][s].funded]
            = [c \in Cycles |-> assetFunding[c][s].funded]
    BY DEF QuietStep
  <2>2. distributionReleased'[s] = distributionReleased[s]
    BY DEF QuietStep
  <2> QED  BY <2>1, <2>2 DEF PipeInv, ReleasedFunded, Funded
<1> QED  BY <1>1, <1>2, <1>3 DEF PipeInv, RecordsInv

----------------------------------------------------------------------------
(* What a transfer of a natural amount debits and credits *)
LEMMA OutcomeTypes ==
    ASSUME NEW n \in Nat, NEW out \in Outcomes(n)
    PROVE  out.sent \in Nat /\ out.received \in Nat
<1>1. CASE \E f \in Fees : f <= n /\ out = [sent |-> n, received |-> n - f]
  BY <1>1, ChainAssumption
<1>2. CASE \E f \in Fees : out = [sent |-> n + f, received |-> n]
  BY <1>2, ChainAssumption
<1> QED  BY <1>1, <1>2 DEF Outcomes

(* executeAndRecordAcquisition writes the next record, of the allocation   *)
(* the vault made for it.                                                  *)
RecordedNow(s, r) ==
    /\ r \in AcquisitionRecord
    /\ r.status = "RECORDED" /\ r.stockToken = s
    /\ r.distributionAmount = distributionAllocated'[s] - distributionAllocated[s]
    /\ acquisitionCount + 1 \in AcquisitionIds
    /\ acquisitions' = [acquisitions EXCEPT ![acquisitionCount + 1] = r]
    /\ acquisitionCount' = acquisitionCount + 1
    /\ \A t \in StockTokens :
           t # s => distributionAllocated'[t] = distributionAllocated[t]
    /\ UNCHANGED <<cycleUsed, cycleAcquisitionId, coordStock,
                   distributionReleased>>

LEMMA AcquireRecords ==
    ASSUME PipeInv, acquisitionCount < MaxAcquisitions, UNCHANGED now,
           NEW caller, NEW s \in StockTokens, NEW w \in WethAmounts, NEW min,
           NEW deadline, NEW ex, NEW swap \in Swaps(w),
           NEW fwd \in Outcomes(swap.toAdapter), NEW out,
           ExecuteAndRecordAcquisition(caller, s, w, min, deadline, ex, swap,
                                       fwd, out)
    PROVE  VaultInv' /\ AdapterTypeOK' /\ RecordedNow(s, DerivedRecord(s))
<1> DEFINE ad == AdapterEffectOf(w, swap, fwd)
           n == ad.delivered
           d == DistributionPart(n)
<1>1. /\ w \in Nat /\ swap.used \in Nat /\ swap.toAdapter \in Nat
      /\ swap.toVault \in Nat
  <2>1. w \in Nat /\ \A x \in StockAmounts : x \in Nat
    BY VaultAssumption
  <2>2. /\ swap.used \in 0 .. w /\ swap.toAdapter \in StockAmounts
        /\ swap.toVault \in {0, 1}
    BY Zenon DEF Swaps
  <2>3. w \in Nat /\ swap.toAdapter \in Nat /\ swap.toVault \in Nat
    BY <2>1, <2>2
  <2>4. \A u \in 0 .. w : u \in Nat
    BY <2>3
  <2> QED  BY <2>2, <2>3, <2>4
<1>2. n \in Nat
  <2>1. fwd.received \in Nat
    BY <1>1, OutcomeTypes
  <2> QED  BY <1>1, <2>1 DEF AdapterEffectOf
<1>3. ExecuteAcquisition(acquisitionExecutor, s, w, min, deadline, ad, out)
  BY DEF ExecuteAndRecordAcquisition
<1>4. VaultInv'
  <2> HIDE DEF ad
  <2> QED  BY <1>1, <1>2, <1>3, ExecutePreserves DEF PipeInv
<1>5. AdapterTypeOK'
  <2>1. /\ AcquireStockOk(s, w, min, deadline, ex, swap, fwd)
        /\ adapterWeth' = adapterWeth + (w - swap.used)
        /\ adapterStock' = [adapterStock EXCEPT ![s] =
                                @ + (swap.toAdapter - fwd.sent)]
        /\ currentRouter' = currentRouter
    BY DEF ExecuteAndRecordAcquisition, AcquireStock, AdapterEffectOf
  <2>2. w - swap.used = 0 /\ swap.toAdapter - fwd.sent = 0
    BY <1>1, <2>1 DEF AcquireStockOk
  <2>3. adapterWeth \in Nat /\ adapterStock \in [StockTokens -> Nat]
    BY DEF PipeInv, AdapterTypeOK
  <2>4. adapterWeth' \in Nat
    BY <2>1, <2>2, <2>3
  <2>5. adapterStock' \in [StockTokens -> Nat]
    BY <2>1, <2>2, <2>3
  <2> QED  BY <2>1, <2>4, <2>5 DEF PipeInv, AdapterTypeOK
<1>6. d \in Nat /\ d <= n
  BY <1>2, DistributionPartFloor
<1>7. /\ totalWethSpent' = totalWethSpent + w
      /\ totalStockAcquired' = [totalStockAcquired EXCEPT ![s] = @ + n]
      /\ distributionAllocated' = [distributionAllocated EXCEPT ![s] = @ + d]
      /\ reserveAllocated' = [reserveAllocated EXCEPT ![s] = @ + (n - d)]
      /\ distributionReleased' = distributionReleased
  BY <1>3 DEF ExecuteAcquisition
<1> HIDE DEF n, d
<1>8. /\ totalWethSpent \in Nat
      /\ totalStockAcquired \in [StockTokens -> Nat]
      /\ distributionAllocated \in [StockTokens -> Nat]
      /\ reserveAllocated \in [StockTokens -> Nat]
  BY DEF PipeInv, VaultInv, VaultTypeOK
<1>9. /\ totalWethSpent' - totalWethSpent = w
      /\ totalStockAcquired'[s] - totalStockAcquired[s] = n
      /\ distributionAllocated'[s] - distributionAllocated[s] = d
      /\ reserveAllocated'[s] - reserveAllocated[s] = n - d
  BY <1>1, <1>2, <1>6, <1>7, <1>8
<1>10. DerivedRecord(s) =
           [status |-> "RECORDED", stockToken |-> s, wethSpent |-> w,
            acquiredStock |-> n, distributionAmount |-> d,
            reserveAmount |-> n - d, cycleId |-> 0]
  BY <1>9 DEF DerivedRecord
<1>11. DerivedRecord(s) \in AcquisitionRecord
  <2>1. n - d \in Nat
    BY <1>2, <1>6
  <2> QED  BY <1>1, <1>2, <1>6, <1>10, <2>1 DEF AcquisitionRecord, AcquisitionStatus, Assets
<1>12. acquisitionCount + 1 \in AcquisitionIds
  BY CoordinatorAssumption DEF PipeInv, RecordsInv, CoordTypeOK, AcquisitionIds
<1>13. /\ acquisitions' = [acquisitions EXCEPT ![acquisitionCount + 1] =
                               DerivedRecord(s)]
       /\ acquisitionCount' = acquisitionCount + 1
       /\ UNCHANGED <<cycleUsed, cycleAcquisitionId, coordStock>>
  BY DEF ExecuteAndRecordAcquisition
<1>14. \A t \in StockTokens :
           t # s => distributionAllocated'[t] = distributionAllocated[t]
  BY <1>7, <1>8
<1> QED
  BY <1>4, <1>5, <1>7, <1>9, <1>10, <1>11, <1>12, <1>13, <1>14 DEF RecordedNow

(* A new record keeps the invariant: its amount is due and releasable. *)
LEMMA RecordKeeps ==
    ASSUME PipeInv, VaultInv', AdapterTypeOK', NEW s \in StockTokens, NEW r,
           RecordedNow(s, r), UNCHANGED <<now, mgrVars>>
    PROVE  PipeInv'
<1> DEFINE i == acquisitionCount + 1
<1>1. /\ acquisitions \in [AcquisitionIds -> AcquisitionRecord]
      /\ acquisitionCount \in Nat
      /\ r \in AcquisitionRecord /\ r.status = "RECORDED" /\ r.stockToken = s
      /\ i \in AcquisitionIds
      /\ acquisitions' = [acquisitions EXCEPT ![i] = r]
      /\ acquisitionCount' = i
      /\ UNCHANGED <<cycleUsed, cycleAcquisitionId, coordStock,
                     distributionReleased>>
  BY DEF RecordedNow, PipeInv, RecordsInv, CoordTypeOK
<1>2. acquisitions[i].status = "NONE"
  BY <1>1 DEF PipeInv, RecordsInv, RecordsInOrder
<1>3. \A id \in AcquisitionIds :
          acquisitions'[id] = IF id = i THEN r ELSE acquisitions[id]
  BY <1>1
<1>4. CoordTypeOK'
  <2>1. acquisitions' \in [AcquisitionIds -> AcquisitionRecord]
    BY <1>1
  <2>2. acquisitionCount' \in 0 .. MaxAcquisitions
    BY <1>1 DEF AcquisitionIds
  <2> QED  BY <1>1, <2>1, <2>2 DEF PipeInv, RecordsInv, CoordTypeOK
<1>5. RecordsInOrder'
  <2> SUFFICES ASSUME NEW id \in AcquisitionIds
               PROVE  acquisitions'[id].status = "NONE" <=> id > i
    BY <1>1 DEF RecordsInOrder
  <2>1. id \in Nat
    BY DEF AcquisitionIds
  <2>2. acquisitions[id].status = "NONE" <=> id > acquisitionCount
    BY DEF PipeInv, RecordsInv, RecordsInOrder
  <2> QED  BY <1>1, <1>3, <2>1, <2>2
<1>6. CyclesBound' /\ UnusedUnpublished'
  BY <1>1, <1>3
  DEF PipeInv, RecordsInv, CyclesBound, UnusedUnpublished, mgrVars
<1>7. DueReleasable'
  <2> SUFFICES ASSUME NEW t \in StockTokens
               PROVE  Due(t)' = distributionAllocated'[t] - distributionReleased'[t]
    BY DEF DueReleasable, Releasable
  <2>1. Due(t)' = Due(t) + (DueOf(r, t) - DueOf(acquisitions[i], t))
    BY <1>1, OneRecordChanges
  <2>2. DueOf(acquisitions[i], t) = 0
    BY <1>2 DEF DueOf
  <2>3. /\ distributionAllocated[t] \in Nat /\ distributionAllocated'[t] \in Nat
        /\ distributionReleased[t] \in Nat
    BY DEF PipeInv, VaultInv, VaultTypeOK
  <2>4. Due(t) = distributionAllocated[t] - distributionReleased[t]
    BY DEF PipeInv, RecordsInv, DueReleasable, Releasable
  <2>5. DueOf(r, t) = distributionAllocated'[t] - distributionAllocated[t]
    <3>1. CASE t = s
      BY <3>1 DEF RecordedNow, DueOf
    <3>2. CASE t # s
      <4>1. DueOf(r, t) = 0
        BY <1>1, <3>2 DEF DueOf
      <4>2. distributionAllocated'[t] = distributionAllocated[t]
        BY <3>2 DEF RecordedNow
      <4> QED  BY <2>3, <4>1, <4>2
    <3> QED  BY <3>1, <3>2
  <2>6. distributionReleased'[t] = distributionReleased[t]
    BY <1>1
  <2> QED  BY <2>1, <2>2, <2>3, <2>4, <2>5, <2>6
<1>8. ReleasedFunded'
  BY <1>1 DEF PipeInv, ReleasedFunded, Funded, mgrVars
<1>9. MgrInv'
  <2>1. [MgrNext]_<<now, mgrVars>>
    BY DEF mgrVars
  <2> QED  BY <2>1, MgrNextInv DEF PipeInv
<1> QED  BY <1>4, <1>5, <1>6, <1>7, <1>8, <1>9 DEF PipeInv, RecordsInv

----------------------------------------------------------------------------
(* publishCycle with one asset: its books are opened, no other's. *)
OpenedOnly(c, s, n) ==
    /\ assetFunding'[c][s] =
           [assetFunding[c][s] EXCEPT !.registered = TRUE, !.funded = n]
    /\ \A a \in StockTokens : a # s => assetFunding'[c][a] = assetFunding[c][a]
    /\ \A d \in Cycles : d # c =>
           assetFunding'[d] = assetFunding[d] /\ cycles'[d] = cycles[d]

LEMMA PublishOne ==
    ASSUME MgrInv, NEW c \in Cycles, NEW root, NEW hashes, NEW start, NEW deadline,
           NEW e, e.asset \in StockTokens, e.amount \in Nat,
           PublishCycle(c, root, hashes, start, deadline, <<e>>)
    PROVE  ~cycles[c].published /\ OpenedOnly(c, e.asset, e.amount)
<1> DEFINE s == e.asset
           n == e.amount
           funding == <<e>>
           funded(a) == \E i \in DOMAIN funding : funding[i].asset = a
           entry(a) == funding[CHOOSE i \in DOMAIN funding : funding[i].asset = a]
           books == [a \in StockTokens |->
                        IF funded(a)
                        THEN [assetFunding[c][a] EXCEPT !.registered = TRUE,
                                  !.funded = entry(a).amount]
                        ELSE assetFunding[c][a]]
<1>1. /\ ~cycles[c].published
      /\ assetFunding' = [assetFunding EXCEPT ![c] = books]
      /\ \A d \in Cycles : d # c => cycles'[d] = cycles[d]
  BY DEF PublishCycle, MgrInv, MgrTypeOK
<1>2. DOMAIN funding = {1} /\ funding[1] = e
  OBVIOUS
<1>3. \A a : funded(a) <=> a = s
  BY <1>2
<1>4. entry(s).amount = n
  <2> DEFINE k == CHOOSE i \in DOMAIN funding : funding[i].asset = s
  <2>1. k \in DOMAIN funding
    BY <1>2
  <2>2. k = 1
    BY <1>2, <2>1
  <2> QED  BY <1>2, <2>2
<1>5. /\ books[s] = [assetFunding[c][s] EXCEPT !.registered = TRUE, !.funded = n]
      /\ \A a \in StockTokens : a # s => books[a] = assetFunding[c][a]
  <2> HIDE DEF funded, entry
  <2> QED  BY <1>3, <1>4
<1> HIDE DEF books
<1>6. /\ assetFunding'[c] = books
      /\ \A d \in Cycles : d # c => assetFunding'[d] = assetFunding[d]
  BY <1>1 DEF MgrInv, MgrTypeOK
<1> QED  BY <1>1, <1>5, <1>6 DEF OpenedOnly

(* fundRecordedAcquisition takes the record's whole amount out of the      *)
(* vault's allocation and opens one cycle with exactly as much.            *)
FundedNowBy(id, c, s, n) ==
    /\ id \in AcquisitionIds /\ c \in Cycles
    /\ s \in StockTokens /\ n \in Nat /\ n # 0
    /\ acquisitions[id].status = "RECORDED" /\ ~cycleUsed[c]
    /\ acquisitions[id].stockToken = s
    /\ acquisitions[id].distributionAmount = n
    /\ acquisitions' = [acquisitions EXCEPT ![id] =
           [acquisitions[id] EXCEPT !.status = "FUNDED", !.cycleId = c]]
    /\ cycleUsed' = [cycleUsed EXCEPT ![c] = TRUE]
    /\ cycleAcquisitionId' = [cycleAcquisitionId EXCEPT ![c] = id]
    /\ distributionReleased' = [distributionReleased EXCEPT ![s] = @ + n]
    /\ OpenedOnly(c, s, n)
    /\ UNCHANGED <<acquisitionCount, distributionAllocated, coordStock>>

LEMMA FundBinds ==
    ASSUME PipeInv, UNCHANGED now,
           NEW caller, NEW id \in 1 .. acquisitionCount,
           NEW root \in Roots \cup {ZeroRoot}, NEW hashes, NEW win \in Windows,
           NEW c \in Cycles, NEW received \in Nat,
           NEW rel, 
           FundRecordedAcquisition(caller, id, root, hashes, win, c, rel,
                                   received)
    PROVE  /\ VaultInv' /\ MgrInv'
           /\ FundedNowBy(id, c, acquisitions[id].stockToken,
                          acquisitions[id].distributionAmount)
<1> DEFINE s == acquisitions[id].stockToken
           n == acquisitions[id].distributionAmount
           e == [asset |-> s, amount |-> n, received |-> received]
<1>1. /\ acquisitions \in [AcquisitionIds -> AcquisitionRecord]
      /\ cycleUsed \in [Cycles -> BOOLEAN]
      /\ id \in AcquisitionIds
  <2>1. acquisitionCount \in 0 .. MaxAcquisitions
    BY DEF PipeInv, RecordsInv, CoordTypeOK
  <2> QED
    BY <2>1, CoordinatorAssumption DEF PipeInv, RecordsInv, CoordTypeOK, AcquisitionIds
<1>2. n \in Nat /\ s \in Assets
  BY <1>1 DEF AcquisitionRecord
<1>3. /\ acquisitions[id].status = "RECORDED" /\ ~cycleUsed[c]
      /\ acquisitions' = [acquisitions EXCEPT ![id] =
             [acquisitions[id] EXCEPT !.status = "FUNDED", !.cycleId = c]]
      /\ cycleUsed' = [cycleUsed EXCEPT ![c] = TRUE]
      /\ cycleAcquisitionId' = [cycleAcquisitionId EXCEPT ![c] = id]
      /\ acquisitionCount' = acquisitionCount
  BY DEF FundRecordedAcquisition, MayFund
<1>4. /\ Release(acquisitionExecutor, s, n, rel)
      /\ PublishCycle(c, root, hashes, win[1], win[2], <<e>>)
      /\ coordStock' = [coordStock EXCEPT ![s] = @ + rel.received - n]
      /\ ReleaseAndFundExact(s, n, rel)
  BY DEF FundRecordedAcquisition
<1>5. /\ s \in StockTokens /\ n # 0 /\ rel.received = n
      /\ distributionReleased' = [distributionReleased EXCEPT ![s] = @ + n]
      /\ distributionAllocated' = distributionAllocated
  BY <1>4, VaultAssumption DEF Release, ExactTransfer
<1> HIDE DEF s, n
<1>6. VaultInv'
  BY <1>2, <1>4, <1>5, ReleasePreserves DEF PipeInv
<1>7. coordStock' = coordStock
  <2>1. coordStock \in [StockTokens -> Nat]
    BY DEF PipeInv, RecordsInv, CoordTypeOK
  <2>2. coordStock[s] + rel.received - n = coordStock[s]
    BY <1>2, <1>5, <2>1
  <2> QED  BY <1>4, <2>1, <2>2
<1>8. MgrInv'
  <2>1. win[1] \in Times /\ win[2] \in Times
    BY ChainAssumption, ClaimAssumption DEF Times
  <2>2. <<e>> \in AnyFunding
    BY <1>2 DEF AnyFunding
  <2>3. MgrTypeOK
    BY DEF PipeInv, MgrInv
  <2> HIDE DEF e
  <2>4. CycleStep(c)
    BY <1>4, <2>1, <2>2, <2>3, PublishStep
  <2> QED  BY <2>4, CyclePreserves DEF PipeInv
<1>9. OpenedOnly(c, s, n)
  <2>1. MgrInv
    BY DEF PipeInv
  <2>2. e.asset = s /\ e.amount = n
    OBVIOUS
  <2> HIDE DEF e
  <2>3. OpenedOnly(c, e.asset, e.amount)
    BY <1>2, <1>4, <1>5, <2>1, <2>2, PublishOne
  <2> QED  BY <2>2, <2>3
<1>10. acquisitions[id].stockToken = s /\ acquisitions[id].distributionAmount = n
  BY DEF s, n
<1>11. FundedNowBy(id, c, s, n)
  BY <1>1, <1>2, <1>3, <1>5, <1>7, <1>9, <1>10 DEF FundedNowBy
<1> QED  BY <1>6, <1>8, <1>10, <1>11

(* A cycle id that is unused has empty books in the manager. *)
LEMMA UnusedIsEmpty ==
    ASSUME PipeInv, NEW c \in Cycles, ~cycleUsed[c], NEW a \in StockTokens
    PROVE  /\ ~cycles[c].published /\ ~assetFunding[c][a].registered
           /\ assetFunding[c][a].funded = 0
           /\ assetFunding[c][a].claimed = 0
           /\ assetFunding[c][a].recovered = 0
           /\ ~assetFunding[c][a].recoveryClosed
<1>1. ~cycles[c].published
  BY DEF PipeInv, RecordsInv, UnusedUnpublished
<1>2. BooksFollowCycle
  BY DEF PipeInv, MgrInv
<1> QED  BY <1>1, <1>2 DEF BooksFollowCycle

(* Binding a record to its cycle keeps the invariant. *)
LEMMA FundKeeps ==
    ASSUME PipeInv, VaultInv', MgrInv', UNCHANGED adapterVars,
           NEW id, NEW c, NEW s, NEW n, FundedNowBy(id, c, s, n)
    PROVE  PipeInv'
<1> DEFINE r == acquisitions[id]
           q == [acquisitions[id] EXCEPT !.status = "FUNDED", !.cycleId = c]
<1>1. /\ id \in AcquisitionIds /\ c \in Cycles
      /\ s \in StockTokens /\ n \in Nat /\ n # 0
      /\ r.status = "RECORDED" /\ ~cycleUsed[c]
      /\ r.stockToken = s /\ r.distributionAmount = n
      /\ acquisitions' = [acquisitions EXCEPT ![id] = q]
      /\ cycleUsed' = [cycleUsed EXCEPT ![c] = TRUE]
      /\ cycleAcquisitionId' = [cycleAcquisitionId EXCEPT ![c] = id]
      /\ distributionReleased' = [distributionReleased EXCEPT ![s] = @ + n]
      /\ OpenedOnly(c, s, n)
      /\ UNCHANGED <<acquisitionCount, distributionAllocated, coordStock>>
  BY DEF FundedNowBy
<1>2. CoordTypeOK
  BY DEF PipeInv, RecordsInv
<1>3. /\ q \in AcquisitionRecord
      /\ q.status = "FUNDED" /\ q.cycleId = c /\ q.stockToken = s
      /\ \A t : DueOf(q, t) = 0
  <2>1. r \in AcquisitionRecord
    BY <1>1, <1>2 DEF CoordTypeOK
  <2> HIDE DEF r
  <2> QED  BY <1>1, <2>1 DEF r, AcquisitionRecord, AcquisitionStatus, DueOf
<1> HIDE DEF q
<1>4. \A j \in AcquisitionIds :
          acquisitions'[j] = IF j = id THEN q ELSE acquisitions[j]
  BY <1>1, <1>2 DEF CoordTypeOK
<1>5. CoordTypeOK'
  <2>1. acquisitions' \in [AcquisitionIds -> AcquisitionRecord]
    BY <1>1, <1>2, <1>3 DEF CoordTypeOK
  <2>2. cycleUsed' \in [Cycles -> BOOLEAN]
    BY <1>1, <1>2 DEF CoordTypeOK
  <2>3. cycleAcquisitionId' \in [Cycles -> 0 .. MaxAcquisitions]
    BY <1>1, <1>2, CoordinatorAssumption DEF CoordTypeOK, AcquisitionIds
  <2> QED  BY <1>1, <1>2, <2>1, <2>2, <2>3 DEF CoordTypeOK
<1>6. RecordsInOrder'
  BY <1>1, <1>3, <1>4 DEF PipeInv, RecordsInv, RecordsInOrder
<1>7. CyclesBound'
  <2> SUFFICES ASSUME NEW j \in AcquisitionIds,
                      acquisitions'[j].status = "FUNDED"
               PROVE  /\ acquisitions'[j].stockToken \in StockTokens
                      /\ acquisitions'[j].cycleId \in Cycles
                      /\ cycleUsed'[acquisitions'[j].cycleId]
                      /\ cycleAcquisitionId'[acquisitions'[j].cycleId] = j
    BY DEF CyclesBound
  <2>1. CASE j = id
    BY <1>1, <1>2, <1>3, <1>4, <2>1 DEF CoordTypeOK
  <2>2. CASE j # id
    <3>1. acquisitions'[j] = acquisitions[j]
      BY <1>4, <2>2
    <3>2. /\ acquisitions[j].stockToken \in StockTokens
          /\ acquisitions[j].cycleId \in Cycles
          /\ cycleUsed[acquisitions[j].cycleId]
          /\ cycleAcquisitionId[acquisitions[j].cycleId] = j
      BY <3>1 DEF PipeInv, RecordsInv, CyclesBound
    <3>3. acquisitions[j].cycleId # c
      BY <1>1, <3>2
    <3> QED  BY <1>1, <1>2, <3>1, <3>2, <3>3 DEF CoordTypeOK
  <2> QED  BY <2>1, <2>2
<1>8. UnusedUnpublished'
  BY <1>1, <1>2
  DEF PipeInv, RecordsInv, UnusedUnpublished, CoordTypeOK, OpenedOnly
<1>9. /\ distributionReleased \in [StockTokens -> Nat]
      /\ distributionAllocated \in [StockTokens -> Nat]
  BY DEF PipeInv, VaultInv, VaultTypeOK
<1>10. DueReleasable'
  <2> SUFFICES ASSUME NEW t \in StockTokens
               PROVE  Due(t)' = distributionAllocated'[t] - distributionReleased'[t]
    BY DEF DueReleasable, Releasable
  <2>1. Due(t)' = Due(t) + (DueOf(q, t) - DueOf(r, t))
    BY <1>1, <1>2, <1>3, OneRecordChanges DEF CoordTypeOK
  <2>2. DueOf(q, t) = 0 /\ DueOf(r, t) = IF t = s THEN n ELSE 0
    BY <1>1, <1>3 DEF DueOf
  <2>3. Due(t) = distributionAllocated[t] - distributionReleased[t]
    BY DEF PipeInv, RecordsInv, DueReleasable, Releasable
  <2>4. /\ distributionAllocated'[t] = distributionAllocated[t]
        /\ distributionReleased'[t] =
               IF t = s THEN distributionReleased[t] + n ELSE distributionReleased[t]
    BY <1>1, <1>9
  <2>5. distributionAllocated[t] \in Nat /\ distributionReleased[t] \in Nat
    BY <1>9
  <2> HIDE DEF r
  <2> QED  BY <1>1, <2>1, <2>2, <2>3, <2>4, <2>5
<1>11. ReleasedFunded'
  <2> SUFFICES ASSUME NEW t \in StockTokens
               PROVE  distributionReleased'[t] = Funded(t)'
    BY DEF ReleasedFunded
  <2> DEFINE f == [d \in Cycles |-> assetFunding[d][t].funded]
             g == [d \in Cycles |-> assetFunding'[d][t].funded]
  <2>1. \A d \in Cycles : /\ assetFunding[d][t] \in AssetFunding
                          /\ assetFunding'[d][t] \in AssetFunding
    BY DEF PipeInv, MgrInv, MgrTypeOK
  <2>2. \A d \in Cycles : f[d] \in Int /\ g[d] \in Int
    BY <2>1 DEF AssetFunding
  <2>3. \A d \in Cycles : c # d => g[d] = f[d]
    BY <1>1 DEF OpenedOnly
  <2>4. f[c] = 0
    BY <1>1, UnusedIsEmpty
  <2>5. g[c] = IF t = s THEN n ELSE 0
    <3>1. CASE t = s
      BY <1>1, <2>1, <3>1 DEF OpenedOnly, AssetFunding
    <3>2. CASE t # s
      <4>1. assetFunding'[c][t] = assetFunding[c][t]
        BY <1>1, <3>2 DEF OpenedOnly
      <4> QED  BY <1>1, <2>4, <3>2, <4>1
    <3> QED  BY <3>1, <3>2
  <2>6. Funded(t) = SumFunctionOnSet(f, Cycles) /\ Funded(t)' = SumFunctionOnSet(g, Cycles)
    BY DEF Funded
  <2>7. IsFiniteSet(Cycles)
    BY ClaimAssumption
  <2> HIDE DEF f, g
  <2>8. SumFunctionOnSet(g, Cycles) = SumFunctionOnSet(f, Cycles) + (g[c] - f[c])
    BY <1>1, <2>2, <2>3, <2>7, SumUpdate
  <2>9. distributionReleased[t] = Funded(t)
    BY DEF PipeInv, ReleasedFunded
  <2>10. /\ distributionReleased[t] \in Nat
         /\ distributionReleased'[t] =
                IF t = s THEN distributionReleased[t] + n ELSE distributionReleased[t]
    BY <1>1, <1>9
  <2> QED  BY <1>1, <2>4, <2>5, <2>6, <2>8, <2>9, <2>10
<1>12. AdapterTypeOK'
  BY DEF PipeInv, AdapterTypeOK, adapterVars
<1> QED
  BY <1>5, <1>6, <1>7, <1>8, <1>10, <1>11, <1>12 DEF PipeInv, RecordsInv

----------------------------------------------------------------------------
(* claim, claimBatch and recoverExpired make entries in one cycle, and     *)
(* open none.                                                              *)
LEMMA ClaimSteps ==
    ASSUME MgrTypeOK, ClaimOrRecover, UNCHANGED now
    PROVE  cycles' = cycles /\ \E c \in Cycles : CycleStep(c)
<1>1. cycles' = cycles
  <2>1. \A c, w, as, amount : PayClaims(c, w, as, amount) => cycles' = cycles
    BY DEF PayClaims
  <2>2. \A c, a : RecoverExpired(c, a) => cycles' = cycles
    BY DEF RecoverExpired
  <2>3. \A c, w, a, n : Claim(c, w, a, n) => cycles' = cycles
    BY <2>1 DEF Claim
  <2>4. \A c, w, as, amount : ClaimBatch(c, w, as, amount) => cycles' = cycles
    BY <2>1 DEF ClaimBatch
  <2> QED  BY <2>2, <2>3, <2>4, Zenon DEF ClaimOrRecover
<1>2. ASSUME NEW c \in Cycles, NEW w \in Claimants, NEW a \in StockTokens,
             NEW n \in Amounts, Claim(c, w, a, n)
      PROVE  CycleStep(c)
  BY <1>2, PayStep, ClaimAssumption DEF Claim
<1>3. ASSUME NEW c \in Cycles, NEW w \in Claimants,
             NEW as \in SUBSET StockTokens, NEW amount \in [as -> Amounts],
             ClaimBatch(c, w, as, amount)
      PROVE  CycleStep(c)
  BY <1>3, PayStep, ClaimAssumption DEF ClaimBatch
<1>4. ASSUME NEW c \in Cycles, NEW a \in StockTokens, RecoverExpired(c, a)
      PROVE  CycleStep(c)
  BY <1>4, RecoverStep
<1> QED  BY <1>1, <1>2, <1>3, <1>4 DEF ClaimOrRecover

(* Such an entry changes no funding. *)
LEMMA FundingStays ==
    ASSUME MgrTypeOK, cycles' = cycles, NEW c \in Cycles, CycleStep(c),
           NEW d \in Cycles, NEW a \in StockTokens
    PROVE  assetFunding'[d][a].funded = assetFunding[d][a].funded
<1>1. CASE d # c
  BY <1>1 DEF CycleStep
<1>2. CASE d = c
  <2> DEFINE r == assetFunding[c][a]
  <2>1. r \in AssetFunding
    BY DEF MgrTypeOK
  <2>2. BookEntry(c, a)
    BY DEF CycleStep
  <2> HIDE DEF r
  <2>3. CASE Kept(c, a)
    BY <1>2, <2>3 DEF Kept
  <2>4. CASE FundedNow(c, a)
    BY <2>4 DEF FundedNow
  <2>5. CASE PaidNow(c, a)
    <3>1. PICK n : assetFunding'[c][a] = [r EXCEPT !.claimed = @ + n]
      BY <2>5 DEF PaidNow, r
    <3> QED  BY <1>2, <2>1, <3>1 DEF AssetFunding, r
  <2>6. CASE SweptNow(c, a)
    <3>1. assetFunding'[c][a] = [r EXCEPT !.recovered = @ + Remaining(c, a),
                                          !.recoveryClosed = TRUE]
      BY <2>6 DEF SweptNow, r
    <3> QED  BY <1>2, <2>1, <3>1 DEF AssetFunding, r
  <2> QED  BY <2>2, <2>3, <2>4, <2>5, <2>6 DEF BookEntry
<1> QED  BY <1>1, <1>2

(* What holders, strangers, donors, the registry and the clock do *)
LEMMA ClaimKeeps ==
    ASSUME PipeInv, ClaimOrRecover,
           UNCHANGED <<now, vaultVars, adapterVars, coordVars>>
    PROVE  PipeInv'
<1>1. MgrTypeOK
  BY DEF PipeInv, MgrInv
<1>2. PICK c \in Cycles : cycles' = cycles /\ CycleStep(c)
  BY <1>1, ClaimSteps
<1>3. MgrInv'
  BY <1>2, CyclePreserves DEF PipeInv
<1>4. VaultInv'
  <2>1. now' \in Times
    BY DEF PipeInv, VaultInv, VaultTypeOK
  <2> QED  BY <2>1, VaultStutters DEF PipeInv
<1>5. AdapterTypeOK' /\ coordStock' \in [StockTokens -> Nat]
  BY DEF PipeInv, AdapterTypeOK, adapterVars, RecordsInv, CoordTypeOK, coordVars
<1>6. QuietStep
  <2>1. \A d \in Cycles, a \in StockTokens :
            assetFunding'[d][a].funded = assetFunding[d][a].funded
    BY <1>1, <1>2, FundingStays
  <2> QED  BY <1>2, <2>1 DEF QuietStep, coordVars, vaultVars
<1> QED  BY <1>3, <1>4, <1>5, <1>6, QuietKeeps

(* What leaves every book alone but for stock or WETH that comes in *)
IdlePipe ==
    \/ /\ \E a \in StockTokens : DonateToManager(a)
       /\ UNCHANGED <<now, vaultVars, adapterVars, coordVars>>
    \/ /\ DeliverBudget \/ \E s \in StockTokens : DonateToVault(s)
       /\ UNCHANGED <<now, adapterVars, mgrVars, coordVars>>
    \/ /\ \/ \E r \in Routers \cup {NoRouter} : RotateRouter(r)
          \/ \E s \in StockTokens : DonateToAdapter(s)
       /\ UNCHANGED <<now, vaultVars, mgrVars, coordVars>>
    \/ /\ \E s \in StockTokens : DonateToCoordinator(s)
       /\ UNCHANGED <<now, vaultVars, adapterVars, mgrVars>>
    \/ Tick /\ UNCHANGED <<vaultVars, adapterVars, mgrVars, coordVars>>
    \/ UNCHANGED allVars

LEMMA IdleQuiet ==
    ASSUME IdlePipe
    PROVE  QuietStep /\ UNCHANGED <<assetFunding, claimed, paid>>
BY DEF IdlePipe, QuietStep, DonateToManager, DeliverBudget, DonateToVault,
       DonateToCoordinator, vaultVars, mgrVars, coordVars, allVars

LEMMA IdleKeeps ==
    ASSUME PipeInv, IdlePipe
    PROVE  PipeInv'
<1>1. /\ now \in Times /\ VaultInv /\ MgrInv /\ AdapterTypeOK
      /\ coordStock \in [StockTokens -> Nat]
  BY DEF PipeInv, VaultInv, VaultTypeOK, RecordsInv, CoordTypeOK
<1>2. now' \in Times
  BY <1>1, ChainAssumption DEF IdlePipe, Tick, Times, allVars
<1>3. MgrInv'
  <2>1. MgrNext \/ UNCHANGED <<now, mgrVars>>
    BY DEF IdlePipe, MgrNext, MgrCall, allVars
  <2> QED  BY <1>1, <2>1, MgrNextInv
<1>4. VaultInv'
  <2>1. VaultNext \/ (UNCHANGED vaultVars /\ now' \in Times)
    BY <1>2 DEF IdlePipe, VaultNext, VaultCall, allVars
  <2>2. CASE VaultNext
    BY <1>1, <2>2, VaultNextInv
  <2> QED  BY <1>1, <2>1, <2>2, VaultStutters
<1>5. AdapterTypeOK'
  BY <1>1 DEF IdlePipe, AdapterTypeOK, adapterVars, RotateRouter,
              DonateToAdapter, allVars
<1>6. coordStock' \in [StockTokens -> Nat]
  BY <1>1 DEF IdlePipe, DonateToCoordinator, coordVars, allVars
<1>7. QuietStep
  BY IdleQuiet
<1> QED  BY <1>3, <1>4, <1>5, <1>6, <1>7, QuietKeeps

----------------------------------------------------------------------------
LEMMA PipeStarts ==
    ASSUME Init
    PROVE  PipeInv
<1>1. now = 0 /\ VaultInit /\ AdapterInit /\ MgrInit /\ CoordInit
  BY DEF Init
<1>2. VaultInv
  BY <1>1, VaultStarts, ChainAssumption DEF Times
<1>3. AdapterTypeOK
  BY <1>1 DEF AdapterInit, AdapterTypeOK
<1>4. MgrInv
  BY <1>1, MgrStartInv DEF MgrStart
<1>5. CoordTypeOK
  <2>1. NoRecord \in AcquisitionRecord
    BY DEF NoRecord, AcquisitionRecord, AcquisitionStatus, Assets
  <2> QED  BY <1>1, <2>1, CoordinatorAssumption DEF CoordInit, CoordTypeOK
<1>6. \A id \in AcquisitionIds : acquisitions[id].status = "NONE"
  BY <1>1 DEF CoordInit, NoRecord
<1>7. RecordsInOrder /\ CyclesBound
  BY <1>1, <1>6 DEF RecordsInOrder, CyclesBound, CoordInit, AcquisitionIds
<1>8. UnusedUnpublished
  BY <1>1 DEF UnusedUnpublished, MgrInit
<1>9. DueReleasable
  <2> SUFFICES ASSUME NEW s \in StockTokens PROVE Due(s) = Releasable(s)
    BY DEF DueReleasable
  <2> DEFINE f == [id \in AcquisitionIds |-> DueOf(acquisitions[id], s)]
  <2>1. \A id \in AcquisitionIds : f[id] = 0
    BY <1>6 DEF DueOf
  <2>2. Due(s) = SumFunctionOnSet(f, AcquisitionIds)
    BY DueSums
  <2> HIDE DEF f
  <2>3. SumFunctionOnSet(f, AcquisitionIds) = 0
    BY <2>1, IdsFinite, SumZero
  <2> QED  BY <1>1, <2>2, <2>3 DEF VaultInit, Releasable
<1>10. ReleasedFunded
  <2> SUFFICES ASSUME NEW s \in StockTokens
               PROVE  distributionReleased[s] = Funded(s)
    BY DEF ReleasedFunded
  <2> DEFINE f == [c \in Cycles |-> assetFunding[c][s].funded]
  <2>1. \A c \in Cycles : f[c] = 0
    BY <1>1 DEF MgrInit
  <2>2. IsFiniteSet(Cycles) /\ Funded(s) = SumFunctionOnSet(f, Cycles)
    BY ClaimAssumption DEF Funded
  <2> HIDE DEF f
  <2>3. SumFunctionOnSet(f, Cycles) = 0
    BY <2>1, <2>2, SumZero
  <2> QED  BY <1>1, <2>2, <2>3 DEF VaultInit
<1> QED
  BY <1>2, <1>3, <1>4, <1>5, <1>7, <1>8, <1>9, <1>10 DEF PipeInv, RecordsInv

(* The steps of the pipeline: one acquisition recorded, one funded, entries*)
(* of claims in one cycle, or nothing for the books.                       *)
RecordStep ==
    /\ \E s \in StockTokens, r \in AcquisitionRecord : RecordedNow(s, r)
    /\ VaultInv' /\ AdapterTypeOK'
    /\ UNCHANGED <<now, mgrVars>>

FundStep ==
    /\ \E id \in AcquisitionIds, c \in Cycles, s \in StockTokens, n \in Nat :
           FundedNowBy(id, c, s, n)
    /\ VaultInv' /\ MgrInv'
    /\ UNCHANGED <<now, adapterVars>>

ClaimStep ==
    /\ ClaimOrRecover
    /\ UNCHANGED <<now, vaultVars, adapterVars, coordVars>>

LEMMA PipeSteps ==
    ASSUME PipeInv, [Next]_allVars
    PROVE  RecordStep \/ FundStep \/ ClaimStep \/ IdlePipe
<1>1. ASSUME Acquire, UNCHANGED <<now, mgrVars>>
      PROVE  RecordStep
  <2>1. PICK caller \in Accounts, s \in StockTokens, w \in WethAmounts,
             min \in StockAmounts, deadline \in Deadlines, ex \in Quotes :
        \E swap \in Swaps(w) :
        \E fwd \in Outcomes(swap.toAdapter) :
        \E out \in LET got == fwd.received + swap.toVault
                   IN Outcomes(got - DistributionPart(got)) :
            ExecuteAndRecordAcquisition(caller, s, w, min, deadline, ex, swap,
                                        fwd, out)
    BY <1>1 DEF Acquire
  <2> PICK swap \in Swaps(w) :
        \E fwd \in Outcomes(swap.toAdapter) : \E out :
            ExecuteAndRecordAcquisition(caller, s, w, min, deadline, ex, swap,
                                        fwd, out)
    BY <2>1
  <2> PICK fwd \in Outcomes(swap.toAdapter) : \E out :
            ExecuteAndRecordAcquisition(caller, s, w, min, deadline, ex, swap,
                                        fwd, out)
    OBVIOUS
  <2>2. PICK out :
            ExecuteAndRecordAcquisition(caller, s, w, min, deadline, ex, swap,
                                        fwd, out)
    OBVIOUS
  <2>3. acquisitionCount < MaxAcquisitions /\ UNCHANGED now
    BY <1>1 DEF Acquire
  <2>4. VaultInv' /\ AdapterTypeOK' /\ RecordedNow(s, DerivedRecord(s))
    BY <2>2, <2>3, AcquireRecords
  <2>5. DerivedRecord(s) \in AcquisitionRecord
    BY <2>4 DEF RecordedNow
  <2> QED  BY <1>1, <2>4, <2>5 DEF RecordStep
<1>2. ASSUME Fund, UNCHANGED <<now, adapterVars>>
      PROVE  FundStep
  <2>1. PICK caller \in Accounts, id \in 1 .. acquisitionCount,
             root \in Roots \cup {ZeroRoot}, hashes \in {{1}, {0, 1}},
             win \in Windows, c \in Cycles :
        \E rel, pull \in Outcomes(acquisitions[id].distributionAmount) :
            FundRecordedAcquisition(caller, id, root, hashes, win, c, rel,
                                    pull.received)
    BY <1>2 DEF Fund
  <2>2. PICK rel, pull \in Outcomes(acquisitions[id].distributionAmount) :
            FundRecordedAcquisition(caller, id, root, hashes, win, c, rel,
                                    pull.received)
    BY <2>1
  <2>3. pull.received \in Nat
    <3>1. id \in AcquisitionIds /\ acquisitions \in [AcquisitionIds -> AcquisitionRecord]
      BY CoordinatorAssumption
      DEF PipeInv, RecordsInv, CoordTypeOK, AcquisitionIds
    <3>2. acquisitions[id].distributionAmount \in Nat
      BY <3>1 DEF AcquisitionRecord
    <3> QED  BY <2>2, <3>2, OutcomeTypes
  <2>4. /\ VaultInv' /\ MgrInv'
        /\ FundedNowBy(id, c, acquisitions[id].stockToken,
                       acquisitions[id].distributionAmount)
    BY <1>2, <2>2, <2>3, FundBinds
  <2>5. /\ id \in AcquisitionIds
        /\ acquisitions[id].stockToken \in StockTokens
        /\ acquisitions[id].distributionAmount \in Nat
    BY <2>4 DEF FundedNowBy
  <2> QED  BY <1>2, <2>4, <2>5 DEF FundStep
<1>3. CASE UNCHANGED allVars
  BY <1>3 DEF IdlePipe
<1> QED  BY <1>1, <1>2, <1>3 DEF Next, ClaimStep, IdlePipe

LEMMA PipeNextInv == PipeInv /\ [Next]_allVars => PipeInv'
<1> SUFFICES ASSUME PipeInv, [Next]_allVars PROVE PipeInv'
  OBVIOUS
<1>1. CASE RecordStep
  <2> PICK s \in StockTokens, r \in AcquisitionRecord : RecordedNow(s, r)
    BY <1>1 DEF RecordStep
  <2> QED  BY <1>1, RecordKeeps DEF RecordStep
<1>2. CASE FundStep
  BY <1>2, FundKeeps DEF FundStep
<1>3. CASE ClaimStep
  BY <1>3, ClaimKeeps DEF ClaimStep
<1>4. CASE IdlePipe
  BY <1>4, IdleKeeps
<1> QED  BY <1>1, <1>2, <1>3, <1>4, PipeSteps

LEMMA PipeInvAlways == Spec => []PipeInv
<1> QED  BY PipeStarts, PipeNextInv, PTL DEF Spec

(* Vault, adapter, manager and coordinator keep their types in every       *)
(* transaction of the composed system: the counters of each stay in range. *)
THEOREM PipelineTyped == Spec => []TypeOK
<1>1. PipeInv => TypeOK
  BY DEF PipeInv, TypeOK, VaultInv, MgrInv, RecordsInv
<1> QED  BY <1>1, PipeInvAlways, PTL

(* executeAndRecordAcquisition and fundRecordedAcquisition: whatever was   *)
(* funded, claimed or donated in between, the vault can still release all  *)
(* that the waiting records were promised, and the manager still takes     *)
(* every cycle id the coordinator has not used.                            *)
THEOREM AlwaysFundable == Spec => []RecordedStaysFundable
<1>1. PipeInv => RecordedStaysFundable
  <2> SUFFICES ASSUME PipeInv PROVE RecordedStaysFundable
    OBVIOUS
  <2>1. ASSUME NEW s \in StockTokens
        PROVE  Due(s) = Releasable(s) /\ Due(s) <= vaultStock[s]
    <3>1. StockRight(s)
      BY VaultInvByStock DEF PipeInv
    <3>2. Due(s) = distributionAllocated[s] - distributionReleased[s]
      BY DEF PipeInv, RecordsInv, DueReleasable, Releasable
    <3> QED  BY <3>1, <3>2 DEF StockRight, Releasable
  <2>2. ASSUME NEW c \in Cycles, NEW a \in StockTokens, ~cycleUsed[c]
        PROVE  ~cycles[c].published /\ ~assetFunding[c][a].registered
    BY <2>2, UnusedIsEmpty
  <2> QED  BY <2>1, <2>2 DEF RecordedStaysFundable
<1> QED  BY <1>1, PipeInvAlways, PTL

(* No unit of acquired stock is lost between the four contracts: it is in  *)
(* the reserve, waits in the vault, is owed by a cycle, or has reached a   *)
(* claimant or recovery.                                                   *)
THEOREM StockNeverLost == Spec => []StockTraced
<1>1. PipeInv => StockTraced
  <2> SUFFICES ASSUME PipeInv, NEW s \in StockTokens
               PROVE  totalStockAcquired[s] =
                          reserveStock[s] + Due(s)
                              + SumFunctionOnSet([c \in Cycles |-> InCycle(c, s)],
                                                 Cycles)
    BY DEF StockTraced
  <2>1. ASSUME NEW c \in Cycles PROVE InCycle(c, s) = assetFunding[c][s].funded
    <3> DEFINE p == SumFunctionOnSet([w \in Claimants |-> paid[c][w][s]], Claimants)
    <3>1. assetFunding[c][s].claimed = p
      BY DEF PipeInv, MgrInv, PaymentsBooked
    <3>2. /\ assetFunding[c][s].funded \in Nat
          /\ assetFunding[c][s].claimed \in Nat
          /\ assetFunding[c][s].recovered \in Nat
      BY FieldTypes DEF PipeInv, MgrInv, MgrTypeOK
    <3>3. InCycle(c, s) = Remaining(c, s) + assetFunding[c][s].recovered + p
      BY DEF InCycle
    <3> HIDE DEF p
    <3> QED  BY <3>1, <3>2, <3>3 DEF Remaining
  <2>2. SumFunctionOnSet([c \in Cycles |-> InCycle(c, s)], Cycles) = Funded(s)
    <3>1. [c \in Cycles |-> InCycle(c, s)] = [c \in Cycles |-> assetFunding[c][s].funded]
      BY <2>1
    <3> QED  BY <3>1 DEF Funded
  <2>3. StockRight(s)
    BY VaultInvByStock DEF PipeInv
  <2>4. /\ Due(s) = distributionAllocated[s] - distributionReleased[s]
        /\ distributionReleased[s] = Funded(s)
    BY DEF PipeInv, RecordsInv, DueReleasable, Releasable, ReleasedFunded
  <2> QED  BY <2>2, <2>3, <2>4 DEF StockRight
<1> QED  BY <1>1, PipeInvAlways, PTL

----------------------------------------------------------------------------
(* The refinement: what the mapping gives one acquisition, before and      *)
(* after a step.                                                           *)
LEMMA MappedAt ==
    ASSUME NEW id \in AcquisitionIds
    PROVE  /\ Stage[id] = acquisitions[id].status
           /\ acquisitions[id].status = "NONE" => Pot[id] = 0
           /\ acquisitions[id].status = "RECORDED" =>
                  Pot[id] = acquisitions[id].distributionAmount
           /\ acquisitions[id].status = "FUNDED" =>
                  /\ Pot[id] = Remaining(acquisitions[id].cycleId,
                                         acquisitions[id].stockToken)
                  /\ Binding[id] = acquisitions[id].cycleId
           /\ acquisitions[id].status # "FUNDED" =>
                  Binding[id] = Unassigned /\ Closed[id] = FALSE
           /\ Closed[id] = (/\ acquisitions[id].status = "FUNDED"
                            /\ assetFunding[acquisitions[id].cycleId]
                                 [acquisitions[id].stockToken].recoveryClosed)
<1>1. Stage[id] = acquisitions[id].status
  BY DEF Stage
<1>2. /\ acquisitions[id].status = "NONE" => Pot[id] = 0
      /\ acquisitions[id].status = "RECORDED" =>
             Pot[id] = acquisitions[id].distributionAmount
  BY DEF Pot
<1>3. acquisitions[id].status = "FUNDED" =>
          Pot[id] = Remaining(acquisitions[id].cycleId, acquisitions[id].stockToken)
  BY DEF Pot
<1>4. Binding[id] = IF acquisitions[id].status = "FUNDED"
                    THEN acquisitions[id].cycleId ELSE Unassigned
  BY DEF Binding
<1>5. Closed[id] = (/\ acquisitions[id].status = "FUNDED"
                    /\ assetFunding[acquisitions[id].cycleId]
                         [acquisitions[id].stockToken].recoveryClosed)
  BY DEF Closed
<1>6. acquisitions[id].status # "FUNDED" => Closed[id] = FALSE
  BY <1>5
<1> QED  BY <1>1, <1>2, <1>3, <1>4, <1>5, <1>6

LEMMA MappedAfter ==
    ASSUME NEW id \in AcquisitionIds
    PROVE  /\ Stage'[id] = acquisitions'[id].status
           /\ acquisitions'[id].status = "NONE" => Pot'[id] = 0
           /\ acquisitions'[id].status = "RECORDED" =>
                  Pot'[id] = acquisitions'[id].distributionAmount
           /\ acquisitions'[id].status = "FUNDED" =>
                  /\ Pot'[id] = Remaining(acquisitions[id].cycleId,
                                          acquisitions[id].stockToken)'
                  /\ Binding'[id] = acquisitions'[id].cycleId
           /\ acquisitions'[id].status # "FUNDED" =>
                  Binding'[id] = Unassigned /\ Closed'[id] = FALSE
           /\ Closed'[id] = (/\ acquisitions'[id].status = "FUNDED"
                             /\ assetFunding'[acquisitions'[id].cycleId]
                                  [acquisitions'[id].stockToken].recoveryClosed)
<1>1. Stage'[id] = acquisitions'[id].status
  BY DEF Stage
<1>2. /\ acquisitions'[id].status = "NONE" => Pot'[id] = 0
      /\ acquisitions'[id].status = "RECORDED" =>
             Pot'[id] = acquisitions'[id].distributionAmount
  BY DEF Pot
<1>3. acquisitions'[id].status = "FUNDED" =>
          Pot'[id] = Remaining(acquisitions[id].cycleId,
                               acquisitions[id].stockToken)'
  BY DEF Pot
<1>4. Binding'[id] = IF acquisitions'[id].status = "FUNDED"
                     THEN acquisitions'[id].cycleId ELSE Unassigned
  BY DEF Binding
<1>5. Closed'[id] = (/\ acquisitions'[id].status = "FUNDED"
                     /\ assetFunding'[acquisitions'[id].cycleId]
                          [acquisitions'[id].stockToken].recoveryClosed)
  BY DEF Closed
<1>6. acquisitions'[id].status # "FUNDED" => Closed'[id] = FALSE
  BY <1>5
<1> QED  BY <1>1, <1>2, <1>3, <1>4, <1>5, <1>6

(* An acquisition whose record and cycle books stay, stays what it is. *)
LEMMA MappedSame ==
    ASSUME NEW id \in AcquisitionIds, acquisitions'[id] = acquisitions[id],
           acquisitions[id].status \in AcquisitionStatus,
           acquisitions[id].status = "FUNDED" =>
               assetFunding'[acquisitions[id].cycleId][acquisitions[id].stockToken]
                   = assetFunding[acquisitions[id].cycleId][acquisitions[id].stockToken]
    PROVE  /\ Stage'[id] = Stage[id] /\ Pot'[id] = Pot[id]
           /\ Binding'[id] = Binding[id] /\ Closed'[id] = Closed[id]
<1> DEFINE r == acquisitions[id]
<1>1. CASE r.status = "FUNDED"
  <2>1. /\ Stage[id] = r.status /\ Binding[id] = r.cycleId
        /\ Pot[id] = Remaining(r.cycleId, r.stockToken)
    BY <1>1, MappedAt
  <2>2. /\ Stage'[id] = acquisitions'[id].status
        /\ Binding'[id] = acquisitions'[id].cycleId
        /\ Pot'[id] = Remaining(acquisitions[id].cycleId,
                                acquisitions[id].stockToken)'
    BY <1>1, MappedAfter
  <2>3. Pot'[id] = Pot[id]
    BY <1>1, <2>1, <2>2 DEF Remaining
  <2>4. Closed'[id] = Closed[id]
    BY <1>1, MappedAt, MappedAfter
  <2> QED  BY <2>1, <2>2, <2>3, <2>4
<1>2. CASE r.status # "FUNDED"
  <2>1. Stage'[id] = Stage[id]
    BY MappedAt, MappedAfter
  <2>2. Binding'[id] = Binding[id] /\ Closed'[id] = Closed[id]
    BY <1>2, MappedAt, MappedAfter
  <2>3. r.status = "NONE" \/ r.status = "RECORDED"
    BY <1>2 DEF AcquisitionStatus
  <2>4. Pot'[id] = Pot[id]
    <3>1. CASE r.status = "NONE"
      BY <3>1, MappedAt, MappedAfter
    <3>2. CASE r.status = "RECORDED"
      <4>1. Pot[id] = acquisitions[id].distributionAmount
        BY <3>2, MappedAt
      <4>2. Pot'[id] = acquisitions'[id].distributionAmount
        BY <3>2, MappedAfter
      <4> QED  BY <4>1, <4>2
    <3> QED  BY <2>3, <3>1, <3>2
  <2> QED  BY <2>1, <2>2, <2>4
<1> QED  BY <1>1, <1>2

(* The mapped variables are functions of the acquisition id. *)
LEMMA MappedShape ==
    /\ Stage = [id \in AcquisitionIds |-> Stage[id]]
    /\ Pot = [id \in AcquisitionIds |-> Pot[id]]
    /\ Binding = [id \in AcquisitionIds |-> Binding[id]]
    /\ Closed = [id \in AcquisitionIds |-> Closed[id]]
    /\ Stage' = [id \in AcquisitionIds |-> Stage'[id]]
    /\ Pot' = [id \in AcquisitionIds |-> Pot'[id]]
    /\ Binding' = [id \in AcquisitionIds |-> Binding'[id]]
    /\ Closed' = [id \in AcquisitionIds |-> Closed'[id]]
<1>1. Stage = [id \in AcquisitionIds |-> Stage[id]]
  BY DEF Stage
<1>2. Pot = [id \in AcquisitionIds |-> Pot[id]]
  <2> DEFINE row(id) == CASE acquisitions[id].status = "NONE" -> 0
                          [] acquisitions[id].status = "RECORDED" ->
                                 acquisitions[id].distributionAmount
                          [] acquisitions[id].status = "FUNDED" ->
                                 Remaining(acquisitions[id].cycleId,
                                           acquisitions[id].stockToken)
  <2>1. Pot = [id \in AcquisitionIds |-> row(id)]
    BY DEF Pot
  <2> HIDE DEF row
  <2> QED  BY <2>1
<1>3. Binding = [id \in AcquisitionIds |-> Binding[id]]
  BY DEF Binding
<1>4. Closed = [id \in AcquisitionIds |-> Closed[id]]
  BY DEF Closed
<1>5. Stage' = [id \in AcquisitionIds |-> Stage'[id]]
  BY DEF Stage
<1>6. Pot' = [id \in AcquisitionIds |-> Pot'[id]]
  <2> DEFINE row(id) == CASE acquisitions[id].status = "NONE" -> 0
                          [] acquisitions[id].status = "RECORDED" ->
                                 acquisitions[id].distributionAmount
                          [] acquisitions[id].status = "FUNDED" ->
                                 Remaining(acquisitions[id].cycleId,
                                           acquisitions[id].stockToken)
  <2>1. Pot' = [id \in AcquisitionIds |-> row(id)']
    BY DEF Pot
  <2> HIDE DEF row
  <2> QED  BY <2>1
<1>7. Binding' = [id \in AcquisitionIds |-> Binding'[id]]
  BY DEF Binding
<1>8. Closed' = [id \in AcquisitionIds |-> Closed'[id]]
  BY DEF Closed
<1> QED  BY <1>1, <1>2, <1>3, <1>4, <1>5, <1>6, <1>7, <1>8, Zenon

LEMMA PromiseStarts ==
    ASSUME Init
    PROVE  Promise!PromiseInit
<1>1. \A id \in AcquisitionIds : acquisitions[id].status = "NONE"
  BY DEF Init, CoordInit, NoRecord
<1>2. \A id \in AcquisitionIds :
          /\ Stage[id] = "NONE" /\ Pot[id] = 0
          /\ Binding[id] = Unassigned /\ Closed[id] = FALSE
  BY <1>1, MappedAt
<1> HIDE DEF Stage, Pot, Binding, Closed
<1> QED  BY <1>2, MappedShape DEF Promise!PromiseInit

(* Recording an acquisition hands out the next id and fills its pot. *)
LEMMA RecordSimulates ==
    ASSUME PipeInv, RecordStep
    PROVE  Promise!PromiseNext
<1> PICK s \in StockTokens, r \in AcquisitionRecord : RecordedNow(s, r)
  BY DEF RecordStep
<1> DEFINE i == acquisitionCount + 1
<1>1. /\ acquisitions \in [AcquisitionIds -> AcquisitionRecord]
      /\ acquisitionCount \in Nat
      /\ i \in AcquisitionIds
      /\ acquisitions' = [acquisitions EXCEPT ![i] = r]
      /\ r.status = "RECORDED" /\ r.distributionAmount \in Nat
      /\ assetFunding' = assetFunding
  <2>1. /\ acquisitions \in [AcquisitionIds -> AcquisitionRecord]
        /\ acquisitionCount \in 0 .. MaxAcquisitions
    BY DEF PipeInv, RecordsInv, CoordTypeOK
  <2>2. acquisitionCount \in Nat
    BY <2>1, CoordinatorAssumption
  <2>3. r.distributionAmount \in Nat
    BY DEF AcquisitionRecord
  <2>4. assetFunding' = assetFunding
    BY DEF RecordStep, mgrVars
  <2>5. /\ i \in AcquisitionIds
        /\ acquisitions' = [acquisitions EXCEPT ![i] = r]
        /\ r.status = "RECORDED"
    BY DEF RecordedNow
  <2> QED  BY <2>1, <2>2, <2>3, <2>4, <2>5
<1>2. \A id \in AcquisitionIds : acquisitions[id].status = "NONE" <=> id > acquisitionCount
  BY DEF PipeInv, RecordsInv, RecordsInOrder
<1>3. acquisitions'[i] = r /\ acquisitions[i].status = "NONE"
  BY <1>1, <1>2
<1> HIDE DEF i
<1>4. ASSUME NEW id \in AcquisitionIds, id # i
      PROVE  /\ Stage'[id] = Stage[id] /\ Pot'[id] = Pot[id]
             /\ Binding'[id] = Binding[id] /\ Closed'[id] = Closed[id]
  <2>1. acquisitions'[id] = acquisitions[id]
    BY <1>1, <1>4
  <2>2. acquisitions[id].status \in AcquisitionStatus
    BY <1>1 DEF AcquisitionRecord
  <2> QED  BY <1>1, <2>1, <2>2, MappedSame
<1>5. /\ Stage[i] = "NONE" /\ Stage'[i] = "RECORDED" /\ Pot'[i] \in Nat
      /\ Binding'[i] = Binding[i] /\ Closed'[i] = Closed[i]
  BY <1>1, <1>3, MappedAt, MappedAfter
<1>6. \A lower \in AcquisitionIds : lower < i => Stage[lower] # "NONE"
  <2> SUFFICES ASSUME NEW lower \in AcquisitionIds, lower < i
               PROVE  Stage[lower] # "NONE"
    OBVIOUS
  <2>1. ~(lower > acquisitionCount)
    BY <1>1 DEF i, AcquisitionIds
  <2>2. acquisitions[lower].status # "NONE"
    BY <1>2, <2>1
  <2> QED  BY <2>2, MappedAt
<1> HIDE DEF Stage, Pot, Binding, Closed
<1>7. Stage' = [Stage EXCEPT ![i] = "RECORDED"]
  BY <1>1, <1>4, <1>5, MappedShape
<1>8. Pot' = [Pot EXCEPT ![i] = Pot'[i]]
  BY <1>1, <1>4, <1>5, MappedShape
<1>9. Binding' = Binding /\ Closed' = Closed
  <2>1. \A id \in AcquisitionIds : /\ Binding'[id] = Binding[id]
                                   /\ Closed'[id] = Closed[id]
    BY <1>4, <1>5
  <2>2. Binding' = Binding
    BY <2>1, MappedShape
  <2>3. Closed' = Closed
    BY <2>1, MappedShape
  <2> QED  BY <2>2, <2>3
<1>10. Promise!Record(i)
  BY <1>5, <1>6, <1>7, <1>8, <1>9 DEF Promise!Record
<1> QED  BY <1>1, <1>10 DEF Promise!PromiseNext

(* Funding moves the whole pot into a cycle that no other pot has. *)
LEMMA FundSimulates ==
    ASSUME PipeInv, FundStep
    PROVE  Promise!PromiseNext
<1> PICK i \in AcquisitionIds, c \in Cycles, s \in StockTokens, n \in Nat :
             FundedNowBy(i, c, s, n)
  BY DEF FundStep
<1> DEFINE q == [acquisitions[i] EXCEPT !.status = "FUNDED", !.cycleId = c]
<1>1. /\ n # 0 /\ ~cycleUsed[c]
      /\ acquisitions[i].status = "RECORDED"
      /\ acquisitions[i].stockToken = s
      /\ acquisitions[i].distributionAmount = n
      /\ acquisitions' = [acquisitions EXCEPT ![i] = q]
      /\ OpenedOnly(c, s, n)
      /\ acquisitions \in [AcquisitionIds -> AcquisitionRecord]
  BY DEF FundedNowBy, PipeInv, RecordsInv, CoordTypeOK
<1>2. acquisitions'[i].status = "FUNDED" /\ acquisitions'[i].cycleId = c
      /\ acquisitions'[i].stockToken = s
  <2>1. acquisitions[i] \in AcquisitionRecord
    BY <1>1
  <2>2. q.status = "FUNDED" /\ q.cycleId = c /\ q.stockToken = s
    BY <1>1, <2>1 DEF AcquisitionRecord
  <2> HIDE DEF q
  <2> QED  BY <1>1, <2>2
<1> HIDE DEF q
<1>3. ASSUME NEW id \in AcquisitionIds, acquisitions[id].status = "FUNDED"
      PROVE  acquisitions[id].cycleId \in Cycles /\ acquisitions[id].cycleId # c
  BY <1>1, <1>3 DEF PipeInv, RecordsInv, CyclesBound
<1>4. ASSUME NEW id \in AcquisitionIds, id # i
      PROVE  /\ Stage'[id] = Stage[id] /\ Pot'[id] = Pot[id]
             /\ Binding'[id] = Binding[id] /\ Closed'[id] = Closed[id]
  <2>1. acquisitions'[id] = acquisitions[id]
    BY <1>1, <1>4
  <2>2. acquisitions[id].status \in AcquisitionStatus
    BY <1>1 DEF AcquisitionRecord
  <2>3. acquisitions[id].status = "FUNDED" =>
            assetFunding'[acquisitions[id].cycleId]
                = assetFunding[acquisitions[id].cycleId]
    BY <1>1, <1>3 DEF OpenedOnly
  <2> QED  BY <2>1, <2>2, <2>3, MappedSame
<1>5. /\ assetFunding'[c][s].funded = n /\ assetFunding'[c][s].claimed = 0
      /\ assetFunding'[c][s].recovered = 0
      /\ assetFunding'[c][s].recoveryClosed = FALSE
  <2> DEFINE b == assetFunding[c][s]
  <2>1. b \in AssetFunding
    BY DEF PipeInv, MgrInv, MgrTypeOK
  <2>2. b.claimed = 0 /\ b.recovered = 0 /\ ~b.recoveryClosed
    BY <1>1, UnusedIsEmpty
  <2>3. assetFunding'[c][s] = [b EXCEPT !.registered = TRUE, !.funded = n]
    BY <1>1 DEF OpenedOnly
  <2> HIDE DEF b
  <2> QED  BY <2>1, <2>2, <2>3 DEF AssetFunding
<1>6. /\ Stage[i] = "RECORDED" /\ Stage'[i] = "FUNDED"
      /\ Binding'[i] = c /\ Pot[i] = n
  BY <1>1, <1>2, MappedAt, MappedAfter
<1>7. Pot'[i] = n
  <2>1. Pot'[i] = Remaining(acquisitions[i].cycleId, acquisitions[i].stockToken)'
    BY <1>2, MappedAfter
  <2> QED  BY <1>2, <1>5, <2>1 DEF Remaining
<1>8. Closed[i] = FALSE /\ Closed'[i] = FALSE
  <2>1. Closed[i] = FALSE
    BY <1>1, MappedAt
  <2>2. Closed'[i] = (/\ acquisitions'[i].status = "FUNDED"
                      /\ assetFunding'[acquisitions'[i].cycleId]
                           [acquisitions'[i].stockToken].recoveryClosed)
    BY MappedAfter
  <2> QED  BY <1>2, <1>5, <2>1, <2>2
<1>9. \A other \in AcquisitionIds : Binding[other] # c
  <2> SUFFICES ASSUME NEW other \in AcquisitionIds
               PROVE  Binding[other] # c
    OBVIOUS
  <2>1. CASE acquisitions[other].status = "FUNDED"
    BY <1>3, <2>1, MappedAt
  <2>2. CASE acquisitions[other].status # "FUNDED"
    <3>1. Binding[other] = -1
      BY <2>2, MappedAt DEF Unassigned
    <3>2. c \in Nat
      BY CoordinatorAssumption
    <3> QED  BY <3>1, <3>2
  <2> QED  BY <2>1, <2>2
<1> HIDE DEF Stage, Pot, Binding, Closed
<1>10. Stage' = [Stage EXCEPT ![i] = "FUNDED"]
  BY <1>4, <1>6, MappedShape
<1>11. Binding' = [Binding EXCEPT ![i] = c]
  BY <1>4, <1>6, MappedShape
<1>12. Pot' = Pot
  BY <1>4, <1>6, <1>7, MappedShape
<1>13. Closed' = Closed
  <2>1. \A id \in AcquisitionIds : Closed'[id] = Closed[id]
    BY <1>4, <1>8, Zenon
  <2>2. /\ Closed = [id \in AcquisitionIds |-> Closed[id]]
        /\ Closed' = [id \in AcquisitionIds |-> Closed'[id]]
    BY MappedShape
  <2> QED  BY <2>1, <2>2, Zenon
<1>14. Pot[i] > 0
  BY <1>1, <1>6
<1>15. Promise!Bind(i, c)
  BY <1>6, <1>9, <1>10, <1>11, <1>12, <1>13, <1>14 DEF Promise!Bind
<1> QED  BY <1>15 DEF Promise!PromiseNext

(* What a step leaves of one acquisition in the abstract state *)
SameAt(id) ==
    /\ Stage'[id] = Stage[id] /\ Pot'[id] = Pot[id]
    /\ Binding'[id] = Binding[id] /\ Closed'[id] = Closed[id]

LEMMA AllSame ==
    ASSUME \A id \in AcquisitionIds : SameAt(id)
    PROVE  UNCHANGED Promise!promiseVars
<1> HIDE DEF Stage, Pot, Binding, Closed
<1>1. Stage' = Stage
  BY MappedShape, Zenon DEF SameAt
<1>2. Pot' = Pot
  BY MappedShape, Zenon DEF SameAt
<1>3. Binding' = Binding
  BY MappedShape, Zenon DEF SameAt
<1>4. Closed' = Closed
  BY MappedShape, Zenon DEF SameAt
<1> QED  BY <1>1, <1>2, <1>3, <1>4 DEF Promise!promiseVars

(* A claim or recovery in cycle c touches at most the pot bound to c. *)
LEMMA OthersSame ==
    ASSUME PipeInv, acquisitions' = acquisitions,
           NEW c \in Cycles, CycleStep(c), NEW id \in AcquisitionIds,
           ~(acquisitions[id].status = "FUNDED" /\ acquisitions[id].cycleId = c)
    PROVE  SameAt(id)
<1>1. acquisitions[id].status \in AcquisitionStatus
  BY DEF PipeInv, RecordsInv, CoordTypeOK, AcquisitionRecord
<1>2. acquisitions[id].status = "FUNDED" => acquisitions[id].cycleId \in Cycles \ {c}
  BY DEF PipeInv, RecordsInv, CyclesBound
<1>3. acquisitions[id].status = "FUNDED" =>
          assetFunding'[acquisitions[id].cycleId]
              = assetFunding[acquisitions[id].cycleId]
  BY <1>2 DEF CycleStep
<1>4. acquisitions'[id] = acquisitions[id]
  OBVIOUS
<1> QED  BY <1>1, <1>3, <1>4, MappedSame DEF SameAt

(* claim and claimBatch pay out of one pot, recoverExpired closes one; in  *)
(* a cycle no acquisition is bound to they do neither.                     *)
LEMMA ClaimSimulates ==
    ASSUME PipeInv, ClaimStep
    PROVE  Promise!PromiseNext \/ UNCHANGED Promise!promiseVars
<1>1. acquisitions' = acquisitions /\ MgrTypeOK
  BY DEF ClaimStep, coordVars, PipeInv, MgrInv
<1>2. PICK c \in Cycles : cycles' = cycles /\ CycleStep(c)
  BY <1>1, ClaimSteps DEF ClaimStep
<1>3. CASE \A id \in AcquisitionIds :
               ~(acquisitions[id].status = "FUNDED" /\ acquisitions[id].cycleId = c)
  BY <1>1, <1>2, <1>3, OthersSame, AllSame
<1>4. CASE \E id \in AcquisitionIds :
               acquisitions[id].status = "FUNDED" /\ acquisitions[id].cycleId = c
  <2> PICK i \in AcquisitionIds :
               acquisitions[i].status = "FUNDED" /\ acquisitions[i].cycleId = c
    BY <1>4
  <2> DEFINE a == acquisitions[i].stockToken
             b == assetFunding[c][a]
  <2>1. a \in StockTokens /\ cycleAcquisitionId[c] = i
    BY DEF PipeInv, RecordsInv, CyclesBound
  <2>2. b \in AssetFunding
    BY <1>1, <2>1 DEF MgrTypeOK
  <2>3. ASSUME NEW id \in AcquisitionIds, id # i PROVE SameAt(id)
    <3>1. ~(acquisitions[id].status = "FUNDED" /\ acquisitions[id].cycleId = c)
      BY <2>1, <2>3 DEF PipeInv, RecordsInv, CyclesBound
    <3> QED  BY <1>1, <1>2, <3>1, OthersSame
  <2>4. /\ Stage[i] = "FUNDED" /\ Stage'[i] = "FUNDED"
        /\ Binding'[i] = Binding[i]
        /\ Pot[i] = Remaining(c, a)
        /\ Closed[i] = (TRUE /\ b.recoveryClosed)
    BY <1>1, MappedAt, MappedAfter
  <2>5. Pot'[i] = assetFunding'[c][a].funded - assetFunding'[c][a].claimed
                      - assetFunding'[c][a].recovered
    <3>1. Pot'[i] = Remaining(acquisitions[i].cycleId, acquisitions[i].stockToken)'
      BY <1>1, MappedAfter
    <3> QED  BY <1>1, <3>1 DEF Remaining
  <2>6. Closed'[i] = (TRUE /\ assetFunding'[c][a].recoveryClosed)
    BY <1>1, MappedAfter
  <2>7. /\ b.recoveryClosed => Remaining(c, a) = 0
        /\ Remaining(c, a) \in Nat
    <3>1. AssetRight(c, a)
      BY <2>1, InvAtAsset DEF PipeInv
    <3>2. Remaining(c, a) \in Int
      BY <2>2, FieldTypes DEF Remaining
    <3> QED  BY <3>1, <3>2 DEF AssetRight, AssetBooks
  <2>8. BookEntry(c, a)
    BY <1>2, <2>1 DEF CycleStep
  <2> HIDE DEF a, b, Stage, Pot, Binding, Closed
  <2>9. CASE Kept(c, a)
    <3>1. Pot'[i] = Pot[i] /\ Closed'[i] = Closed[i]
      BY <2>4, <2>5, <2>6, <2>9 DEF Kept, Remaining, b
    <3>2. SameAt(i)
      BY <2>4, <3>1 DEF SameAt
    <3> QED  BY <2>3, <3>2, AllSame
  <2>10. CASE FundedNow(c, a)
    BY <1>2, <2>10 DEF FundedNow
  <2>11. CASE PaidNow(c, a)
    <3>1. PICK w \in Claimants, n \in Nat :
              /\ ClaimOk(c, w, a, n)
              /\ assetFunding'[c][a] = [b EXCEPT !.claimed = @ + n]
      BY <2>11 DEF PaidNow, b
    <3>2. n # 0 /\ n <= Pot[i]
      BY <2>4, <3>1 DEF ClaimOk
    <3>3. n \in 1 .. Pot[i] /\ Closed[i] = FALSE /\ ~b.recoveryClosed
      <4>1. Pot[i] \in Nat /\ n \in Nat /\ n # 0 /\ n <= Pot[i]
        BY <2>4, <2>7, <3>2
      <4>2. n \in 1 .. Pot[i] /\ Pot[i] # 0
        BY <4>1
      <4>3. Remaining(c, a) # 0
        BY <2>4, <4>2
      <4>4. ~b.recoveryClosed
        BY <2>7, <4>3
      <4> QED  BY <2>4, <4>2, <4>4
    <3>4. /\ assetFunding'[c][a].funded = b.funded
          /\ assetFunding'[c][a].claimed = b.claimed + n
          /\ assetFunding'[c][a].recovered = b.recovered
          /\ assetFunding'[c][a].recoveryClosed = b.recoveryClosed
      BY <2>2, <3>1 DEF AssetFunding
    <3>5. Pot'[i] = Pot[i] - n
      <4>1. b.funded \in Nat /\ b.claimed \in Nat /\ b.recovered \in Nat
        BY <2>2, FieldTypes
      <4>2. Pot[i] = b.funded - b.claimed - b.recovered
        BY <2>4 DEF Remaining, b
      <4> QED  BY <2>5, <3>4, <4>1, <4>2
    <3>6. Closed'[i] = FALSE
      BY <2>6, <3>3, <3>4
    <3>7. Pot' = [Pot EXCEPT ![i] = @ - n]
      BY <2>3, <3>5, MappedShape DEF SameAt
    <3>8. Stage' = Stage
      <4>1. \A id \in AcquisitionIds : Stage'[id] = Stage[id]
        BY <2>3, <2>4 DEF SameAt
      <4> QED  BY <4>1, MappedShape, Zenon
    <3>9. Binding' = Binding
      <4>1. \A id \in AcquisitionIds : Binding'[id] = Binding[id]
        BY <2>3, <2>4 DEF SameAt
      <4> QED  BY <4>1, MappedShape, Zenon
    <3>10. Closed' = Closed
      <4>1. \A id \in AcquisitionIds : Closed'[id] = Closed[id]
        BY <2>3, <3>3, <3>6, Zenon DEF SameAt
      <4> QED  BY <4>1, MappedShape, Zenon
    <3>11. Promise!PayOut(i, n)
      BY <2>4, <3>3, <3>7, <3>8, <3>9, <3>10 DEF Promise!PayOut
    <3> QED  BY <3>3, <3>11 DEF Promise!PromiseNext
  <2>12. CASE SweptNow(c, a)
    <3>1. /\ ~b.recoveryClosed
          /\ assetFunding'[c][a] = [b EXCEPT !.recovered = @ + Remaining(c, a),
                                             !.recoveryClosed = TRUE]
      BY <2>12 DEF SweptNow, RecoveryOk, b
    <3>2. /\ assetFunding'[c][a].funded = b.funded
          /\ assetFunding'[c][a].claimed = b.claimed
          /\ assetFunding'[c][a].recovered = b.recovered + Remaining(c, a)
          /\ assetFunding'[c][a].recoveryClosed = TRUE
      BY <2>2, <3>1 DEF AssetFunding
    <3>3. Pot'[i] = 0
      <4>1. b.funded \in Nat /\ b.claimed \in Nat /\ b.recovered \in Nat
        BY <2>2, FieldTypes
      <4>2. Remaining(c, a) = b.funded - b.claimed - b.recovered
        BY DEF Remaining, b
      <4> QED  BY <2>5, <2>7, <3>2, <4>1, <4>2
    <3>4. Closed[i] = FALSE /\ Closed'[i] = TRUE
      BY <2>4, <2>6, <3>1, <3>2
    <3>5. Pot' = [Pot EXCEPT ![i] = 0]
      BY <2>3, <3>3, MappedShape DEF SameAt
    <3>6. Stage' = Stage
      <4>1. \A id \in AcquisitionIds : Stage'[id] = Stage[id]
        BY <2>3, <2>4 DEF SameAt
      <4> QED  BY <4>1, MappedShape, Zenon
    <3>7. Binding' = Binding
      <4>1. \A id \in AcquisitionIds : Binding'[id] = Binding[id]
        BY <2>3, <2>4 DEF SameAt
      <4> QED  BY <4>1, MappedShape, Zenon
    <3>8. Closed' = [Closed EXCEPT ![i] = TRUE]
      BY <2>3, <3>4, MappedShape DEF SameAt
    <3>9. Promise!Close(i)
      BY <2>4, <3>4, <3>5, <3>6, <3>7, <3>8 DEF Promise!Close
    <3> QED  BY <3>9 DEF Promise!PromiseNext
  <2> QED  BY <2>8, <2>9, <2>10, <2>11, <2>12 DEF BookEntry
<1> QED  BY <1>3, <1>4

LEMMA IdleSimulates ==
    ASSUME PipeInv, IdlePipe
    PROVE  UNCHANGED Promise!promiseVars
<1>1. acquisitions' = acquisitions /\ assetFunding' = assetFunding
  BY IdleQuiet DEF QuietStep
<1>2. \A id \in AcquisitionIds : acquisitions[id].status \in AcquisitionStatus
  BY DEF PipeInv, RecordsInv, CoordTypeOK, AcquisitionRecord
<1>3. \A id \in AcquisitionIds : SameAt(id)
  BY <1>1, <1>2, MappedSame DEF SameAt
<1> QED  BY <1>3, AllSame

(* The four contracts together keep the promise of DistributionPromise: a  *)
(* participants' part is set aside, bound as a whole to one cycle no other *)
(* acquisition has, and from then on leaves only to claimants of that      *)
(* cycle or, once, to recovery; every other transaction leaves the pots.   *)
THEOREM PromiseKept == Spec => KeepsPromise
<1>1. Init => Promise!PromiseInit
  BY PromiseStarts
<1>2. PipeInv /\ [Next]_allVars => [Promise!PromiseNext]_(Promise!promiseVars)
  <2> SUFFICES ASSUME PipeInv, [Next]_allVars
               PROVE  Promise!PromiseNext \/ UNCHANGED Promise!promiseVars
    OBVIOUS
  <2>1. RecordStep \/ FundStep \/ ClaimStep \/ IdlePipe
    BY PipeSteps
  <2> QED
    BY <2>1, RecordSimulates, FundSimulates, ClaimSimulates, IdleSimulates
<1> QED
  BY <1>1, <1>2, PipeInvAlways, PTL DEF Spec, KeepsPromise, Promise!PromiseSpec
==============================================================================
