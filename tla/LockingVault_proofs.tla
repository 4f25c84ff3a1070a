------------------------ MODULE LockingVault_proofs ------------------------
(***************************************************************************)
(* Proofs about LockingVault, for any accounts, terms, amounts and bounds, *)
(* and about LockSnapshot, which reads its weights at a block.             *)
(***************************************************************************)
EXTENDS LockingVault, LockSnapshot, Sums_proofs

(* An id that was not given out yet holds no position. *)
FreshIds ==
    \A w \in Holders, id \in LockIds :
        id >= lockCount[w] => ~positions[w][id].exists

LockInv ==
    /\ LockTypeOK
    /\ VaultCoversLocks
    /\ FreshIds

----------------------------------------------------------------------------
(* The multiplier of a supported term is a natural number. *)
LEMMA MultiplierType ==
    ASSUME NEW duration \in SupportedTerms
    PROVE  PolicyMultiplierBps(duration) \in Nat
  <1>1. CASE duration = 0
    BY <1>1 DEF PolicyMultiplierBps, MULTIPLIER_UNLOCKED_BPS
  <1>2. CASE duration = DURATION_7D
    BY <1>2, LockAssumption DEF PolicyMultiplierBps
  <1>3. CASE duration = DURATION_14D
    BY <1>3, LockAssumption DEF PolicyMultiplierBps
  <1>4. CASE duration = DURATION_21D
    BY <1>4, LockAssumption DEF PolicyMultiplierBps
  <1>5. CASE duration = DURATION_30D
    BY <1>5, LockAssumption DEF PolicyMultiplierBps
  <1> QED
    BY <1>1, <1>2, <1>3, <1>4, <1>5 DEF SupportedTerms

(* createLock writes a well-formed position. *)
LEMMA NewPositionType ==
    ASSUME now \in Nat, NEW amount \in Nat, NEW duration \in SupportedTerms
    PROVE  NewPosition(amount, duration) \in LockPosition
  <1>1. duration \in Nat
    BY LockAssumption DEF SupportedTerms
  <1>2. PolicyMultiplierBps(duration) \in Nat
    BY MultiplierType
  <1> QED
    BY <1>1, <1>2 DEF NewPosition, LockPosition

(* withdraw leaves a well-formed position, with its principal. *)
LEMMA ClosedType ==
    ASSUME now \in Nat, NEW p \in LockPosition
    PROVE  /\ ClosedAt(p) \in LockPosition
           /\ ClosedAt(p).exists = p.exists
  BY DEF ClosedAt, LockPosition

----------------------------------------------------------------------------
LEMMA CreatePreserves ==
    ASSUME LockInv,
           NEW w \in Holders, NEW n \in LockAmounts, NEW d \in LockDurations,
           NEW r \in Nat, CreateLock(w, n, d, r), UNCHANGED now
    PROVE  LockInv'
  <1> DEFINE id == lockCount[w]
             p == NewPosition(n, d)
  <1>1. n \in Nat /\ d \in SupportedTerms /\ r = n
    BY LockAssumption DEF CreateLock, CreateLockOk
  <1>2. p \in LockPosition
    BY <1>1, NewPositionType DEF LockInv, LockTypeOK
  <1>3. id \in LockIds
    BY LockAssumption DEF LockInv, LockTypeOK, CreateLock, LockIds
  <1>4. positions' = [positions EXCEPT ![w][id] = p]
    BY DEF CreateLock
  <1> HIDE DEF p
  <1>5. positions' \in [Holders -> [LockIds -> LockPosition]]
    BY <1>2, <1>3, <1>4 DEF LockInv, LockTypeOK
  <1>6. lockCount' \in [Holders -> 0 .. MaxLocks]
    BY LockAssumption DEF LockInv, LockTypeOK, CreateLock
  <1>7. lockedPrincipal' \in [Holders -> Nat]
    BY <1>1 DEF LockInv, LockTypeOK, CreateLock
  <1>8. /\ totalLockedPrincipal' \in Nat
        /\ vaultBps' \in Nat
        /\ VaultCoversLocks'
    BY <1>1 DEF LockInv, LockTypeOK, VaultCoversLocks, CreateLock
  <1>9. LockTypeOK'
    BY <1>5, <1>6, <1>7, <1>8
    DEF LockInv, LockTypeOK, OwnTypeOK, CreateLock, ownVars
  <1>10. FreshIds'
    <2> SUFFICES ASSUME NEW v \in Holders, NEW i \in LockIds,
                        i >= lockCount'[v]
                 PROVE  ~positions'[v][i].exists
      BY DEF FreshIds
    <2>1. CASE v = w /\ i = id
      BY <2>1 DEF LockInv, LockTypeOK, CreateLock, LockIds
    <2>2. CASE ~(v = w /\ i = id)
      <3>1. positions'[v][i] = positions[v][i]
        BY <2>2, <1>3, <1>4 DEF LockInv, LockTypeOK
      <3>2. i >= lockCount[v]
        BY LockAssumption DEF LockInv, LockTypeOK, CreateLock, LockIds
      <3> QED
        BY <3>1, <3>2 DEF LockInv, FreshIds
    <2> QED
      BY <2>1, <2>2
  <1> QED
    BY <1>8, <1>9, <1>10 DEF LockInv

LEMMA WithdrawPreserves ==
    ASSUME LockInv,
           NEW w \in Holders, NEW id \in LockIds, Withdraw(w, id),
           UNCHANGED now
    PROVE  LockInv'
  <1> DEFINE p == positions[w][id]
             q == ClosedAt(p)
  <1>1. p \in LockPosition /\ p.principal \in Nat
    BY DEF LockInv, LockTypeOK, LockPosition
  <1>2. q \in LockPosition /\ q.exists = p.exists
    BY <1>1, ClosedType DEF LockInv, LockTypeOK
  <1>3. positions' = [positions EXCEPT ![w][id] = q]
    BY DEF Withdraw
  <1> HIDE DEF q
  <1>4. positions' \in [Holders -> [LockIds -> LockPosition]]
    BY <1>2, <1>3 DEF LockInv, LockTypeOK
  <1> DEFINE n == p.principal
  <1>5. /\ n \in Nat
        /\ n <= lockedPrincipal[w]
        /\ n <= totalLockedPrincipal
        /\ n <= vaultBps
        /\ lockedPrincipal' = [lockedPrincipal EXCEPT ![w] = @ - n]
        /\ totalLockedPrincipal' = totalLockedPrincipal - n
        /\ vaultBps' = vaultBps - n
        /\ returned' = [returned EXCEPT ![w] = @ + n]
    BY <1>1 DEF Withdraw
  <1> HIDE DEF n
  <1>6. lockedPrincipal' \in [Holders -> Nat]
    BY <1>5 DEF LockInv, LockTypeOK
  <1>7. returned' \in [Holders -> Nat]
    BY <1>5 DEF LockInv, LockTypeOK
  <1>8. /\ totalLockedPrincipal' \in Nat
        /\ vaultBps' \in Nat
        /\ VaultCoversLocks'
    BY <1>5 DEF LockInv, LockTypeOK, VaultCoversLocks
  <1>9. LockTypeOK'
    BY <1>4, <1>6, <1>7, <1>8
    DEF LockInv, LockTypeOK, OwnTypeOK, Withdraw, ownVars
  <1>10. FreshIds'
    <2> SUFFICES ASSUME NEW v \in Holders, NEW i \in LockIds,
                        i >= lockCount[v]
                 PROVE  ~positions'[v][i].exists
      BY DEF FreshIds, Withdraw
    <2>1. positions'[v][i].exists = positions[v][i].exists
      BY <1>2, <1>3 DEF LockInv, LockTypeOK
    <2> QED
      BY <2>1 DEF LockInv, FreshIds
  <1> QED
    BY <1>8, <1>9, <1>10 DEF LockInv

(* What leaves positions and books alone preserves the invariant. *)
LEMMA RestPreserves ==
    ASSUME LockInv,
           \/ (\E caller \in Callers : EnableEmergencyExit(caller))
                  /\ UNCHANGED now
           \/ DonateBps /\ UNCHANGED now
           \/ LockOwnership /\ UNCHANGED now
           \/ Tick /\ UNCHANGED <<lockVars, ownVars>>
           \/ UNCHANGED allLockVars
    PROVE  LockInv'
  <1>1. /\ lockCount' = lockCount
        /\ positions' = positions
        /\ lockedPrincipal' = lockedPrincipal
        /\ totalLockedPrincipal' = totalLockedPrincipal
        /\ returned' = returned
    BY DEF EnableEmergencyExit, DonateBps, LockOwnership, lockVars, ownVars,
           allLockVars
  <1>2. /\ now' \in Nat
        /\ emergencyExitEnabledAt' \in Nat
    BY DEF LockInv, LockTypeOK, EnableEmergencyExit, DonateBps, LockOwnership,
           Tick, lockVars, ownVars, allLockVars
  <1>3. vaultBps' \in Nat /\ vaultBps' >= vaultBps
    BY DEF LockInv, LockTypeOK, EnableEmergencyExit, DonateBps, LockOwnership,
           Tick, lockVars, ownVars, allLockVars
  <1>4. emergencyExitEnabled' \in BOOLEAN
    BY Zenon
    DEF LockInv, LockTypeOK, EnableEmergencyExit, DonateBps, LockOwnership,
        lockVars, ownVars, allLockVars
  <1>5. OwnTypeOK'
    BY DEF LockInv, LockTypeOK, OwnTypeOK, EnableEmergencyExit, DonateBps,
           LockOwnership, TransferOwnership, AcceptOwnership,
           RenounceOwnership, OnlyOwner, lockVars, ownVars, allLockVars
  <1>6. LockTypeOK'
    BY <1>1, <1>2, <1>3, <1>5, <1>4 DEF LockInv, LockTypeOK
  <1>7. VaultCoversLocks'
    BY <1>1, <1>3 DEF LockInv, LockTypeOK, VaultCoversLocks
  <1>8. FreshIds'
    BY <1>1 DEF LockInv, FreshIds
  <1> QED
    BY <1>6, <1>7, <1>8 DEF LockInv

(* The vault starts in the invariant. *)
LEMMA InitEstablishes ==
    ASSUME now = 0, LockInit
    PROVE  LockInv
  <1>1. NoPosition \in LockPosition /\ NoPosition.exists = FALSE
    BY DEF NoPosition, LockPosition
  <1>2. positions \in [Holders -> [LockIds -> LockPosition]]
    BY <1>1 DEF LockInit
  <1>3. LockTypeOK
    <2>1. OwnTypeOK
      BY LockAssumption DEF LockInit, OwnInit, OwnTypeOK
    <2>2. lockCount \in [Holders -> 0 .. MaxLocks]
      BY LockAssumption DEF LockInit
    <2>3. /\ lockedPrincipal \in [Holders -> Nat]
          /\ returned \in [Holders -> Nat]
      BY DEF LockInit
    <2>4. /\ totalLockedPrincipal \in Nat
          /\ vaultBps \in Nat
          /\ emergencyExitEnabledAt \in Nat
          /\ emergencyExitEnabled \in BOOLEAN
      BY DEF LockInit
    <2> QED
      BY <1>2, <2>1, <2>2, <2>3, <2>4 DEF LockTypeOK
  <1>4. VaultCoversLocks
    BY DEF LockInit, VaultCoversLocks
  <1>5. FreshIds
    BY <1>1 DEF LockInit, FreshIds
  <1> QED
    BY <1>3, <1>4, <1>5 DEF LockInv

(* Every step of the vault preserves the invariant. *)
LEMMA NextPreserves ==
    ASSUME LockInv, [LockNext]_allLockVars
    PROVE  LockInv'
  <1>1. CASE (\E w \in Holders, n \in LockAmounts, d \in LockDurations,
                 f \in Fees : f <= n /\ CreateLock(w, n, d, n - f))
              /\ UNCHANGED now
    <2> PICK w \in Holders, n \in LockAmounts, d \in LockDurations,
             f \in Fees : f <= n /\ CreateLock(w, n, d, n - f)
      BY <1>1
    <2>1. n - f \in Nat
      BY LockAssumption, ChainAssumption
    <2> QED
      BY <1>1, <2>1, CreatePreserves
  <1>2. CASE (\E w \in Holders, id \in LockIds : Withdraw(w, id))
              /\ UNCHANGED now
    BY <1>2, WithdrawPreserves
  <1>3. CASE (\E caller \in Callers : EnableEmergencyExit(caller))
              /\ UNCHANGED now
    BY <1>3, RestPreserves
  <1>4. CASE DonateBps /\ UNCHANGED now
    BY <1>4, RestPreserves
  <1>5. CASE LockOwnership /\ UNCHANGED now
    BY <1>5, RestPreserves
  <1>6. CASE Tick /\ UNCHANGED <<lockVars, ownVars>>
    BY <1>6, RestPreserves
  <1>7. CASE UNCHANGED allLockVars
    BY <1>7, RestPreserves
  <1> QED
    BY <1>1, <1>2, <1>3, <1>4, <1>5, <1>6, <1>7 DEF LockNext, LockCall

(* The inductive invariant of the vault: it is well typed, it holds what   *)
(* it owes, and an id not given out yet is free.                           *)
THEOREM VaultInvariant == LockSpec => []LockInv
  <1>1. LockStart => LockInv
    BY InitEstablishes DEF LockStart
  <1>2. LockInv /\ [LockNext]_allLockVars => LockInv'
    BY NextPreserves
  <1> QED
    BY <1>1, <1>2, PTL DEF LockSpec

(* LockTypeOK: every variable of the vault keeps its type; in particular   *)
(* no checked subtraction of withdraw takes a counter below zero.          *)
THEOREM VaultTyped == LockSpec => []LockTypeOK
  <1>1. LockInv => LockTypeOK
    BY DEF LockInv
  <1> QED
    BY <1>1, VaultInvariant, PTL

(* VaultCoversLocks: the vault always holds the principal it recorded, for *)
(* any number of holders, locks and amounts, with or without donations and *)
(* the emergency exit.                                                     *)
THEOREM VaultCovers == LockSpec => []VaultCoversLocks
  <1>1. LockInv => VaultCoversLocks
    BY DEF LockInv
  <1> QED
    BY <1>1, VaultInvariant, PTL

----------------------------------------------------------------------------
(* The weights at a past instant t survive every step. *)
PastWeightKept(w, id, t) ==
    PositionWeightAt(positions[w][id], t)'
        = PositionWeightAt(positions[w][id], t)

(* A new lock starts now: it weighs nothing before, as its free id did.    *)
LEMMA CreateKeepsPast ==
    ASSUME LockInv,
           NEW v \in Holders, NEW n \in LockAmounts, NEW d \in LockDurations,
           NEW r \in Nat, CreateLock(v, n, d, r), UNCHANGED now,
           NEW w \in Holders, NEW id \in LockIds, NEW t \in 0 .. (now - 1)
    PROVE  PastWeightKept(w, id, t)
  <1>1. /\ emergencyExitEnabled' = emergencyExitEnabled
        /\ emergencyExitEnabledAt' = emergencyExitEnabledAt
        /\ positions' = [positions EXCEPT ![v][lockCount[v]] =
                             NewPosition(n, d)]
    BY DEF CreateLock
  <1>2. lockCount[v] \in LockIds
    BY LockAssumption DEF LockInv, LockTypeOK, CreateLock, LockIds
  <1>3. CASE w = v /\ id = lockCount[v]
    <2>1. ~positions[w][id].exists
      BY <1>3 DEF LockInv, LockTypeOK, FreshIds
    <2>2. positions'[w][id] = NewPosition(n, d)
      BY <1>1, <1>2, <1>3 DEF LockInv, LockTypeOK
    <2>3. t < positions'[w][id].startTime
      BY <2>2 DEF NewPosition, LockInv, LockTypeOK
    <2> QED
      BY <2>1, <2>3 DEF PastWeightKept, PositionWeightAt
  <1>4. CASE ~(w = v /\ id = lockCount[v])
    <2>1. positions'[w][id] = positions[w][id]
      BY <1>1, <1>2, <1>4 DEF LockInv, LockTypeOK
    <2> QED
      BY <1>1, <2>1 DEF PastWeightKept, PositionWeightAt, BonusActive
  <1> QED
    BY <1>3, <1>4

(* A withdrawal ends a position now: its weight before is untouched.       *)
LEMMA WithdrawKeepsPast ==
    ASSUME LockInv,
           NEW v \in Holders, NEW i \in LockIds, Withdraw(v, i), UNCHANGED now,
           NEW w \in Holders, NEW id \in LockIds, NEW t \in 0 .. (now - 1)
    PROVE  PastWeightKept(w, id, t)
  <1> DEFINE p == positions[v][i]
  <1>1. /\ emergencyExitEnabled' = emergencyExitEnabled
        /\ emergencyExitEnabledAt' = emergencyExitEnabledAt
        /\ positions' = [positions EXCEPT ![v][i] = ClosedAt(p)]
        /\ ~p.withdrawn
    BY DEF Withdraw, WithdrawOk
  <1>2. CASE w = v /\ id = i
    <2> DEFINE q == positions'[w][id]
    <2>1. p \in LockPosition
      BY DEF LockInv, LockTypeOK
    <2>2. q = ClosedAt(p)
      BY <1>1, <1>2 DEF LockInv, LockTypeOK
    <2>3. /\ q.exists = p.exists
          /\ q.startTime = p.startTime
          /\ q.unlockTime = p.unlockTime
          /\ q.principal = p.principal
          /\ q.multiplierBps = p.multiplierBps
          /\ q.withdrawnAt = now
      BY <2>1, <2>2 DEF ClosedAt, LockPosition
    <2>4. ~(t >= q.withdrawnAt)
      BY <2>3 DEF LockInv, LockTypeOK
    <2>5. BonusActive(positions[w][id], t)' <=> BonusActive(p, t)
      BY <1>1, <1>2, <2>3 DEF BonusActive
    <2> QED
      BY <1>1, <1>2, <2>3, <2>4, <2>5 DEF PastWeightKept, PositionWeightAt
  <1>3. CASE ~(w = v /\ id = i)
    <2>1. positions'[w][id] = positions[w][id]
      BY <1>1, <1>3 DEF LockInv, LockTypeOK
    <2> QED
      BY <1>1, <2>1 DEF PastWeightKept, PositionWeightAt, BonusActive
  <1> QED
    BY <1>2, <1>3

(* The exit demotes weights from now on, never before.                     *)
LEMMA ExitKeepsPast ==
    ASSUME LockInv, NEW caller \in Callers, EnableEmergencyExit(caller),
           NEW w \in Holders, NEW id \in LockIds, NEW t \in 0 .. (now - 1)
    PROVE  PastWeightKept(w, id, t)
  <1> DEFINE p == positions[w][id]
  <1>1. /\ positions' = positions
        /\ ~emergencyExitEnabled
        /\ emergencyExitEnabledAt' = now
    BY DEF EnableEmergencyExit
  <1>2. BonusActive(p, t)' <=> BonusActive(p, t)
    BY <1>1 DEF BonusActive, LockInv, LockTypeOK
  <1> QED
    BY <1>1, <1>2 DEF PastWeightKept, PositionWeightAt

(* HistoryIsFrozen: "historical weight before activation is unchanged",    *)
(* for every holder, position and past instant, by any step of createLock, *)
(* withdraw, enableEmergencyExit, ownership or time.                       *)
THEOREM PastWeightsFrozen == LockSpec => HistoryIsFrozen
  <1>1. LockInv /\ [LockNext]_allLockVars
        => [\A w \in Holders, id \in LockIds, t \in 0 .. (now - 1) :
                PositionWeightAt(positions[w][id], t)'
                    = PositionWeightAt(positions[w][id], t)]_allLockVars
    <2> SUFFICES ASSUME LockInv, LockNext,
                        NEW w \in Holders, NEW id \in LockIds,
                        NEW t \in 0 .. (now - 1)
                 PROVE  PastWeightKept(w, id, t)
      BY DEF PastWeightKept
    <2>1. CASE (\E v \in Holders, n \in LockAmounts, d \in LockDurations,
                   f \in Fees : f <= n /\ CreateLock(v, n, d, n - f))
                /\ UNCHANGED now
      <3> PICK v \in Holders, n \in LockAmounts, d \in LockDurations,
               f \in Fees : f <= n /\ CreateLock(v, n, d, n - f)
        BY <2>1
      <3>1. n - f \in Nat
        BY LockAssumption, ChainAssumption
      <3> QED
        BY <2>1, <3>1, CreateKeepsPast
    <2>2. CASE (\E v \in Holders, i \in LockIds : Withdraw(v, i))
                /\ UNCHANGED now
      BY <2>2, WithdrawKeepsPast
    <2>3. CASE (\E caller \in Callers : EnableEmergencyExit(caller))
                /\ UNCHANGED now
      BY <2>3, ExitKeepsPast
    <2>4. CASE \/ DonateBps
               \/ LockOwnership
               \/ Tick /\ UNCHANGED <<lockVars, ownVars>>
      <3>1. /\ positions' = positions
            /\ emergencyExitEnabled' = emergencyExitEnabled
            /\ emergencyExitEnabledAt' = emergencyExitEnabledAt
        BY <2>4 DEF DonateBps, LockOwnership, lockVars
      <3> QED
        BY <3>1 DEF PastWeightKept, PositionWeightAt, BonusActive
    <2> QED
      BY <2>1, <2>2, <2>3, <2>4 DEF LockNext, LockCall
  <1> QED
    BY <1>1, VaultInvariant, PTL DEF LockSpec, HistoryIsFrozen

----------------------------------------------------------------------------
(* The books and the positions tell the same sums. *)

(* An id that was not given out yet carries no principal. *)
FreshIdsEmpty ==
    \A w \in Holders, id \in LockIds :
        id >= lockCount[w] => positions[w][id].principal = 0

(* PrincipalAccounted is inductive together with LockInv and FreshIdsEmpty:*)
(* a new lock adds its amount to the sum of the open positions because the *)
(* id it takes counted for nothing.                                        *)
BookInv ==
    /\ LockInv
    /\ FreshIdsEmpty
    /\ PrincipalAccounted

(* What a position adds to its holder's open and to its closed principal   *)
OpenOf(p) == IF p.withdrawn THEN 0 ELSE p.principal
ClosedOf(p) == IF p.withdrawn THEN p.principal ELSE 0

LEMMA PositionCounts ==
    ASSUME NEW p \in LockPosition
    PROVE  /\ p.principal \in Nat
           /\ OpenOf(p) \in Nat /\ ClosedOf(p) \in Nat
           /\ ~p.withdrawn => OpenOf(p) = p.principal /\ ClosedOf(p) = 0
           /\ p.withdrawn => OpenOf(p) = 0 /\ ClosedOf(p) = p.principal
<1>1. p.principal \in Nat
  BY DEF LockPosition
<1> QED  BY <1>1 DEF OpenOf, ClosedOf

LEMMA IdsFinite == IsFiniteSet(LockIds)
BY LockAssumption, FS_Interval DEF LockIds

(* When one position of a holder changes, its sums change by as much.      *)
LEMMA OnePositionChanges ==
    ASSUME NEW old \in [LockIds -> LockPosition],
           NEW new \in [LockIds -> LockPosition],
           NEW i \in LockIds, \A id \in LockIds : id # i => new[id] = old[id]
    PROVE  /\ SumFunctionOnSet([id \in LockIds |-> OpenOf(new[id])], LockIds)
                  = SumFunctionOnSet([id \in LockIds |-> OpenOf(old[id])], LockIds)
                        + (OpenOf(new[i]) - OpenOf(old[i]))
           /\ SumFunctionOnSet([id \in LockIds |-> ClosedOf(new[id])], LockIds)
                  = SumFunctionOnSet([id \in LockIds |-> ClosedOf(old[id])], LockIds)
                        + (ClosedOf(new[i]) - ClosedOf(old[i]))
<1> DEFINE fo == [id \in LockIds |-> OpenOf(old[id])]
           go == [id \in LockIds |-> OpenOf(new[id])]
           fc == [id \in LockIds |-> ClosedOf(old[id])]
           gc == [id \in LockIds |-> ClosedOf(new[id])]
<1>1. \A id \in LockIds : /\ fo[id] \in Int /\ go[id] \in Int
                          /\ fc[id] \in Int /\ gc[id] \in Int
  BY PositionCounts
<1>2. \A id \in LockIds : id # i => go[id] = fo[id] /\ gc[id] = fc[id]
  OBVIOUS
<1>3. /\ fo[i] = OpenOf(old[i]) /\ go[i] = OpenOf(new[i])
      /\ fc[i] = ClosedOf(old[i]) /\ gc[i] = ClosedOf(new[i])
  OBVIOUS
<1> HIDE DEF fo, go, fc, gc
<1>4. SumFunctionOnSet(go, LockIds)
          = SumFunctionOnSet(fo, LockIds) + (go[i] - fo[i])
  BY <1>1, <1>2, IdsFinite, SumUpdate
<1>5. SumFunctionOnSet(gc, LockIds)
          = SumFunctionOnSet(fc, LockIds) + (gc[i] - fc[i])
  BY <1>1, <1>2, IdsFinite, SumUpdate
<1> QED  BY <1>3, <1>4, <1>5 DEF fo, go, fc, gc

(* OpenPrincipal and ClosedPrincipal, as sums over the positions' tables   *)
LEMMA PrincipalSums ==
    ASSUME NEW w \in Holders
    PROVE  /\ OpenPrincipal(w) =
                  SumFunctionOnSet([id \in LockIds |-> OpenOf(positions[w][id])],
                                   LockIds)
           /\ ClosedPrincipal(w) =
                  SumFunctionOnSet([id \in LockIds |-> ClosedOf(positions[w][id])],
                                   LockIds)
           /\ OpenPrincipal(w)' =
                  SumFunctionOnSet([id \in LockIds |-> OpenOf(positions'[w][id])],
                                   LockIds)
           /\ ClosedPrincipal(w)' =
                  SumFunctionOnSet([id \in LockIds |-> ClosedOf(positions'[w][id])],
                                   LockIds)
BY DEF OpenPrincipal, ClosedPrincipal, OpenOf, ClosedOf

(* One holder's books move by what its position did; the rest stand still. *)
LEMMA AccountsFollow ==
    ASSUME BookInv, LockInv',
           NEW v \in Holders, NEW i \in LockIds, NEW q \in LockPosition,
           positions' = [positions EXCEPT ![v][i] = q],
           lockedPrincipal' = [lockedPrincipal EXCEPT ![v] =
               @ + (OpenOf(q) - OpenOf(positions[v][i]))],
           totalLockedPrincipal' =
               totalLockedPrincipal + (OpenOf(q) - OpenOf(positions[v][i])),
           returned' = [returned EXCEPT ![v] =
               @ + (ClosedOf(q) - ClosedOf(positions[v][i]))]
    PROVE  PrincipalAccounted'
<1> DEFINE p == positions[v][i]
           do == OpenOf(q) - OpenOf(p)
           dc == ClosedOf(q) - ClosedOf(p)
<1>1. /\ positions \in [Holders -> [LockIds -> LockPosition]]
      /\ lockedPrincipal \in [Holders -> Nat]
      /\ lockedPrincipal' \in [Holders -> Nat]
      /\ returned \in [Holders -> Nat]
      /\ positions' \in [Holders -> [LockIds -> LockPosition]]
  BY DEF BookInv, LockInv, LockTypeOK
<1>2. do \in Int /\ dc \in Int
  BY <1>1, PositionCounts
<1>3. /\ positions'[v][i] = q
      /\ \A id \in LockIds : id # i => positions'[v][id] = positions[v][id]
      /\ \A w \in Holders : w # v => positions'[w] = positions[w]
  BY <1>1
<1>4. /\ OpenPrincipal(v)' = OpenPrincipal(v) + do
      /\ ClosedPrincipal(v)' = ClosedPrincipal(v) + dc
  <2> DEFINE old == positions[v]
             new == positions'[v]
  <2>1. old \in [LockIds -> LockPosition] /\ new \in [LockIds -> LockPosition]
    BY <1>1
  <2>2. \A id \in LockIds : id # i => new[id] = old[id]
    BY <1>3
  <2>3. new[i] = q /\ old[i] = p
    BY <1>3
  <2>4. /\ OpenPrincipal(v) = SumFunctionOnSet([id \in LockIds |-> OpenOf(old[id])], LockIds)
        /\ OpenPrincipal(v)' = SumFunctionOnSet([id \in LockIds |-> OpenOf(new[id])], LockIds)
        /\ ClosedPrincipal(v) = SumFunctionOnSet([id \in LockIds |-> ClosedOf(old[id])], LockIds)
        /\ ClosedPrincipal(v)' = SumFunctionOnSet([id \in LockIds |-> ClosedOf(new[id])], LockIds)
    BY PrincipalSums
  <2> HIDE DEF old, new, p
  <2>5. /\ SumFunctionOnSet([id \in LockIds |-> OpenOf(new[id])], LockIds)
               = SumFunctionOnSet([id \in LockIds |-> OpenOf(old[id])], LockIds)
                     + (OpenOf(new[i]) - OpenOf(old[i]))
        /\ SumFunctionOnSet([id \in LockIds |-> ClosedOf(new[id])], LockIds)
               = SumFunctionOnSet([id \in LockIds |-> ClosedOf(old[id])], LockIds)
                     + (ClosedOf(new[i]) - ClosedOf(old[i]))
    BY <2>1, <2>2, OnePositionChanges
  <2> QED  BY <2>3, <2>4, <2>5
<1>5. \A w \in Holders : /\ lockedPrincipal[w] = OpenPrincipal(w)
                         /\ returned[w] = ClosedPrincipal(w)
  BY DEF BookInv, PrincipalAccounted
<1>6. /\ lockedPrincipal' = [lockedPrincipal EXCEPT ![v] = @ + do]
      /\ returned' = [returned EXCEPT ![v] = @ + dc]
      /\ totalLockedPrincipal' = totalLockedPrincipal + do
  OBVIOUS
<1> HIDE DEF do, dc
<1>7. ASSUME NEW w \in Holders
      PROVE  /\ lockedPrincipal'[w] = OpenPrincipal(w)'
             /\ returned'[w] = ClosedPrincipal(w)'
  <2>1. CASE w = v
    <3>1. lockedPrincipal'[v] = lockedPrincipal[v] + do
          /\ returned'[v] = returned[v] + dc
      BY <1>1, <1>6
    <3> QED  BY <1>4, <1>5, <2>1, <3>1
  <2>2. CASE w # v
    <3>1. positions'[w] = positions[w]
      BY <1>3, <2>2
    <3>2. OpenPrincipal(w)' = OpenPrincipal(w)
          /\ ClosedPrincipal(w)' = ClosedPrincipal(w)
      BY <3>1, PrincipalSums
    <3>3. lockedPrincipal'[w] = lockedPrincipal[w] /\ returned'[w] = returned[w]
      BY <1>1, <1>6, <2>2
    <3> QED  BY <1>5, <3>2, <3>3
  <2> QED  BY <2>1, <2>2
<1>8. totalLockedPrincipal' = SumFunctionOnSet(lockedPrincipal', Holders)
  <2>1. totalLockedPrincipal = SumFunctionOnSet(lockedPrincipal, Holders)
    BY DEF BookInv, PrincipalAccounted
  <2>2. \A w \in Holders : /\ lockedPrincipal[w] \in Int
                           /\ lockedPrincipal'[w] \in Int
                           /\ w # v => lockedPrincipal'[w] = lockedPrincipal[w]
    BY <1>1, <1>6
  <2>3. SumFunctionOnSet(lockedPrincipal', Holders)
            = SumFunctionOnSet(lockedPrincipal, Holders)
                  + (lockedPrincipal'[v] - lockedPrincipal[v])
    <3> DEFINE f == lockedPrincipal
               g == lockedPrincipal'
    <3>1. IsFiniteSet(Holders)
      BY LockAssumption
    <3>2. \A x \in Holders : f[x] \in Int /\ g[x] \in Int
      BY <2>2
    <3>3. \A x \in Holders : v # x => g[x] = f[x]
      BY <2>2
    <3> HIDE DEF f, g
    <3>4. SumFunctionOnSet(g, Holders) = SumFunctionOnSet(f, Holders) + (g[v] - f[v])
      BY <3>1, <3>2, <3>3, SumUpdate
    <3> QED  BY <3>4 DEF f, g
  <2>4. lockedPrincipal'[v] - lockedPrincipal[v] = do
    BY <1>1, <1>2, <1>6
  <2> QED  BY <1>6, <2>1, <2>3, <2>4
<1> QED  BY <1>7, <1>8 DEF PrincipalAccounted

LEMMA CreateAccounts ==
    ASSUME BookInv,
           NEW w \in Holders, NEW n \in LockAmounts, NEW d \in LockDurations,
           NEW r \in Nat, CreateLock(w, n, d, r), UNCHANGED now
    PROVE  BookInv'
<1> DEFINE i == lockCount[w]
           p == positions[w][i]
           q == NewPosition(n, d)
<1>1. LockInv'
  BY CreatePreserves DEF BookInv
<1>2. /\ positions' = [positions EXCEPT ![w][i] = q]
      /\ lockCount' = [lockCount EXCEPT ![w] = @ + 1]
      /\ lockedPrincipal' = [lockedPrincipal EXCEPT ![w] = @ + n]
      /\ totalLockedPrincipal' = totalLockedPrincipal + n
      /\ returned' = returned
  BY DEF CreateLock
<1>3. i \in LockIds /\ n \in Nat /\ d \in SupportedTerms
  BY LockAssumption
     DEF BookInv, LockInv, LockTypeOK, CreateLock, CreateLockOk, LockIds
<1>4. /\ q \in LockPosition /\ q.principal = n /\ ~q.withdrawn
      /\ OpenOf(q) = n /\ ClosedOf(q) = 0
  <2>1. q \in LockPosition
    BY <1>3, NewPositionType DEF BookInv, LockInv, LockTypeOK
  <2>2. q.principal = n /\ ~q.withdrawn
    BY DEF NewPosition
  <2> QED  BY <2>1, <2>2 DEF OpenOf, ClosedOf
<1>5. /\ positions \in [Holders -> [LockIds -> LockPosition]]
      /\ lockCount \in [Holders -> 0 .. MaxLocks]
      /\ lockedPrincipal \in [Holders -> Nat]
      /\ totalLockedPrincipal \in Nat
      /\ returned \in [Holders -> Nat]
  BY DEF BookInv, LockInv, LockTypeOK
<1>6. p \in LockPosition /\ p.principal = 0
  <2>1. i >= lockCount[w]
    BY <1>3 DEF LockIds
  <2> QED  BY <1>3, <1>5, <2>1 DEF BookInv, FreshIdsEmpty
<1>7. OpenOf(p) = 0 /\ ClosedOf(p) = 0
  BY <1>6 DEF OpenOf, ClosedOf
<1> HIDE DEF q
<1>8. PrincipalAccounted'
  <2>1. OpenOf(q) - OpenOf(p) = n /\ ClosedOf(q) - ClosedOf(p) = 0
    BY <1>3, <1>4, <1>7
  <2>2. returned' = [returned EXCEPT ![w] = @ + 0]
    BY <1>2, <1>5
  <2> QED  BY <1>1, <1>2, <1>3, <1>4, <2>1, <2>2, AccountsFollow
<1>9. FreshIdsEmpty'
  <2> SUFFICES ASSUME NEW v \in Holders, NEW id \in LockIds, id >= lockCount'[v]
               PROVE  positions'[v][id].principal = 0
    BY DEF FreshIdsEmpty
  <2>1. lockCount'[v] = IF v = w THEN lockCount[v] + 1 ELSE lockCount[v]
    BY <1>2, <1>5
  <2>2. lockCount[v] \in Nat /\ id \in Nat
    BY <1>5 DEF LockIds
  <2>3. id >= lockCount[v] /\ ~(v = w /\ id = i)
    BY <2>1, <2>2
  <2>4. positions'[v][id] = positions[v][id]
    BY <1>2, <1>3, <1>5, <2>3
  <2> QED  BY <2>3, <2>4 DEF BookInv, FreshIdsEmpty
<1> QED  BY <1>1, <1>8, <1>9 DEF BookInv

LEMMA WithdrawAccounts ==
    ASSUME BookInv,
           NEW w \in Holders, NEW id \in LockIds, Withdraw(w, id),
           UNCHANGED now
    PROVE  BookInv'
<1> DEFINE p == positions[w][id]
           q == ClosedAt(p)
           n == p.principal
<1>1. LockInv'
  BY WithdrawPreserves DEF BookInv
<1>2. /\ positions' = [positions EXCEPT ![w][id] = q]
      /\ lockCount' = lockCount
      /\ lockedPrincipal' = [lockedPrincipal EXCEPT ![w] = @ - n]
      /\ totalLockedPrincipal' = totalLockedPrincipal - n
      /\ returned' = [returned EXCEPT ![w] = @ + n]
      /\ ~p.withdrawn
  BY DEF Withdraw, WithdrawOk
<1>3. /\ positions \in [Holders -> [LockIds -> LockPosition]]
      /\ lockedPrincipal \in [Holders -> Nat]
      /\ totalLockedPrincipal \in Nat
      /\ returned \in [Holders -> Nat]
  BY DEF BookInv, LockInv, LockTypeOK
<1>4. p \in LockPosition /\ n \in Nat
  BY <1>3, PositionCounts
<1>5. /\ q \in LockPosition /\ q.principal = n /\ q.withdrawn
  BY <1>4, ClosedType DEF BookInv, LockInv, LockTypeOK, ClosedAt, LockPosition
<1>6. /\ OpenOf(q) = 0 /\ ClosedOf(q) = n
      /\ OpenOf(p) = n /\ ClosedOf(p) = 0
  BY <1>2, <1>4, <1>5, PositionCounts
<1> HIDE DEF q, n
<1>7. PrincipalAccounted'
  <2>1. OpenOf(q) - OpenOf(p) = 0 - n /\ ClosedOf(q) - ClosedOf(p) = n
    BY <1>4, <1>6
  <2>2. lockedPrincipal' = [lockedPrincipal EXCEPT ![w] = @ + (0 - n)]
    <3>1. lockedPrincipal[w] - n = lockedPrincipal[w] + (0 - n)
      BY <1>3, <1>4
    <3> QED  BY <1>2, <3>1
  <2>3. totalLockedPrincipal' = totalLockedPrincipal + (0 - n)
    BY <1>2, <1>3, <1>4
  <2> QED  BY <1>1, <1>2, <1>5, <2>1, <2>2, <2>3, AccountsFollow
<1>8. FreshIdsEmpty'
  <2> SUFFICES ASSUME NEW v \in Holders, NEW i \in LockIds, i >= lockCount[v]
               PROVE  positions'[v][i].principal = 0
    BY <1>2 DEF FreshIdsEmpty
  <2>1. positions[v][i].principal = 0
    BY DEF BookInv, FreshIdsEmpty
  <2>2. CASE v = w /\ i = id
    BY <1>2, <1>3, <1>5, <2>1, <2>2 DEF n
  <2>3. CASE ~(v = w /\ i = id)
    BY <1>2, <1>3, <2>1, <2>3
  <2> QED  BY <2>2, <2>3
<1> QED  BY <1>1, <1>7, <1>8 DEF BookInv

(* What leaves the positions and their books alone *)
LEMMA RestAccounts ==
    ASSUME BookInv,
           \/ (\E caller \in Callers : EnableEmergencyExit(caller))
                  /\ UNCHANGED now
           \/ DonateBps /\ UNCHANGED now
           \/ LockOwnership /\ UNCHANGED now
           \/ Tick /\ UNCHANGED <<lockVars, ownVars>>
           \/ UNCHANGED allLockVars
    PROVE  BookInv'
<1>1. LockInv'
  BY RestPreserves DEF BookInv
<1>2. /\ lockCount' = lockCount
      /\ positions' = positions
      /\ lockedPrincipal' = lockedPrincipal
      /\ totalLockedPrincipal' = totalLockedPrincipal
      /\ returned' = returned
  BY DEF EnableEmergencyExit, DonateBps, LockOwnership, lockVars, ownVars,
         allLockVars
<1>3. FreshIdsEmpty'
  BY <1>2 DEF BookInv, FreshIdsEmpty
<1>4. PrincipalAccounted'
  BY <1>2 DEF BookInv, PrincipalAccounted, OpenPrincipal, ClosedPrincipal
<1> QED  BY <1>1, <1>3, <1>4 DEF BookInv

(* Before the first lock every sum is empty or adds zeros. *)
LEMMA BooksStart ==
    ASSUME now = 0, LockInit
    PROVE  BookInv
<1>1. LockInv
  BY InitEstablishes
<1>2. \A w \in Holders, id \in LockIds : positions[w][id] = NoPosition
  BY DEF LockInit
<1>3. NoPosition.principal = 0
  BY DEF NoPosition
<1>4. FreshIdsEmpty
  BY <1>2, <1>3 DEF FreshIdsEmpty
<1>5. ASSUME NEW w \in Holders
      PROVE  lockedPrincipal[w] = OpenPrincipal(w) /\ returned[w] = ClosedPrincipal(w)
  <2> DEFINE f == [id \in LockIds |-> OpenOf(positions[w][id])]
             g == [id \in LockIds |-> ClosedOf(positions[w][id])]
  <2>1. \A id \in LockIds : f[id] = 0 /\ g[id] = 0
    BY <1>2, <1>3 DEF OpenOf, ClosedOf
  <2>2. /\ OpenPrincipal(w) = SumFunctionOnSet(f, LockIds)
        /\ ClosedPrincipal(w) = SumFunctionOnSet(g, LockIds)
    BY PrincipalSums
  <2> HIDE DEF f, g
  <2>3. SumFunctionOnSet(f, LockIds) = 0
    BY <2>1, IdsFinite, SumZero
  <2>4. SumFunctionOnSet(g, LockIds) = 0
    BY <2>1, IdsFinite, SumZero
  <2>5. lockedPrincipal[w] = 0 /\ returned[w] = 0
    BY DEF LockInit
  <2> QED  BY <2>2, <2>3, <2>4, <2>5
<1>6. totalLockedPrincipal = SumFunctionOnSet(lockedPrincipal, Holders)
  <2>1. IsFiniteSet(Holders)
    BY LockAssumption
  <2>2. \A w \in Holders : lockedPrincipal[w] = 0
    BY DEF LockInit
  <2>3. SumFunctionOnSet(lockedPrincipal, Holders) = 0
    BY <2>1, <2>2, SumZero
  <2> QED  BY <2>3 DEF LockInit
<1> QED  BY <1>1, <1>4, <1>5, <1>6 DEF BookInv, PrincipalAccounted

(* Every step of the vault keeps its books. *)
LEMMA BooksFollow ==
    ASSUME BookInv, [LockNext]_allLockVars
    PROVE  BookInv'
<1>1. CASE (\E w \in Holders, n \in LockAmounts, d \in LockDurations,
               f \in Fees : f <= n /\ CreateLock(w, n, d, n - f))
            /\ UNCHANGED now
  <2> PICK w \in Holders, n \in LockAmounts, d \in LockDurations,
           f \in Fees : f <= n /\ CreateLock(w, n, d, n - f)
    BY <1>1
  <2>1. n - f \in Nat
    BY LockAssumption, ChainAssumption
  <2> QED  BY <1>1, <2>1, CreateAccounts
<1>2. CASE (\E w \in Holders, id \in LockIds : Withdraw(w, id))
            /\ UNCHANGED now
  BY <1>2, WithdrawAccounts
<1>3. CASE (\E caller \in Callers : EnableEmergencyExit(caller))
            /\ UNCHANGED now
  BY <1>3, RestAccounts
<1>4. CASE DonateBps /\ UNCHANGED now
  BY <1>4, RestAccounts
<1>5. CASE LockOwnership /\ UNCHANGED now
  BY <1>5, RestAccounts
<1>6. CASE Tick /\ UNCHANGED <<lockVars, ownVars>>
  BY <1>6, RestAccounts
<1>7. CASE UNCHANGED allLockVars
  BY <1>7, RestAccounts
<1> QED  BY <1>1, <1>2, <1>3, <1>4, <1>5, <1>6, <1>7 DEF LockNext, LockCall

LEMMA BooksAlways == LockSpec => []BookInv
<1>1. LockStart => BookInv
  BY BooksStart DEF LockStart
<1>2. BookInv /\ [LockNext]_allLockVars => BookInv'
  BY BooksFollow
<1> QED  BY <1>1, <1>2, PTL DEF LockSpec

(* PrincipalAccounted: createLock's and withdraw's books always add up,    *)
(* for any number of holders and locks and whatever is donated meanwhile.  *)
THEOREM PrincipalBooked == LockSpec => []PrincipalAccounted
<1>1. BookInv => PrincipalAccounted
  BY DEF BookInv
<1> QED  BY <1>1, BooksAlways, PTL

(* withdraw's three checked subtractions: none refuses an open position.   *)
WithdrawalsCovered ==
    \A w \in Holders, id \in LockIds :
        ~positions[w][id].withdrawn =>
            /\ positions[w][id].principal <= lockedPrincipal[w]
            /\ lockedPrincipal[w] <= totalLockedPrincipal
            /\ totalLockedPrincipal <= vaultBps

(* So what withdraw asks of a position (that it exists, is open, and is    *)
(* matured or in the exit) is all that can refuse its holder: the checked  *)
(* subtractions and the transfer of the principal never do.                *)
THEOREM WithdrawNeverShort == LockSpec => []WithdrawalsCovered
<1>1. BookInv => WithdrawalsCovered
  <2> SUFFICES ASSUME BookInv, NEW w \in Holders, NEW id \in LockIds,
                      ~positions[w][id].withdrawn
               PROVE  /\ positions[w][id].principal <= lockedPrincipal[w]
                      /\ lockedPrincipal[w] <= totalLockedPrincipal
                      /\ totalLockedPrincipal <= vaultBps
    BY DEF WithdrawalsCovered
  <2> DEFINE f == [i \in LockIds |-> OpenOf(positions[w][i])]
  <2>1. /\ \A i \in LockIds : positions[w][i] \in LockPosition
        /\ \A v \in Holders : lockedPrincipal[v] \in Nat
        /\ IsFiniteSet(Holders)
    BY LockAssumption DEF BookInv, LockInv, LockTypeOK
  <2>2. (\A i \in LockIds : f[i] \in Nat) /\ f[id] = positions[w][id].principal
    BY <2>1, PositionCounts
  <2>3. /\ lockedPrincipal[w] = SumFunctionOnSet(f, LockIds)
        /\ totalLockedPrincipal = SumFunctionOnSet(lockedPrincipal, Holders)
    BY PrincipalSums DEF BookInv, PrincipalAccounted
  <2> HIDE DEF f
  <2>4. f[id] <= SumFunctionOnSet(f, LockIds)
    BY <2>2, IdsFinite, SumBound
  <2>5. lockedPrincipal[w] <= SumFunctionOnSet(lockedPrincipal, Holders)
    BY <2>1, SumBound
  <2>6. totalLockedPrincipal <= vaultBps
    BY DEF BookInv, LockInv, VaultCoversLocks
  <2> QED  BY <2>2, <2>3, <2>4, <2>5, <2>6
<1> QED  BY <1>1, BooksAlways, PTL

----------------------------------------------------------------------------
(* LockSnapshot: what an endpoint shows of the blocks up to the pin.       *)

Fields == {"created", "withdrawn"}

(* A branch has the requested history up to the pin. *)
Agrees(b) ==
    \A a \in Accounts, f \in Fields, n \in 0..Pin :
        locks[b][a][f] = n <=> locks[Requested][a][f] = n

ChainTyped ==
    /\ fork \in {Pin - 1, Pin}
    /\ deployed \in Nat
    /\ locks \in [Branches -> [Accounts -> Histories]]
    /\ branch \in [Endpoints -> Branches]
    /\ head \in [Endpoints -> Nat]
    /\ from \in 0..Pin
    /\ oneClient \in BOOLEAN

(* Branches that fork above the pin agree up to it. *)
ForkAbovePin == fork >= Pin => \A b \in Branches : Agrees(b)

Trusted(e) == head[e] >= Pin /\ Agrees(branch[e])

Scans == {"scan-created", "scan-withdrawn"}
Late == {"weigh", "done"}
Early == {"header", "synced", "coverage", "deployed", "verify"}

(* What the checks before the scans establish, and a shallow reorganisation *)
(* leaves true.                                                            *)
ChecksHold ==
    /\ step \in Early \cup Scans \cup Late \cup {"failed"}
    /\ step \notin {"header", "failed"} => Trusted("archive")
    /\ step \in Scans => Trusted(LogsEndpoint)
    /\ step \in {"deployed", "verify"} \cup Scans => Covered

(* The records of a field up to block n, of the blocks the scan covers. *)
Scanned(f, n) ==
    {[account |-> a, block |-> locks[Requested][a][f]] :
        a \in {x \in Accounts : /\ locks[Requested][x][f] \in 0..Pin
                                /\ locks[Requested][x][f] >= from
                                /\ locks[Requested][x][f] < n}}

RecordsRight ==
    /\ progress \in Int
    /\ step \in Early => created = {} /\ withdrawn = {}
    /\ step = "scan-created" => created = Scanned("created", progress) /\ withdrawn = {}
    /\ step = "scan-withdrawn" =>
         created = RecordsOf("created") /\ withdrawn = Scanned("withdrawn", progress)
    /\ step \in Scans => progress >= from
    /\ step \in Late => created = RecordsOf("created") /\ withdrawn = RecordsOf("withdrawn")

ReadingsRight ==
    /\ step \in Early \cup Scans => DOMAIN count = {} /\ DOMAIN weight = {}
    /\ step = "done" => DOMAIN weight = Candidates
    /\ DOMAIN weight \subseteq DOMAIN count
    /\ \A a \in DOMAIN count : count[a] = CountAt(Requested, a)
    /\ \A a \in DOMAIN weight : weight[a] = WeightAt(Requested, a)

SnapInv ==
    /\ ChainTyped
    /\ ForkAbovePin
    /\ ChecksHold
    /\ RecordsRight
    /\ ReadingsRight

----------------------------------------------------------------------------
LEMMA HistoryField ==
    ASSUME ChainTyped, NEW b \in Branches, NEW a \in Accounts, NEW f \in Fields
    PROVE  locks[b][a][f] \in Int
  <1>1. locks[b][a] \in Histories
    BY DEF ChainTyped
  <1> QED
    BY <1>1, SnapshotAssumption DEF Histories, Never, ChainTyped, Fields

LEMMA RequestedBranch == Requested \in Branches /\ Agrees(Requested)
  BY DEF Requested, Branches, Agrees

(* Branches that share a prefix of their histories agree on its blocks. *)
LEMMA SharedAgrees ==
    ASSUME ChainTyped, fork >= Pin,
           \A a \in Accounts : Shared(locks["main"][a]) = Shared(locks["side"][a])
    PROVE  \A b \in Branches : Agrees(b)
  <1> SUFFICES ASSUME NEW a \in Accounts, NEW f \in Fields, NEW n \in 0..Pin
               PROVE  locks["side"][a][f] = n <=> locks["main"][a][f] = n
    BY DEF Agrees, Branches, Requested
  <1>1. fork \in Int /\ n \in Int /\ n >= 0 /\ n <= fork
    BY SnapshotAssumption DEF ChainTyped
  <1>2. Shared(locks["main"][a]) = Shared(locks["side"][a])
    OBVIOUS
  <1>3. locks["main"][a][f] \in Int /\ locks["side"][a][f] \in Int
    BY HistoryField DEF Branches
  <1>4. CASE f = "created"
    BY <1>1, <1>2, <1>3, <1>4 DEF Shared, Never
  <1>5. CASE f = "withdrawn"
    BY <1>1, <1>2, <1>3, <1>5 DEF Shared, Never
  <1> QED
    BY <1>4, <1>5 DEF Fields

(* Reads of the vault at the pin agree where the histories do. *)
LEMMA ReadsAgree ==
    ASSUME ChainTyped, NEW b \in Branches, Agrees(b), NEW a \in Accounts
    PROVE  /\ CountAt(b, a) = CountAt(Requested, a)
           /\ WeightAt(b, a) = WeightAt(Requested, a)
  <1>1. \A f \in Fields : locks[b][a][f] \in 0..Pin <=> locks[Requested][a][f] \in 0..Pin
    BY DEF Agrees
  <1>2. locks[b][a]["created"] \in 0..Pin <=> locks[Requested][a]["created"] \in 0..Pin
    BY <1>1 DEF Fields
  <1>3. locks[b][a]["withdrawn"] \in 0..Pin <=> locks[Requested][a]["withdrawn"] \in 0..Pin
    BY <1>1 DEF Fields
  <1>4. locks[b][a]["created"] \in 0..Pin =>
          locks[b][a]["created"] = locks[Requested][a]["created"]
    BY DEF Agrees, Fields
  <1> QED
    BY <1>2, <1>3, <1>4 DEF CountAt, WeightAt

(* A window of a trusted endpoint is the requested history's. *)
LEMMA LogsInRight ==
    ASSUME ChainTyped, Trusted(LogsEndpoint), NEW f \in Fields,
           NEW lo \in Int, NEW hi \in Int, lo >= from, hi <= Pin
    PROVE  LogsIn(lo, hi, f) =
             {[account |-> a, block |-> locks[Requested][a][f]] :
                a \in {x \in Accounts : locks[Requested][x][f] \in lo..hi}}
  <1> DEFINE b == branch[LogsEndpoint]
             Theirs == {x \in Accounts : /\ locks[b][x][f] \in lo..hi
                                         /\ HasBlock(LogsEndpoint, locks[b][x][f])}
             Ours == {x \in Accounts : locks[Requested][x][f] \in lo..hi}
  <1>1. LogsEndpoint \in Endpoints /\ b \in Branches
    BY DEF ChainTyped, LogsEndpoint, Endpoints
  <1>2. head[LogsEndpoint] \in Nat /\ head[LogsEndpoint] >= Pin
    BY <1>1 DEF ChainTyped, Trusted
  <1>3. \A x \in Accounts, n \in 0..Pin :
           locks[b][x][f] = n <=> locks[Requested][x][f] = n
    BY DEF Trusted, Agrees
  <1>4. \A n \in lo..hi : n \in 0..Pin
    BY SnapshotAssumption DEF ChainTyped
  <1>5. \A x \in Accounts : x \in Theirs <=> x \in Ours
    <2> SUFFICES ASSUME NEW x \in Accounts PROVE x \in Theirs <=> x \in Ours
      OBVIOUS
    <2>1. ASSUME x \in Theirs PROVE x \in Ours
      BY <2>1, <1>3, <1>4
    <2>2. ASSUME x \in Ours PROVE x \in Theirs
      <3>1. locks[b][x][f] = locks[Requested][x][f] /\ locks[Requested][x][f] \in lo..hi
        BY <2>2, <1>3, <1>4
      <3>2. HasBlock(LogsEndpoint, locks[b][x][f])
        BY <3>1, <1>2, SnapshotAssumption DEF HasBlock
      <3> QED
        BY <3>1, <3>2
    <2> QED
      BY <2>1, <2>2
  <1>6. Theirs = Ours
    BY <1>5
  <1>7. \A x \in Ours : locks[b][x][f] = locks[Requested][x][f]
    BY <1>3, <1>4
  <1>8. LogsIn(lo, hi, f) = {[account |-> a, block |-> locks[b][a][f]] : a \in Theirs}
    BY DEF LogsIn
  <1> HIDE DEF Theirs, Ours, b
  <1>9. LogsIn(lo, hi, f) = {[account |-> a, block |-> locks[Requested][a][f]] : a \in Ours}
    BY <1>6, <1>7, <1>8
  <1> QED
    BY <1>9 DEF Ours

(* A window that starts where the scan stands adds the records up to its   *)
(* end.                                                                    *)
LEMMA WindowScanned ==
    ASSUME ChainTyped, Trusted(LogsEndpoint), NEW f \in Fields,
           progress \in Int, progress >= from, progress <= Pin
    PROVE  /\ Scanned(f, progress) \cup LogsIn(progress, WindowEnd, f) = Scanned(f, NextWindow)
           /\ NextWindow \in Int /\ NextWindow >= from
  <1>1. Pin \in Int /\ LOG_CHUNK \in Nat /\ from \in Int
    BY SnapshotAssumption DEF ChainTyped
  <1>2. WindowEnd \in Int /\ WindowEnd <= Pin /\ NextWindow \in Int /\ NextWindow >= from
    BY <1>1 DEF WindowEnd, NextWindow
  <1> DEFINE Block(a) == locks[Requested][a][f]
             Before == {x \in Accounts : /\ Block(x) \in 0..Pin
                                         /\ Block(x) >= from
                                         /\ Block(x) < progress}
             Inside == {x \in Accounts : Block(x) \in progress..WindowEnd}
             After == {x \in Accounts : /\ Block(x) \in 0..Pin
                                        /\ Block(x) >= from
                                        /\ Block(x) < NextWindow}
             Record(a) == [account |-> a, block |-> Block(a)]
  <1>3. LogsIn(progress, WindowEnd, f) = {Record(a) : a \in Inside}
    BY <1>2, LogsInRight
  <1>4. Before \cup Inside = After
    <2>1. \A x \in Accounts : Block(x) \in Int
      BY HistoryField, RequestedBranch
    <2>2. \A x \in Accounts : x \in Before \cup Inside <=> x \in After
      <3> SUFFICES ASSUME NEW x \in Accounts
                   PROVE  x \in Before \cup Inside <=> x \in After
        OBVIOUS
      <3>1. Block(x) \in Int
        BY <2>1
      <3>2. from >= 0
        BY SnapshotAssumption DEF ChainTyped
      <3> QED
        BY <3>1, <3>2, <1>1 DEF WindowEnd, NextWindow
    <2> QED
      BY <2>2
  <1>5. {Record(a) : a \in Before} \cup {Record(a) : a \in Inside}
          = {Record(a) : a \in Before \cup Inside}
    OBVIOUS
  <1>6. /\ Scanned(f, progress) = {Record(a) : a \in Before}
        /\ Scanned(f, NextWindow) = {Record(a) : a \in After}
    BY DEF Scanned
  <1> HIDE DEF Before, Inside, After, Record
  <1> QED
    BY <1>2, <1>3, <1>4, <1>5, <1>6

(* Before the scan there is nothing; after it every record up to the pin,  *)
(* since the vault has no code before its first block.                     *)
LEMMA ScanEnds ==
    ASSUME ChainTyped, NEW f \in Fields
    PROVE  /\ Scanned(f, from) = {}
           /\ \A n \in Int : n > Pin /\ Covered => Scanned(f, n) = RecordsOf(f)
  <1>1. \A x \in Accounts : locks[Requested][x][f] \in Int
    BY HistoryField, RequestedBranch
  <1>2. from \in Int /\ from >= 0 /\ deployed \in Int /\ Pin \in Int
    BY SnapshotAssumption DEF ChainTyped
  <1>3. Scanned(f, from) = {}
    BY <1>1, <1>2 DEF Scanned
  <1>4. ASSUME NEW n \in Int, n > Pin, Covered
        PROVE  Scanned(f, n) = RecordsOf(f)
    <2>1. from = 0 \/ from <= deployed
      BY <1>2, <1>4 DEF Covered, VaultHasCodeAt
    <2>2. \A x \in Accounts : locks[Requested][x][f] \in 0..Pin => locks[Requested][x][f] >= from
      <3> SUFFICES ASSUME NEW x \in Accounts, locks[Requested][x][f] \in 0..Pin
                   PROVE  locks[Requested][x][f] >= from
        OBVIOUS
      <3>1. locks[Requested][x] \in Histories
        BY RequestedBranch DEF ChainTyped
      <3>2. /\ locks[Requested][x]["created"] \in Int
            /\ locks[Requested][x]["withdrawn"] \in Int
        BY HistoryField, RequestedBranch DEF Fields
      <3>3. \/ locks[Requested][x] = [created |-> Never, withdrawn |-> Never]
            \/ /\ locks[Requested][x]["created"] >= deployed
               /\ \/ locks[Requested][x]["withdrawn"] = Never
                  \/ locks[Requested][x]["created"] < locks[Requested][x]["withdrawn"]
        BY <3>1, <1>2, SnapshotAssumption DEF Histories
      <3>4. CASE f = "created"
        BY <2>1, <3>2, <3>3, <3>4, <1>2 DEF Never
      <3>5. CASE f = "withdrawn"
        BY <2>1, <3>2, <3>3, <3>5, <1>2 DEF Never
      <3> QED
        BY <3>4, <3>5 DEF Fields
    <2>3. \A x \in Accounts : locks[Requested][x][f] \in 0..Pin => locks[Requested][x][f] < n
      BY <1>2, <1>4
    <2> QED
      BY <2>2, <2>3 DEF Scanned, RecordsOf
  <1> QED
    BY <1>3, <1>4

----------------------------------------------------------------------------
LEMMA SnapInvInit == SnapInit => SnapInv
  <1> SUFFICES ASSUME SnapInit PROVE SnapInv
    OBVIOUS
  <1> USE DEF SnapInit
  <1>1. ChainTyped
    BY SnapshotAssumption DEF ChainTyped
  <1>2. ForkAbovePin
    BY <1>1, SharedAgrees DEF ForkAbovePin
  <1>3. ChecksHold
    BY DEF ChecksHold, Early, Scans, Late
  <1>4. RecordsRight
    BY DEF RecordsRight, Early, Scans, Late
  <1>5. ReadingsRight
    BY DEF ReadingsRight, Early, Scans, Late
  <1> QED
    BY <1>1, <1>2, <1>3, <1>4, <1>5 DEF SnapInv

(* What only the chain decides stays as it is during a step of the run. *)
LEMMA ChainStays ==
    ASSUME ChainTyped, ForkAbovePin, UNCHANGED <<chainVars, reqVars>>
    PROVE  /\ ChainTyped' /\ ForkAbovePin'
           /\ \A e \in Endpoints : Trusted(e)' <=> Trusted(e)
           /\ Covered' <=> Covered
           /\ LogsEndpoint' = LogsEndpoint
           /\ \A f \in Fields, n \in Int : Scanned(f, n)' = Scanned(f, n)
           /\ \A f \in Fields : RecordsOf(f)' = RecordsOf(f)
           /\ \A a : CountAt(Requested, a)' = CountAt(Requested, a)
           /\ \A a : WeightAt(Requested, a)' = WeightAt(Requested, a)
  <1> USE DEF chainVars, reqVars
  <1>1. ChainTyped'
    BY DEF ChainTyped, Histories
  <1>2. ForkAbovePin'
    BY DEF ForkAbovePin, Agrees
  <1>3. \A e \in Endpoints : Trusted(e)' <=> Trusted(e)
    BY DEF Trusted, Agrees
  <1>4. (Covered' <=> Covered) /\ LogsEndpoint' = LogsEndpoint
    BY DEF Covered, VaultHasCodeAt, LogsEndpoint
  <1>5. \A f \in Fields, n \in Int : Scanned(f, n)' = Scanned(f, n)
    BY DEF Scanned
  <1>6. \A f \in Fields : RecordsOf(f)' = RecordsOf(f)
    BY DEF RecordsOf
  <1>7. \A a : CountAt(Requested, a)' = CountAt(Requested, a)
    BY DEF CountAt
  <1>8. \A a : WeightAt(Requested, a)' = WeightAt(Requested, a)
    BY DEF WeightAt
  <1> QED
    BY <1>1, <1>2, <1>3, <1>4, <1>5, <1>6, <1>7, <1>8


LEMMA ChecksKeep ==
    ASSUME SnapInv, ReadHeader \/ CheckSynced \/ CheckCoverage \/ CheckDeployed \/ VerifyLogsEndpoint
    PROVE  SnapInv'
  <1> USE DEF SnapInv
  <1>1. step \in Early /\ step' \in Early \cup {"scan-created"} /\ step' # "header"
    BY DEF ReadHeader, CheckSynced, CheckCoverage, CheckDeployed, VerifyLogsEndpoint, At, GoTo, Early
  <1>2. UNCHANGED <<chainVars, reqVars>> /\ UNCHANGED <<created, withdrawn, count, weight>>
    BY DEF ReadHeader, CheckSynced, CheckCoverage, CheckDeployed, VerifyLogsEndpoint, At, GoTo
  <1>3. /\ ChainTyped' /\ ForkAbovePin'
        /\ \A e \in Endpoints : Trusted(e)' <=> Trusted(e)
        /\ Covered' <=> Covered
        /\ LogsEndpoint' = LogsEndpoint
    BY <1>2, ChainStays
  <1>4. Trusted("archive")
    <2>1. CASE ReadHeader
      <3>1. head["archive"] \in Nat /\ head["archive"] >= Pin
        BY <2>1, SnapshotAssumption DEF ReadHeader, HasBlock, ChainTyped, Endpoints
      <3>2. branch["archive"] \in Branches
        BY DEF ChainTyped, Endpoints
      <3>3. fork \in Int /\ Pin \in Int
        BY SnapshotAssumption DEF ChainTyped
      <3>4. CASE Pin <= fork
        BY <3>1, <3>2, <3>3, <3>4 DEF Trusted, ForkAbovePin
      <3>5. CASE ~(Pin <= fork)
        BY <2>1, <3>1, <3>5, RequestedBranch DEF ReadHeader, BlockHash, ExpectedHash, Trusted
      <3> QED
        BY <3>4, <3>5
    <2>2. CASE ~ReadHeader
      BY <2>2 DEF CheckSynced, CheckCoverage, CheckDeployed, VerifyLogsEndpoint, At, ChecksHold
    <2> QED
      BY <2>1, <2>2
  <1>5. step' \in Scans => Trusted(LogsEndpoint)
    <2> SUFFICES ASSUME step' \in Scans PROVE Trusted(LogsEndpoint)
      OBVIOUS
    <2>1. VerifyLogsEndpoint
      BY DEF Scans, ReadHeader, CheckSynced, CheckCoverage, CheckDeployed, GoTo
    <2>2. CASE oneClient
      BY <1>4, <2>2 DEF LogsEndpoint
    <2>3. CASE ~oneClient
      <3>1. /\ HasBlock("logs", Pin)
            /\ BlockHash("archive", Pin) = BlockHash("logs", Pin)
        BY <2>1, <2>3 DEF VerifyLogsEndpoint
      <3>2. head["logs"] >= Pin
        BY <3>1, SnapshotAssumption DEF HasBlock, ChainTyped, Endpoints
      <3>3. branch["logs"] \in Branches /\ fork \in Int /\ Pin \in Int
        BY SnapshotAssumption DEF ChainTyped, Endpoints
      <3>4. CASE Pin <= fork
        BY <2>3, <3>2, <3>3, <3>4 DEF Trusted, ForkAbovePin, LogsEndpoint
      <3>5. CASE ~(Pin <= fork)
        BY <1>4, <2>3, <3>1, <3>2, <3>5 DEF Trusted, BlockHash, LogsEndpoint
      <3> QED
        BY <3>4, <3>5
    <2> QED
      BY <2>2, <2>3
  <1>6. step' \in {"deployed", "verify"} \cup Scans => Covered
    BY DEF ReadHeader, CheckSynced, CheckCoverage, CheckDeployed, VerifyLogsEndpoint, At, GoTo,
           ChecksHold, Scans
  <1>7. ChecksHold'
    <2>1. LogsEndpoint \in Endpoints /\ "archive" \in Endpoints
      BY DEF LogsEndpoint, Endpoints
    <2>2. (step \in Early \cup Scans \cup Late \cup {"failed"})'
      BY <1>1 DEF Scans
    <2> QED
      BY <1>1, <1>3, <1>4, <1>5, <1>6, <2>1, <2>2 DEF ChecksHold
  <1>8. RecordsRight'
    <2>1. created = {} /\ withdrawn = {} /\ created' = {} /\ withdrawn' = {}
      BY <1>1, <1>2 DEF RecordsRight
    <2>2. CASE VerifyLogsEndpoint
      <3>1. progress' = from /\ step' = "scan-created" /\ from' = from
        BY <2>2, <1>2 DEF VerifyLogsEndpoint, reqVars
      <3>2. from \in Int /\ from >= from
        BY SnapshotAssumption DEF ChainTyped
      <3>3. Scanned("created", from)' = {}
        BY <1>3, <3>1, <3>2, <1>2, ChainStays, ScanEnds DEF Fields
      <3>4. Scanned("created", progress)' = {}
        BY <3>1, <3>3
      <3> QED
        BY <2>1, <3>1, <3>2, <3>4 DEF RecordsRight, Early, Scans, Late
    <2>3. CASE ~VerifyLogsEndpoint
      <3>1. step' \in Early /\ progress' = progress
        BY <2>3 DEF ReadHeader, CheckSynced, CheckCoverage, CheckDeployed, GoTo, Early
      <3> QED
        BY <2>1, <3>1 DEF RecordsRight, Early, Scans, Late
    <2> QED
      BY <2>2, <2>3
  <1>9. ReadingsRight'
    BY <1>1, <1>2 DEF ReadingsRight, Early, Scans
  <1> QED
    BY <1>3, <1>7, <1>8, <1>9

(* The two scans and the steps between and after them. *)
LEMMA ScansKeep ==
    ASSUME SnapInv, ScanCreated \/ CreatedScanned \/ ScanWithdrawn \/ WithdrawnScanned
    PROVE  SnapInv'
  <1> USE DEF SnapInv
  <1>1. /\ UNCHANGED <<chainVars, reqVars>> /\ UNCHANGED <<count, weight>>
        /\ step \in Scans /\ step' \in Scans \cup {"weigh"}
    BY DEF ScanCreated, CreatedScanned, ScanWithdrawn, WithdrawnScanned, At, GoTo, Scans
  <1>2. /\ ChainTyped' /\ ForkAbovePin'
        /\ \A e \in Endpoints : Trusted(e)' <=> Trusted(e)
        /\ Covered' <=> Covered
        /\ LogsEndpoint' = LogsEndpoint
        /\ \A f \in Fields, n \in Int : Scanned(f, n)' = Scanned(f, n)
        /\ \A f \in Fields : RecordsOf(f)' = RecordsOf(f)
    BY <1>1, ChainStays
  <1>3. "created" \in Fields /\ "withdrawn" \in Fields
    BY DEF Fields
  <1>4. /\ Trusted("archive") /\ Trusted(LogsEndpoint) /\ Covered
        /\ progress \in Int /\ progress >= from
    BY <1>1 DEF ChecksHold, RecordsRight, Scans
  <1>5. Pin \in Int /\ from \in Int /\ from' = from
    BY <1>1, SnapshotAssumption DEF ChainTyped, reqVars
  <1>6. ChecksHold'
    <2>1. LogsEndpoint \in Endpoints /\ "archive" \in Endpoints
      BY DEF LogsEndpoint, Endpoints
    <2> QED
      BY <1>1, <1>2, <1>4, <2>1 DEF ChecksHold, Scans, Late
  <1>7. RecordsRight'
    <2>1. CASE ScanCreated
      <3>1. /\ step = "scan-created" /\ step' = "scan-created" /\ progress <= Pin
            /\ created' = created \cup LogsIn(progress, WindowEnd, "created")
            /\ progress' = NextWindow /\ withdrawn' = withdrawn
        BY <2>1 DEF ScanCreated, At
      <3>2. created = Scanned("created", progress) /\ withdrawn = {}
        BY <3>1 DEF RecordsRight
      <3>3. created' = Scanned("created", NextWindow) /\ NextWindow \in Int /\ NextWindow >= from
        BY <1>3, <1>4, <3>1, <3>2, WindowScanned
      <3>4. created' = Scanned("created", progress)'
        <4>1. Scanned("created", NextWindow) = Scanned("created", progress)'
          BY <1>1, <3>1 DEF Scanned, chainVars, reqVars
        <4> QED
          BY <3>3, <4>1
      <3> QED
        BY <1>5, <3>1, <3>2, <3>3, <3>4 DEF RecordsRight, Early, Scans, Late
    <2>2. CASE CreatedScanned
      <3>1. /\ step = "scan-created" /\ step' = "scan-withdrawn" /\ progress > Pin
            /\ progress' = from /\ created' = created /\ withdrawn' = withdrawn
        BY <2>2 DEF CreatedScanned, At
      <3>2. created = Scanned("created", progress) /\ withdrawn = {}
        BY <3>1 DEF RecordsRight
      <3>3. created' = RecordsOf("created")'
        BY <1>2, <1>3, <1>4, <3>1, <3>2, ScanEnds
      <3>4. Scanned("withdrawn", progress)' = {}
        <4>1. Scanned("withdrawn", from) = Scanned("withdrawn", progress)'
          BY <1>1, <3>1 DEF Scanned, chainVars, reqVars
        <4> QED
          BY <1>3, <4>1, ScanEnds
      <3> QED
        BY <1>5, <3>1, <3>2, <3>3, <3>4 DEF RecordsRight, Early, Scans, Late
    <2>3. CASE ScanWithdrawn
      <3>1. /\ step = "scan-withdrawn" /\ step' = "scan-withdrawn" /\ progress <= Pin
            /\ withdrawn' = withdrawn \cup LogsIn(progress, WindowEnd, "withdrawn")
            /\ progress' = NextWindow /\ created' = created
        BY <2>3 DEF ScanWithdrawn, At
      <3>2. withdrawn = Scanned("withdrawn", progress) /\ created = RecordsOf("created")
        BY <3>1 DEF RecordsRight
      <3>3. withdrawn' = Scanned("withdrawn", NextWindow) /\ NextWindow \in Int /\ NextWindow >= from
        BY <1>3, <1>4, <3>1, <3>2, WindowScanned
      <3>4. withdrawn' = Scanned("withdrawn", progress)'
        <4>1. Scanned("withdrawn", NextWindow) = Scanned("withdrawn", progress)'
          BY <1>1, <3>1 DEF Scanned, chainVars, reqVars
        <4> QED
          BY <3>3, <4>1
      <3> QED
        BY <1>2, <1>3, <1>5, <3>1, <3>2, <3>3, <3>4 DEF RecordsRight, Early, Scans, Late
    <2>4. CASE WithdrawnScanned
      <3>1. /\ step = "scan-withdrawn" /\ step' = "weigh" /\ progress > Pin
            /\ progress' = progress /\ created' = created /\ withdrawn' = withdrawn
        BY <2>4 DEF WithdrawnScanned, At, GoTo
      <3>2. withdrawn = Scanned("withdrawn", progress) /\ created = RecordsOf("created")
        BY <3>1 DEF RecordsRight
      <3>3. withdrawn' = RecordsOf("withdrawn")' /\ created' = RecordsOf("created")'
        BY <1>2, <1>3, <1>4, <3>1, <3>2, ScanEnds
      <3> QED
        BY <1>4, <3>1, <3>3 DEF RecordsRight, Early, Scans, Late
    <2> QED
      BY <2>1, <2>2, <2>3, <2>4
  <1>8. ReadingsRight'
    <2>1. DOMAIN count = {} /\ DOMAIN weight = {} /\ count' = count /\ weight' = weight
      BY <1>1 DEF ReadingsRight
    <2> QED
      BY <1>1, <2>1 DEF ReadingsRight, Scans
  <1> QED
    BY <1>2, <1>6, <1>7, <1>8

(* The two reads of an account and the end of the run. *)
LEMMA ReadsKeep ==
    ASSUME SnapInv, (\E a \in Accounts : ReadLockCount(a) \/ ReadWeight(a)) \/ Finish
    PROVE  SnapInv'
  <1> USE DEF SnapInv
  <1>1. /\ UNCHANGED <<chainVars, reqVars>>
        /\ UNCHANGED <<verified, progress, created, withdrawn>>
        /\ step = "weigh" /\ step' \in Late
    BY DEF ReadLockCount, ReadWeight, Finish, At, GoTo, Late
  <1>2. /\ ChainTyped' /\ ForkAbovePin'
        /\ \A e \in Endpoints : Trusted(e)' <=> Trusted(e)
        /\ \A f \in Fields : RecordsOf(f)' = RecordsOf(f)
        /\ \A x : CountAt(Requested, x)' = CountAt(Requested, x)
        /\ \A x : WeightAt(Requested, x)' = WeightAt(Requested, x)
    BY <1>1, ChainStays
  <1>3. Trusted("archive") /\ branch["archive"] \in Branches
    BY <1>1 DEF ChecksHold, ChainTyped, Endpoints
  <1>4. ChecksHold'
    BY <1>1, <1>2, <1>3 DEF ChecksHold, Scans, Late, Endpoints
  <1>5. RecordsRight'
    BY <1>1, <1>2 DEF RecordsRight, Early, Scans, Late, Fields
  <1>6. ReadingsRight'
    <2>1. /\ DOMAIN weight \subseteq DOMAIN count
          /\ \A x \in DOMAIN count : count[x] = CountAt(Requested, x)
          /\ \A x \in DOMAIN weight : weight[x] = WeightAt(Requested, x)
      BY DEF ReadingsRight
    <2>2. ASSUME NEW a \in Accounts, ReadLockCount(a)
          PROVE  ReadingsRight'
      <3>1. CountAt(branch["archive"], a) = CountAt(Requested, a)
        BY <1>3, ReadsAgree DEF Trusted
      <3>2. /\ count' = [x \in DOMAIN count \cup {a} |->
                            IF x = a THEN CountAt(branch["archive"], a) ELSE count[x]]
            /\ weight' = weight /\ step' = step
        BY <2>2 DEF ReadLockCount
      <3>3. DOMAIN count' = DOMAIN count \cup {a}
        BY <3>2
      <3>4. \A x \in DOMAIN count' : count'[x] = CountAt(Requested, x)
        BY <2>1, <3>1, <3>2
      <3> QED
        BY <1>1, <1>2, <2>1, <3>2, <3>3, <3>4 DEF ReadingsRight, Early, Scans
    <2>3. ASSUME NEW a \in Accounts, ReadWeight(a)
          PROVE  ReadingsRight'
      <3>1. WeightAt(branch["archive"], a) = WeightAt(Requested, a)
        BY <1>3, ReadsAgree DEF Trusted
      <3>2. /\ a \in DOMAIN count
            /\ weight' = [x \in DOMAIN weight \cup {a} |->
                            IF x # a THEN weight[x]
                            ELSE IF count[a] = 0 THEN 0
                            ELSE WeightAt(branch["archive"], a)]
            /\ count' = count /\ step' = step
        BY <2>3 DEF ReadWeight
      <3>3. count[a] = 0 => WeightAt(Requested, a) = 0
        BY <2>1, <3>2 DEF CountAt, WeightAt
      <3>4. DOMAIN weight' = DOMAIN weight \cup {a}
        BY <3>2
      <3>5. \A x \in DOMAIN weight' : weight'[x] = WeightAt(Requested, x)
        BY <2>1, <3>1, <3>2, <3>3
      <3> QED
        BY <1>1, <1>2, <2>1, <3>2, <3>4, <3>5 DEF ReadingsRight, Early, Scans
    <2>4. CASE Finish
      <3>1. /\ DOMAIN weight = Candidates
            /\ count' = count /\ weight' = weight /\ step' = "done"
        BY <2>4 DEF Finish, GoTo
      <3>2. Candidates' = Candidates
        BY <1>1 DEF Candidates
      <3> QED
        BY <1>2, <2>1, <3>1, <3>2 DEF ReadingsRight, Early, Scans
    <2> QED
      BY <2>2, <2>3, <2>4
  <1> QED
    BY <1>2, <1>4, <1>5, <1>6

LEMMA ThrowsKeeps ==
    ASSUME SnapInv, Throws
    PROVE  SnapInv'
  <1> USE DEF SnapInv
  <1>1. /\ UNCHANGED <<chainVars, reqVars>> /\ step' = "failed"
        /\ UNCHANGED <<progress, created, withdrawn, count, weight>>
    BY DEF Throws, GoTo
  <1>2. /\ ChainTyped' /\ ForkAbovePin'
        /\ \A x : CountAt(Requested, x)' = CountAt(Requested, x)
        /\ \A x : WeightAt(Requested, x)' = WeightAt(Requested, x)
    BY <1>1, ChainStays
  <1>3. ChecksHold' /\ RecordsRight'
    BY <1>1 DEF ChecksHold, RecordsRight, Early, Scans, Late
  <1>4. ReadingsRight'
    BY <1>1, <1>2 DEF ReadingsRight, Early, Scans
  <1> QED
    BY <1>2, <1>3, <1>4

(* A new block, or a change of branch above the pin, leaves an endpoint    *)
(* what it was trusted for.                                                *)
LEMMA ChainMovesKeep ==
    ASSUME ~DeepReorgs, SnapInv, NewBlock \/ Reorg
    PROVE  SnapInv'
  <1> USE DEF SnapInv
  <1>1. UNCHANGED <<fork, deployed, locks, reqVars, runVars>>
    BY DEF NewBlock, Reorg
  <1>2. /\ ChainTyped'
        /\ \A e \in Endpoints : Trusted(e) => Trusted(e)'
    <2>1. CASE NewBlock
      <3>1. PICK e \in Endpoints : head' = [head EXCEPT ![e] = @ + 1]
        BY <2>1 DEF NewBlock
      <3>2. head' \in [Endpoints -> Nat] /\ \A d \in Endpoints : head'[d] >= head[d]
        BY <3>1 DEF ChainTyped
      <3>3. branch' = branch
        BY <2>1 DEF NewBlock
      <3>4. ChainTyped'
        BY <1>1, <3>2, <3>3 DEF ChainTyped, Histories, reqVars
      <3>5. \A d \in Endpoints : Trusted(d) => Trusted(d)'
        <4>1. \A d \in Endpoints : head[d] >= Pin => head'[d] >= Pin
          BY <3>2, SnapshotAssumption DEF ChainTyped
        <4> QED
          BY <1>1, <3>3, <4>1 DEF Trusted, Agrees
      <3> QED
        BY <3>4, <3>5
    <2>2. CASE Reorg
      <3>1. PICK e \in Endpoints : branch' = [branch EXCEPT ![e] = Other(@)]
        BY <2>2 DEF Reorg
      <3>2. \A b \in Branches : Other(b) \in Branches
        BY DEF Other, Branches
      <3>3. branch' \in [Endpoints -> Branches] /\ head' = head
        BY <2>2, <3>1, <3>2 DEF ChainTyped, Reorg
      <3>4. ChainTyped'
        BY <1>1, <3>3 DEF ChainTyped, Histories, reqVars
      <3>5. \A b \in Branches : Agrees(b)'
        BY <1>1, <2>2 DEF Reorg, ForkAbovePin, Agrees
      <3>6. \A d \in Endpoints : Trusted(d) => Trusted(d)'
        <4> SUFFICES ASSUME NEW d \in Endpoints, Trusted(d) PROVE Trusted(d)'
          OBVIOUS
        <4>1. branch'[d] \in Branches
          BY <3>3
        <4> QED
          BY <3>3, <3>5, <4>1 DEF Trusted, Agrees
      <3> QED
        BY <3>4, <3>6
    <2> QED
      BY <2>1, <2>2
  <1>3. ForkAbovePin'
    BY <1>1 DEF ForkAbovePin, Agrees
  <1>4. ChecksHold'
    <2>1. LogsEndpoint \in Endpoints /\ "archive" \in Endpoints /\ LogsEndpoint' = LogsEndpoint
      BY <1>1 DEF LogsEndpoint, Endpoints, reqVars
    <2>2. Covered' <=> Covered
      BY <1>1 DEF Covered, VaultHasCodeAt, reqVars
    <2>3. step' = step
      BY <1>1 DEF runVars
    <2> QED
      BY <1>2, <2>1, <2>2, <2>3 DEF ChecksHold
  <1>5. RecordsRight'
    BY <1>1 DEF RecordsRight, Scanned, RecordsOf, runVars, reqVars
  <1>6. ReadingsRight'
    BY <1>1 DEF ReadingsRight, CountAt, WeightAt, Candidates, runVars
  <1> QED
    BY <1>2, <1>3, <1>4, <1>5, <1>6

LEMMA SnapStutter ==
    ASSUME SnapInv, UNCHANGED snapVars
    PROVE  SnapInv'
  <1> USE DEF SnapInv, snapVars
  <1>1. /\ ChainTyped' /\ ForkAbovePin'
        /\ \A e \in Endpoints : Trusted(e)' <=> Trusted(e)
        /\ Covered' <=> Covered
        /\ LogsEndpoint' = LogsEndpoint
        /\ \A x : CountAt(Requested, x)' = CountAt(Requested, x)
        /\ \A x : WeightAt(Requested, x)' = WeightAt(Requested, x)
    BY ChainStays
  <1>2. ChecksHold'
    BY <1>1 DEF ChecksHold, LogsEndpoint, Endpoints, runVars
  <1>3. RecordsRight'
    BY DEF RecordsRight, Scanned, RecordsOf, runVars, chainVars, reqVars
  <1>4. ReadingsRight'
    BY <1>1 DEF ReadingsRight, Candidates, runVars
  <1> QED
    BY <1>1, <1>2, <1>3, <1>4

LEMMA SnapInvStep ==
    ASSUME ~DeepReorgs, SnapInv, [SnapNext]_snapVars
    PROVE  SnapInv'
  BY ChecksKeep, ScansKeep, ReadsKeep, ThrowsKeeps, ChainMovesKeep, SnapStutter DEF SnapNext

(* A produced snapshot has exactly the wallets with weight. *)
LEMMA SnapInvImplies == SnapInv => SnapshotIsPinnedState
  <1> SUFFICES ASSUME SnapInv, step = "done"
               PROVE  /\ Participants = {a \in Accounts : WeightAt(Requested, a) > 0}
                      /\ \A a \in Participants : weight[a] = WeightAt(Requested, a)
                      /\ created = RecordsOf("created")
                      /\ withdrawn = RecordsOf("withdrawn")
    BY DEF SnapshotIsPinnedState
  <1> USE DEF SnapInv
  <1>1. created = RecordsOf("created") /\ withdrawn = RecordsOf("withdrawn")
    BY DEF RecordsRight, Late
  <1>2. Candidates = {a \in Accounts : locks[Requested][a]["created"] \in 0..Pin}
    <2>1. \A x : x \in Candidates <=>
             x \in Accounts /\ locks[Requested][x]["created"] \in 0..Pin
      <3> SUFFICES ASSUME NEW x
                   PROVE  x \in Candidates <=>
                            x \in Accounts /\ locks[Requested][x]["created"] \in 0..Pin
        OBVIOUS
      <3>1. \A n \in 0..Pin : n <= Pin
        BY SnapshotAssumption
      <3>2. ASSUME x \in Candidates
            PROVE  x \in Accounts /\ locks[Requested][x]["created"] \in 0..Pin
        BY <1>1, <3>2 DEF Candidates, RecordsOf
      <3>3. ASSUME x \in Accounts, locks[Requested][x]["created"] \in 0..Pin
            PROVE  x \in Candidates
        <4> DEFINE r == [account |-> x, block |-> locks[Requested][x]["created"]]
        <4>1. r \in created /\ r.block <= Pin /\ r.account = x
          BY <1>1, <3>1, <3>3 DEF RecordsOf
        <4> HIDE DEF r
        <4> QED
          BY <4>1 DEF Candidates
      <3> QED
        BY <3>2, <3>3
    <2> QED
      BY <2>1
  <1>3. /\ DOMAIN weight = Candidates
        /\ \A a \in DOMAIN weight : weight[a] = WeightAt(Requested, a)
    BY DEF ReadingsRight
  <1>4. \A a : WeightAt(Requested, a) > 0 => locks[Requested][a]["created"] \in 0..Pin
    BY DEF WeightAt
  <1>5. Participants = {a \in Accounts : WeightAt(Requested, a) > 0}
    BY <1>2, <1>3, <1>4 DEF Participants
  <1> QED
    BY <1>1, <1>3, <1>5 DEF Participants

(* A snapshot that is produced describes the block it was asked for, for   *)
(* any accounts, histories, windows and lag of the endpoints, provided     *)
(* that the pinned block itself is final: each check of the run holds for  *)
(* the requests that follow it.                                            *)
THEOREM SnapshotPinned ==
    ASSUME ~DeepReorgs
    PROVE  SnapSpec => []SnapshotIsPinnedState
  <1>1. SnapInit => SnapInv
    BY SnapInvInit
  <1>2. SnapInv /\ [SnapNext]_snapVars => SnapInv'
    BY SnapInvStep
  <1>3. SnapInv => SnapshotIsPinnedState
    BY SnapInvImplies
  <1> QED
    BY <1>1, <1>2, <1>3, PTL DEF SnapSpec
=============================================================================
