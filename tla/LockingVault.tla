---------------------------- MODULE LockingVault ----------------------------
(***************************************************************************)
(* BPSLockingVault.sol: BPS locked for one of four fixed terms, the reward *)
(* weight a position has at every instant, withdrawal at maturity, and the *)
(* one-way emergency exit.                                                 *)
(***************************************************************************)
EXTENDS Chain, Ownable, FiniteSets, Functions

CONSTANTS
    DURATION_7D, DURATION_14D, DURATION_21D, DURATION_30D,
                       \* the frozen terms, in ticks: only their order matters
    Holders,           \* the callers that lock BPS
    LockAmounts,       \* amounts in calls
    LockDurations,     \* durations in calls, valid or not
    MaxLocks,          \* bound on the locks of one account
    deployer           \* initialOwner

LockIds == 0 .. (MaxLocks - 1)

ASSUME LockAssumption ==
    /\ DURATION_7D \in Nat /\ 0 < DURATION_7D
    /\ DURATION_14D \in Nat /\ DURATION_7D < DURATION_14D
    /\ DURATION_21D \in Nat /\ DURATION_14D < DURATION_21D
    /\ DURATION_30D \in Nat /\ DURATION_21D < DURATION_30D
    /\ Holders \subseteq Callers
    /\ IsFiniteSet(Holders)
    /\ LockAmounts \subseteq Nat
    /\ LockDurations \subseteq Nat
    /\ MaxLocks \in Nat
    /\ deployer \in Callers

BPS_DENOMINATOR == 10000
MULTIPLIER_UNLOCKED_BPS == 10000

VARIABLES
    lockCount,               \* lockCount[w]: the next lock id of w
    positions,               \* positions[w][id]
    lockedPrincipal,         \* lockedPrincipal[w]
    totalLockedPrincipal,
    emergencyExitEnabled,
    emergencyExitEnabledAt,
    vaultBps,                \* bpsToken.balanceOf(vault)
    returned                 \* returned[w]: what withdrawals have sent to w

lockVars == <<lockCount, positions, lockedPrincipal, totalLockedPrincipal,
              emergencyExitEnabled, emergencyExitEnabledAt, vaultBps, returned>>

LockPosition ==
    [principal : Nat, startTime : Nat, unlockTime : Nat, multiplierBps : Nat,
     withdrawnAt : Nat, exists : BOOLEAN, withdrawn : BOOLEAN]

NoPosition ==
    [principal |-> 0, startTime |-> 0, unlockTime |-> 0, multiplierBps |-> 0,
     withdrawnAt |-> 0, exists |-> FALSE, withdrawn |-> FALSE]

LockTypeOK ==
    /\ now \in Nat
    /\ OwnTypeOK
    /\ lockCount \in [Holders -> 0 .. MaxLocks]
    /\ positions \in [Holders -> [LockIds -> LockPosition]]
    /\ lockedPrincipal \in [Holders -> Nat]
    /\ totalLockedPrincipal \in Nat
    /\ emergencyExitEnabled \in BOOLEAN
    /\ emergencyExitEnabledAt \in Nat
    /\ vaultBps \in Nat
    /\ returned \in [Holders -> Nat]

LockInit ==
    /\ OwnInit(deployer)
    /\ lockCount = [w \in Holders |-> 0]
    /\ positions = [w \in Holders |-> [id \in LockIds |-> NoPosition]]
    /\ lockedPrincipal = [w \in Holders |-> 0]
    /\ totalLockedPrincipal = 0
    /\ emergencyExitEnabled = FALSE
    /\ emergencyExitEnabledAt = 0
    /\ vaultBps = 0
    /\ returned = [w \in Holders |-> 0]

(* Operators whose name ends in _Defect... are faulty variants of the one   *)
(* that follows them; each breaks a property (see the README).             *)

(* policyMultiplierBps, on the terms it does not reject                    *)
SupportedTerms ==
    {0, DURATION_7D, DURATION_14D, DURATION_21D, DURATION_30D}

PolicyMultiplierBps(duration) ==
    CASE duration = 0            -> MULTIPLIER_UNLOCKED_BPS
      [] duration = DURATION_7D  -> 11000
      [] duration = DURATION_14D -> 12500
      [] duration = DURATION_21D -> 15000
      [] duration = DURATION_30D -> 17500

BonusActive_DefectEmergencyErases(p, t) ==
    t < p.unlockTime /\ ~emergencyExitEnabled

(* the tier multiplier counts: before maturity and before the exit         *)
BonusActive(p, t) ==
    /\ t < p.unlockTime
    /\ ~(emergencyExitEnabled /\ t >= emergencyExitEnabledAt)

(* positionWeightAt, of a position at any instant                          *)
PositionWeightAt(p, t) ==
    IF ~p.exists \/ t < p.startTime \/ (p.withdrawn /\ t >= p.withdrawnAt)
    THEN 0
    ELSE (p.principal * (IF BonusActive(p, t) THEN p.multiplierBps
                                              ELSE MULTIPLIER_UNLOCKED_BPS))
             \div BPS_DENOMINATOR

----------------------------------------------------------------------------
CreateLockOk_DefectShortFunding(amount, duration, received) ==
    /\ ~emergencyExitEnabled
    /\ amount # 0
    /\ duration # 0
    /\ duration \in SupportedTerms

(* createLock's guard: no exit, a real amount and term, exact funding      *)
CreateLockOk(amount, duration, received) ==
    /\ ~emergencyExitEnabled
    /\ amount # 0
    /\ duration # 0
    /\ duration \in SupportedTerms
    /\ received = amount

(* the position _recordLock writes                                         *)
NewPosition(amount, duration) ==
    [principal |-> amount, startTime |-> now, unlockTime |-> now + duration,
     multiplierBps |-> PolicyMultiplierBps(duration), withdrawnAt |-> 0,
     exists |-> TRUE, withdrawn |-> FALSE]

(* createLock and _recordLock; `received' is what the token credited       *)
CreateLock(w, amount, duration, received) ==
    /\ lockCount[w] < MaxLocks
    /\ CreateLockOk(amount, duration, received)
    /\ positions' = [positions EXCEPT ![w][lockCount[w]] =
                         NewPosition(amount, duration)]
    /\ lockCount' = [lockCount EXCEPT ![w] = @ + 1]
    /\ lockedPrincipal' = [lockedPrincipal EXCEPT ![w] = @ + amount]
    /\ totalLockedPrincipal' = totalLockedPrincipal + amount
    /\ vaultBps' = vaultBps + received
    /\ UNCHANGED <<emergencyExitEnabled, emergencyExitEnabledAt, returned,
                   ownVars>>

WithdrawOk_DefectTwice(p) ==
    /\ p.exists
    /\ emergencyExitEnabled \/ now >= p.unlockTime

WithdrawOk_DefectInverted(p) ==
    /\ p.exists
    /\ ~p.withdrawn
    /\ now < p.unlockTime

(* withdraw's guard: an own position, once, matured or in the exit         *)
WithdrawOk(p) ==
    /\ p.exists
    /\ ~p.withdrawn
    /\ emergencyExitEnabled \/ now >= p.unlockTime

(* what withdraw leaves of the position                                    *)
ClosedAt(p) == [p EXCEPT !.withdrawn = TRUE, !.withdrawnAt = now]

(* withdraw, with its checked subtractions and the transfer                *)
Withdraw(w, id) ==
    LET p == positions[w][id]
    IN
    /\ WithdrawOk(p)
    /\ p.principal <= lockedPrincipal[w]
    /\ p.principal <= totalLockedPrincipal
    /\ p.principal <= vaultBps
    /\ positions' = [positions EXCEPT ![w][id] = ClosedAt(p)]
    /\ lockedPrincipal' = [lockedPrincipal EXCEPT ![w] = @ - p.principal]
    /\ totalLockedPrincipal' = totalLockedPrincipal - p.principal
    /\ vaultBps' = vaultBps - p.principal
    /\ returned' = [returned EXCEPT ![w] = @ + p.principal]
    /\ UNCHANGED <<lockCount, emergencyExitEnabled, emergencyExitEnabledAt,
                   ownVars>>

(* enableEmergencyExit *)
EnableEmergencyExit(caller) ==
    /\ OnlyOwner(caller)
    /\ ~emergencyExitEnabled
    /\ emergencyExitEnabled' = TRUE
    /\ emergencyExitEnabledAt' = now
    /\ UNCHANGED <<lockCount, positions, lockedPrincipal, totalLockedPrincipal,
                   vaultBps, returned, ownVars>>

(* Anyone may send the vault BPS it did not ask for.                       *)
DonateBps ==
    /\ vaultBps - totalLockedPrincipal < MaxDonation
    /\ vaultBps' = vaultBps + 1
    /\ UNCHANGED <<lockCount, positions, lockedPrincipal, totalLockedPrincipal,
                   emergencyExitEnabled, emergencyExitEnabledAt, returned,
                   ownVars>>

LockOwnership ==
    /\ \E caller \in Callers :
           \/ \E o \in Callers \cup {Nobody} : TransferOwnership(caller, o)
           \/ AcceptOwnership(caller)
           \/ RenounceOwnership(caller)
    /\ UNCHANGED lockVars

LockCall ==
    \/ \E w \in Holders, n \in LockAmounts, d \in LockDurations, f \in Fees :
           f <= n /\ CreateLock(w, n, d, n - f)
    \/ \E w \in Holders, id \in LockIds : Withdraw(w, id)
    \/ \E caller \in Callers : EnableEmergencyExit(caller)
    \/ DonateBps
    \/ LockOwnership

LockNext ==
    \/ LockCall /\ UNCHANGED now
    \/ Tick /\ UNCHANGED <<lockVars, ownVars>>

allLockVars == <<now, lockVars, ownVars>>

LockStart == now = 0 /\ LockInit

LockSpec == LockStart /\ [][LockNext]_allLockVars

(* Time passes, and every holder eventually takes back what it can.        *)
LockFairness ==
    /\ WF_allLockVars(Tick /\ UNCHANGED <<lockVars, ownVars>>)
    /\ \A w \in Holders, id \in LockIds :
           WF_allLockVars(Withdraw(w, id) /\ UNCHANGED now)

LockFairSpec == LockSpec /\ LockFairness

----------------------------------------------------------------------------
(* PROPERTIES *)

(* The principal of w that is still locked, position by position *)
OpenPrincipal(w) ==
    SumFunctionOnSet([id \in LockIds |->
                          IF positions[w][id].withdrawn
                          THEN 0 ELSE positions[w][id].principal], LockIds)

(* and the principal it has taken back *)
ClosedPrincipal(w) ==
    SumFunctionOnSet([id \in LockIds |->
                          IF positions[w][id].withdrawn
                          THEN positions[w][id].principal ELSE 0], LockIds)

(* Principal is accounted for and returned once: every account's recorded  *)
(* principal is the sum of its open positions, the accounts add up to      *)
(* totalLockedPrincipal (so withdraw's checked subtractions never refuse a *)
(* holder), and what withdrawals have sent a holder is the sum of its      *)
(* withdrawn positions.                                                    *)
PrincipalAccounted ==
    /\ \A w \in Holders :
           /\ lockedPrincipal[w] = OpenPrincipal(w)
           /\ returned[w] = ClosedPrincipal(w)
    /\ totalLockedPrincipal = SumFunctionOnSet(lockedPrincipal, Holders)

(* The vault's balance covers the recorded principal: createLock accepts   *)
(* no short credit and withdraw returns a principal once.                  *)
VaultCoversLocks == totalLockedPrincipal <= vaultBps

(* "historical weight before activation is unchanged": no lock, withdrawal *)
(* or emergency exit ever changes the weight any position had at an        *)
(* instant that has passed, so an epoch read again gives the same weights. *)
HistoryIsFrozen ==
    [][\A w \in Holders, id \in LockIds, t \in 0 .. (now - 1) :
           PositionWeightAt(positions[w][id], t)'
               = PositionWeightAt(positions[w][id], t)]_allLockVars

(* Nobody's principal stays in the vault for ever: a lock whose maturity   *)
(* comes is eventually withdrawn by its holder, the exit enabled or not,   *)
(* the vault owned or not.                                                 *)
MaturedLocksReturn ==
    \A w \in Holders, id \in LockIds :
        (positions[w][id].exists /\ positions[w][id].unlockTime <= MaxTime)
            ~> positions[w][id].withdrawn
=============================================================================
