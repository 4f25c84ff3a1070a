------------------------------- MODULE WalletTx -------------------------------
(***************************************************************************)
(* apps/web/lib/wallet/tx.ts, the life of one user action from approval to *)
(* reconciliation, as the dashboard's trade, lock, withdraw and claim      *)
(* buttons run it.  The buttons stay enabled while a lifecycle runs, so    *)
(* several overlap, and between any two awaits the chain moves:            *)
(* transactions are mined late, repriced, cancelled or replaced in the     *)
(* mempool, and other holders claim.  A lifecycle that gave up waiting     *)
(* leaves its transaction in the pool.                                     *)
(***************************************************************************)
EXTENDS Integers, Sequences, FiniteSets

CONSTANTS
    Kinds,          \* the buttons that are pressed
    Funded,         \* what the claim cycle owes everybody at first
    Distribution,   \* the user's own entitlement in it
    MaxRuns,        \* bound on the lifecycles started
    MaxOtherClaims  \* bound on claims by other holders

ASSUME WalletAssumption ==
    /\ Kinds \subseteq {"trade", "lock", "withdraw", "claim"}
    /\ Funded \in Nat
    /\ Distribution \in Nat \ {0}
    /\ MaxRuns \in Nat
    /\ MaxOtherClaims \in Nat

Runs == 1..MaxRuns

None == -1          \* null, and "not read yet"

VARIABLES
    life,        \* the lifecycles, in the order their buttons were pressed
    withdrawId,  \* the position the withdraw button names, or None
    verified,    \* the claim panel's proof check
    uiClaimed,   \* the claim panel's own record of a claim
    pool,        \* the account's pending transactions, in nonce order
    receipts,    \* the mined ones
    allowance,   \* is the spender allowed the amount, for a trade, for a lock
    positions,   \* the account's locks in the vault: TRUE while not withdrawn
    remaining,   \* remaining(cycle, asset) of the claim manager
    claimed,     \* claimed(cycle, asset, account)
    otherClaims,
    effects      \* times an action of each kind took effect on chain

panelVars == <<withdrawId, verified, uiClaimed>>
stateVars == <<allowance, positions, remaining, claimed, effects>>
chainVars == <<pool, receipts, stateVars, otherClaims>>
walletVars == <<life, panelVars, chainVars>>

ApprovedKinds == {"trade", "lock"}

(* lockedPrincipal(account), in units of LOCK_AMOUNT *)
Locked == Cardinality({p \in DOMAIN positions : positions[p]})

(* A holder may come with a lock, with an allowance, with neither or both. *)
WalletInit ==
    /\ life = << >>
    /\ withdrawId = None
    /\ verified = FALSE
    /\ uiClaimed = FALSE
    /\ pool = << >>
    /\ receipts = {}
    /\ allowance \in [ApprovedKinds \cap Kinds -> BOOLEAN]
    /\ positions \in {<< >>, <<TRUE>>}
    /\ remaining = Funded
    /\ claimed = FALSE
    /\ otherClaims = 0
    /\ effects = [k \in Kinds |-> 0]

----------------------------------------------------------------------------
(* The chain.  Beyond what is modelled here an action may always revert:   *)
(* a paused contract, a passed deadline, an immature lock, a poor account. *)

MaySucceed(r) ==
    LET k == life[r].kind
    IN  CASE k \in ApprovedKinds -> allowance[k]
          [] k = "withdraw" -> /\ life[r].id + 1 \in DOMAIN positions
                               /\ positions[life[r].id + 1]
          [] k = "claim" -> ~claimed /\ remaining >= Distribution

(* what the action of lifecycle r does when it succeeds *)
ActionEffect(r) ==
    LET k == life[r].kind
    IN  /\ allowance' = [a \in DOMAIN allowance |-> allowance[a] /\ a # k]
        /\ positions' = CASE k = "lock" -> Append(positions, TRUE)
                          [] k = "withdraw" ->
                                 [positions EXCEPT ![life[r].id + 1] = FALSE]
                          [] OTHER -> positions
        /\ claimed' = (claimed \/ k = "claim")
        /\ remaining' = IF k = "claim" THEN remaining - Distribution
                                       ELSE remaining
        /\ effects' = [effects EXCEPT ![k] = @ + 1]

Mined(tx, status) ==
    /\ pool' = Tail(pool)
    /\ receipts' = receipts \cup {[tx |-> tx, status |-> status]}

(* The next nonce of the account is mined: the transaction that was sent   *)
(* (perhaps repriced), a cancellation, or another transaction of the       *)
(* user's own altogether.                                                  *)
Mine ==
    /\ pool # << >>
    /\ LET tx == Head(pool)
       IN  \/ /\ tx.fate \in {"sent", "repriced"}
              /\ tx.what = "approve"
              /\ Mined(tx, "success")
              /\ allowance' = [allowance EXCEPT ![life[tx.run].kind] = TRUE]
              /\ UNCHANGED <<positions, claimed, remaining, effects>>
           \/ /\ tx.fate \in {"sent", "repriced"}
              /\ tx.what = "action"
              /\ MaySucceed(tx.run)
              /\ Mined(tx, "success")
              /\ ActionEffect(tx.run)
           \/ /\ tx.fate \in {"sent", "repriced"}
              /\ Mined(tx, "reverted")
              /\ UNCHANGED stateVars
           \/ /\ tx.fate \in {"cancelled", "replaced"}
              /\ Mined(tx, "success")
              /\ UNCHANGED stateVars
    /\ UNCHANGED <<life, panelVars, otherClaims>>

(* The user replaces a pending transaction from the wallet.                *)
Replace ==
    /\ \E i \in DOMAIN pool, fate \in {"repriced", "cancelled", "replaced"} :
           /\ pool[i].fate = "sent"
           /\ pool' = [pool EXCEPT ![i].fate = fate]
    /\ UNCHANGED <<life, panelVars, receipts, stateVars, otherClaims>>

(* Another holder claims from the same cycle.                              *)
OtherClaim ==
    /\ otherClaims < MaxOtherClaims
    /\ remaining > 0
    /\ remaining' = remaining - 1
    /\ otherClaims' = otherClaims + 1
    /\ UNCHANGED <<life, panelVars, pool, receipts, allowance, positions,
                   claimed, effects>>

----------------------------------------------------------------------------
(* runActionLifecycle.  Operators whose name ends in _Defect... are faulty *)
(* variants of the one that follows them; each breaks a property (see the  *)
(* README).                                                                *)

GoTo(r, s) ==
    /\ life' = [life EXCEPT ![r].step = s]
    /\ UNCHANGED <<panelVars, pool>>

(* { ok: false }: the button reports the failure *)
Fail(r) == GoTo(r, "failed")

(* { ok: true }, and what the button's callback then does: took says       *)
(* whether an action of this kind took effect since the callback began     *)
Succeed(r) ==
    LET k == life[r].kind
    IN  /\ life' = [life EXCEPT ![r].step = "done",
                                ![r].took = effects[k] > life[r].mark]
        /\ withdrawId' = CASE k = "lock" -> life[r].id
                           [] k = "withdraw" -> None
                           [] OTHER -> withdrawId
        /\ uiClaimed' = (uiClaimed \/ k = "claim")
        /\ UNCHANGED <<verified, pool>>

(* verify: the claim button is enabled by the on-chain state read then *)
Verify ==
    /\ "claim" \in Kinds
    /\ verified' = (~claimed /\ ~uiClaimed /\ remaining >= Distribution)
    /\ UNCHANGED <<life, withdrawId, uiClaimed, pool>>

(* the button's callback starts: a withdrawal names the shown position,    *)
(* and locks and withdrawals first read the locked principal               *)
Press(k) ==
    /\ Len(life) < MaxRuns
    /\ k = "withdraw" => withdrawId # None
    /\ k = "claim" => verified /\ ~uiClaimed
    /\ life' = Append(life,
          [kind |-> k, before |-> None, mark |-> effects[k], took |-> FALSE,
           id |-> IF k = "withdraw" THEN withdrawId ELSE None,
           step |-> IF k \in {"lock", "withdraw"} THEN "read-locked"
                                                  ELSE "validate"])
    /\ UNCHANGED <<panelVars, pool>>

(* readLockedPrincipal, and for a lock readLockCount, each a request of    *)
(* its own                                                                 *)
ReadLocked(r) ==
    /\ life[r].step = "read-locked"
    /\ life' = [life EXCEPT
                  ![r].before = Locked,
                  ![r].step = IF life[r].kind = "lock" THEN "read-count"
                                                       ELSE "validate"]
    /\ UNCHANGED <<panelVars, pool>>

ReadCount(r) ==
    /\ life[r].step = "read-count"
    /\ life' = [life EXCEPT ![r].id = Len(positions), ![r].step = "validate"]
    /\ UNCHANGED <<panelVars, pool>>

(* the chain id of the public client, then the approval, if there is one   *)
Validate(r) ==
    /\ life[r].step = "validate"
    /\ GoTo(r, IF life[r].kind \in ApprovedKinds THEN "read-allowance"
                                                 ELSE "simulate")

ReadAllowance(r) ==
    /\ life[r].step = "read-allowance"
    /\ GoTo(r, IF allowance[life[r].kind] THEN "simulate" ELSE "approve")

(* wallet.sendTransaction: the user rejects, or the transaction is sent    *)
Send(r, at, what, next) ==
    /\ life[r].step = at
    /\ \/ Fail(r)
       \/ /\ pool' = Append(pool, [run |-> r, what |-> what, fate |-> "sent"])
          /\ life' = [life EXCEPT ![r].step = next]
          /\ UNCHANGED panelVars

(* waitConfirmed: "cancelled" is not a receipt, every other replacement is *)
Confirmed(r, what) ==
    \E rc \in receipts : /\ rc.tx.run = r /\ rc.tx.what = what
                         /\ rc.tx.fate # "cancelled"
                         /\ rc.status = "success"

(* the wait ends with a successful receipt; or fails with a cancellation,  *)
(* a reverted receipt, or at any time with a timeout or an RPC error       *)
Await(r, at, what, next) ==
    /\ life[r].step = at
    /\ \/ Confirmed(r, what) /\ GoTo(r, next)
       \/ Fail(r)

RereadAllowance(r) ==
    /\ life[r].step = "reread-allowance"
    /\ allowance[life[r].kind]
    /\ GoTo(r, "simulate")

Simulate(r) ==
    /\ life[r].step = "simulate"
    /\ MaySucceed(r)
    /\ GoTo(r, "submit")

Reconciled_DefectReceiptOnly(r) == TRUE

(* the reconcile callback of each button; a trade passes none *)
Reconciled(r) ==
    LET k == life[r].kind
    IN  CASE k = "trade" -> TRUE
          [] k = "lock" -> Locked = life[r].before + 1
          [] k = "withdraw" -> Locked = life[r].before - 1
          [] k = "claim" -> remaining < Distribution

Reconcile(r) ==
    /\ life[r].step = "reconcile"
    /\ \/ Reconciled(r) /\ Succeed(r)
       \/ ~Reconciled(r) /\ Fail(r)

(* A read fails, finds the wrong chain or too small an allowance, or the   *)
(* simulation reverts: an early return or an exception the button's        *)
(* callback catches; a read that fails in reconcile is not reconciled.     *)
StepFails(r) ==
    /\ \/ life[r].step \in {"read-locked", "read-count", "validate",
                            "read-allowance", "reread-allowance", "simulate"}
       \/ life[r].step = "reconcile" /\ life[r].kind # "trade"
    /\ Fail(r)

Lifecycle(r) ==
    \/ ReadLocked(r)
    \/ ReadCount(r)
    \/ Validate(r)
    \/ ReadAllowance(r)
    \/ Send(r, "approve", "approve", "await-approval")
    \/ Await(r, "await-approval", "approve", "reread-allowance")
    \/ RereadAllowance(r)
    \/ Simulate(r)
    \/ Send(r, "submit", "action", "await-receipt")
    \/ Await(r, "await-receipt", "action", "reconcile")
    \/ Reconcile(r)
    \/ StepFails(r)

Dashboard ==
    /\ \/ Verify
       \/ \E k \in Kinds : Press(k)
       \/ \E r \in DOMAIN life : Lifecycle(r)
    /\ UNCHANGED <<receipts, stateVars, otherClaims>>

WalletNext == Dashboard \/ Mine \/ Replace \/ OtherClaim

WalletSpec == WalletInit /\ [][WalletNext]_walletVars

----------------------------------------------------------------------------
(* PROPERTIES *)

(* "Success is NEVER reported on a returned hash alone": a lifecycle that  *)
(* reports success did so after an action of its kind took effect on the   *)
(* chain since its button was pressed, whatever was cancelled, replaced,   *)
(* reverted or mined late in between, and whatever other lifecycles did.   *)
SuccessMeansEffect ==
    \A r \in DOMAIN life : life[r].step = "done" => life[r].took
=============================================================================
