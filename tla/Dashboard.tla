------------------------------ MODULE Dashboard ------------------------------
(***************************************************************************)
(* The dashboard around its write buttons (app/AppDashboard.tsx): who is   *)
(* eligible (lib/eligibility.ts), what the lock panel shows, and what the  *)
(* claim panel verifies (lib/claim.ts, lib/services/claim-validation.ts).  *)
(* Every callback and effect keeps the account it began with over its      *)
(* awaits, while the user switches accounts or networks, or disconnects.   *)
(* The life of the transactions themselves is module WalletTx.             *)
(***************************************************************************)
EXTENDS Integers, Sequences

CONSTANTS
    Accounts,
    EligibleAccounts,   \* the service's allow-list
    Entitled,           \* the accounts the proof provider has an artifact of
    Entitlement,        \* its amount
    CycleFunded,        \* what the cycle holds at first
    Nobody,             \* no account connected; null
    MaxSwitches,        \* bound on the changes of account and network
    MaxCallbacks,       \* bound on the sign and verify buttons pressed
    MaxWorld            \* bound on the moves of others on the chain

ASSUME DashboardAssumption ==
    /\ EligibleAccounts \subseteq Accounts /\ Entitled \subseteq Accounts
    /\ Entitlement \in Nat \ {0} /\ CycleFunded \in Nat
    /\ MaxSwitches \in Nat /\ MaxCallbacks \in Nat /\ MaxWorld \in Nat
    /\ Nobody \notin [of : Accounts, locked : 0..1]

VARIABLES
    account, rightChain,     \* the connection, as last rendered
    verdict, eligibility,    \* of the declaration and of the service
    signings,                \* signDeclaration callbacks
    signers,                 \* accounts that signed a valid declaration
    lockRuns,                \* runs of the lock panel's effect
    shown,                   \* the balance and principal it shows
    verifies,                \* verify callbacks of the claim panel
    verification,            \* `verified', and what it was about
    panelClaimed,            \* the panel's own `claimed'
    cycle,                   \* cycles, claimed and remaining on chain
    principals,              \* lockedPrincipal of each account
    switches, moved

connectionVars == <<account, rightChain, switches>>
signVars == <<verdict, eligibility, signings, signers>>
lockVars == <<lockRuns, shown>>
claimVars == <<verifies, verification, panelClaimed>>
protocolVars == <<cycle, principals, moved>>
dashboardVars == <<connectionVars, signVars, lockVars, claimVars, protocolVars>>

Callbacks == Len(signings) + Len(verifies)

DashboardInit ==
    /\ account = Nobody
    /\ rightChain = TRUE
    /\ verdict = Nobody
    /\ eligibility = "unknown"
    /\ signings = << >>
    /\ signers = {}
    /\ lockRuns = << >>
    /\ shown = Nobody
    /\ verifies = << >>
    /\ verification = [ok |-> FALSE, payable |-> FALSE]
    /\ panelClaimed = FALSE
    /\ cycle = [published |-> FALSE, claimed |-> {}, remaining |-> CycleFunded]
    /\ principals = [a \in Accounts |-> 0]
    /\ switches = 0
    /\ moved = 0

----------------------------------------------------------------------------
(* Operators whose name ends in _Defect... are faulty variants of the one  *)
(* that follows them; each breaks a property (see the README).             *)

(* deriveEligibilityState *)
DeriveEligibilityState ==
    CASE account = Nobody -> "wallet-disconnected"
      [] account # Nobody /\ ~rightChain -> "wrong-network"
      [] account # Nobody /\ rightChain /\ verdict # "ok" -> "connected-unsigned"
      [] account # Nobody /\ rightChain /\ verdict = "ok" ->
           IF eligibility = "unknown" THEN "signed-eligibility-unverified"
                                      ELSE eligibility

(* eligibilityWriteGate *)
Eligible == DeriveEligibilityState = "eligible"

(* A dependency of the lock panel's effect changed: the running effect is  *)
(* cancelled, and another starts if there is something to read.            *)
Cancelled_DefectStaysLive(lockRun) == lockRun

Cancelled(lockRun) == [lockRun EXCEPT !.live = FALSE]

RestartLockEffect(who, chainOk) ==
    LET old == [i \in DOMAIN lockRuns |-> Cancelled(lockRuns[i])]
    IN  lockRuns' =
          IF who = Nobody \/ ~chainOk THEN old
          ELSE Append(old, [by |-> who, step |-> "balance", live |-> TRUE])

(* connect, disconnect, or another account chosen in the wallet *)
SwitchAccount(who) ==
    /\ switches < MaxSwitches
    /\ who # account
    /\ account' = who
    /\ switches' = switches + 1
    /\ RestartLockEffect(who, rightChain)
    /\ UNCHANGED <<rightChain, shown, signVars, claimVars, protocolVars>>

SwitchChain ==
    /\ switches < MaxSwitches
    /\ account # Nobody
    /\ rightChain' = ~rightChain
    /\ switches' = switches + 1
    /\ RestartLockEffect(account, ~rightChain)
    /\ UNCHANGED <<account, shown, signVars, claimVars, protocolVars>>

----------------------------------------------------------------------------
(* signDeclaration, for the account that was shown when it began *)
StartSign ==
    /\ Callbacks < MaxCallbacks
    /\ account # Nobody /\ rightChain
    /\ signings' = Append(signings, [by |-> account, step |-> "sign"])
    /\ UNCHANGED <<verdict, eligibility, signers, connectionVars, lockVars,
                   claimVars, protocolVars>>

SigningTo(i, step) == signings' = [signings EXCEPT ![i].step = step]

(* The wallet signs with the account it has now; the recovered signer is   *)
(* compared with the account the callback began with.  verifyDeclaration   *)
(* then finds chain, document, expiry and nonce as they were filled in.    *)
Sign(i) ==
    /\ signings[i].step = "sign"
    /\ \/ SigningTo(i, "failed") /\ UNCHANGED <<verdict, signers>>
       \/ /\ account = signings[i].by
          /\ verdict' = "ok"
          /\ signers' = signers \cup {account}
          /\ SigningTo(i, "check")
       \/ /\ account \notin {Nobody, signings[i].by}
          /\ verdict' = "wrong-signer"
          /\ SigningTo(i, "failed")
          /\ UNCHANGED signers
    /\ UNCHANGED <<eligibility, connectionVars, lockVars, claimVars,
                   protocolVars>>

(* the eligibility service answers, or fails *)
CheckEligibility(i) ==
    /\ signings[i].step = "check"
    /\ \/ /\ eligibility' = IF signings[i].by \in EligibleAccounts
                            THEN "eligible" ELSE "ineligible"
          /\ SigningTo(i, "done")
       \/ SigningTo(i, "failed") /\ UNCHANGED eligibility
    /\ UNCHANGED <<verdict, signers, connectionVars, lockVars, claimVars,
                   protocolVars>>

----------------------------------------------------------------------------
(* The lock panel's effect: two reads, then both are shown *)
LockRunTo(i, step) == lockRuns' = [lockRuns EXCEPT ![i].step = step]

ReadLockPanel(i) ==
    /\ \/ /\ lockRuns[i].step = "balance"
          /\ LockRunTo(i, "principal")
          /\ UNCHANGED shown
       \/ /\ lockRuns[i].step = "principal"
          /\ LockRunTo(i, "done")
          /\ shown' = IF lockRuns[i].live
                      THEN [of |-> lockRuns[i].by,
                            locked |-> principals[lockRuns[i].by]]
                      ELSE shown
       \/ /\ lockRuns[i].step \in {"balance", "principal"}
          /\ LockRunTo(i, "failed")
          /\ UNCHANGED shown
    /\ UNCHANGED <<connectionVars, signVars, claimVars, protocolVars>>

(* a lock or withdrawal of the panel went through, whose callback asks for *)
(* a refresh                                                               *)
Refresh ==
    /\ moved < MaxWorld
    /\ Eligible
    /\ principals' = [principals EXCEPT ![account] = 1 - @]
    /\ moved' = moved + 1
    /\ RestartLockEffect(account, rightChain)
    /\ UNCHANGED <<cycle, shown, connectionVars, signVars, claimVars>>

----------------------------------------------------------------------------
(* The claim panel.  Its reads, in order, and what each must find.         *)

NextRead == [cycles |-> "assetFunding", assetFunding |-> "claimed",
             claimed |-> "balance", balance |-> "remaining"]

ReadOk_DefectTrustsRemaining(read, who) ==
    CASE read = "cycles" -> cycle.published
      [] read = "assetFunding" -> Entitlement <= CycleFunded
      [] read \in {"claimed", "balance"} -> TRUE
      [] read = "remaining" -> Entitlement <= cycle.remaining

(* validateClaimReadiness, and verifyClaim's comparison with what remains; *)
(* the artifact's root, proof and identity are those of the cycle          *)
ReadOk(read, who) ==
    CASE read = "cycles" -> cycle.published
      [] read = "assetFunding" -> Entitlement <= CycleFunded
      [] read = "claimed" -> who \notin cycle.claimed
      [] read = "balance" -> Entitlement <= cycle.remaining
      [] read = "remaining" -> Entitlement <= cycle.remaining

Payable(who) ==
    /\ cycle.published
    /\ who \notin cycle.claimed
    /\ Entitlement <= cycle.remaining

Rejected == [ok |-> FALSE, payable |-> FALSE]

(* the callback keeps the panel's `claimed' it was created with; without   *)
(* an artifact for the account it ends at once                             *)
StartVerify ==
    /\ Callbacks < MaxCallbacks
    /\ account # Nobody /\ rightChain
    /\ IF account \in Entitled
       THEN /\ verifies' = Append(verifies,
                  [by |-> account, step |-> "cycles", knew |-> panelClaimed,
                   payable |-> FALSE])
            /\ UNCHANGED verification
       ELSE verification' = Rejected /\ UNCHANGED verifies
    /\ UNCHANGED <<panelClaimed, connectionVars, signVars, lockVars,
                   protocolVars>>

(* `payable' is the state at the first read *)
VerifyTo(i, step) ==
    verifies' = [verifies EXCEPT
                   ![i].step = step,
                   ![i].payable = IF verifies[i].step = "cycles"
                                  THEN Payable(verifies[i].by) ELSE @]

VerifyRead(i) ==
    LET v == verifies[i]
    IN  /\ v.step \in DOMAIN NextRead \cup {"remaining"}
        /\ \/ /\ ~ReadOk(v.step, v.by)
              /\ verification' = Rejected
              /\ VerifyTo(i, "done")
           \/ /\ ReadOk(v.step, v.by)
              /\ v.step \in DOMAIN NextRead
              /\ VerifyTo(i, NextRead[v.step])
              /\ UNCHANGED verification
           \/ /\ ReadOk(v.step, v.by)
              /\ v.step = "remaining"
              /\ verification' = [ok |-> ~v.knew, payable |-> v.payable]
              /\ VerifyTo(i, "done")
           \/ VerifyTo(i, "failed") /\ UNCHANGED verification
        /\ UNCHANGED <<panelClaimed, connectionVars, signVars, lockVars,
                       protocolVars>>

(* the claim button, whose transaction pays whoever sends it with a proof  *)
(* of their own (its lifecycle is WalletTx's)                              *)
Claim ==
    /\ Eligible /\ verification.ok /\ ~panelClaimed
    /\ account \in Entitled /\ Payable(account)
    /\ cycle' = [cycle EXCEPT !.claimed = @ \cup {account},
                              !.remaining = @ - Entitlement]
    /\ panelClaimed' = TRUE
    /\ UNCHANGED <<verifies, verification, principals, moved, connectionVars,
                   signVars, lockVars>>

(* On the chain the cycle is published, an account claims from elsewhere,  *)
(* other holders claim, and at last the owner recovers what is left.       *)
ProtocolMoves ==
    /\ moved < MaxWorld
    /\ moved' = moved + 1
    /\ \/ ~cycle.published /\ cycle' = [cycle EXCEPT !.published = TRUE]
       \/ \E a \in Entitled :
             /\ Payable(a)
             /\ cycle' = [cycle EXCEPT !.claimed = @ \cup {a},
                                       !.remaining = @ - Entitlement]
       \/ \E less \in 0 .. cycle.remaining - 1 :
             cycle.published /\ cycle' = [cycle EXCEPT !.remaining = less]
    /\ UNCHANGED <<principals, connectionVars, signVars, lockVars, claimVars>>

DashboardNext ==
    \/ \E who \in Accounts \cup {Nobody} : SwitchAccount(who)
    \/ SwitchChain
    \/ StartSign
    \/ \E i \in DOMAIN signings : Sign(i) \/ CheckEligibility(i)
    \/ \E i \in DOMAIN lockRuns : ReadLockPanel(i)
    \/ Refresh
    \/ StartVerify
    \/ \E i \in DOMAIN verifies : VerifyRead(i)
    \/ Claim
    \/ ProtocolMoves

DashboardSpec == DashboardInit /\ [][DashboardNext]_dashboardVars

----------------------------------------------------------------------------
(* PROPERTIES *)

(* Once the lock panel's latest effect has finished its reads, the panel   *)
(* shows the connected account's position, however many earlier effects    *)
(* are still reading for another account and answer later.                 *)
LockPanelSettles ==
    LET latest == lockRuns[Len(lockRuns)]
    IN  account # Nobody /\ rightChain /\ lockRuns # << >>
          /\ latest.step = "done" =>
            shown # Nobody /\ shown.of = account

(* A verified claim was payable when its verification began: the five      *)
(* reads, made one after another while others claim, agree with the state  *)
(* at the first of them.                                                   *)
VerifiedWasPayable == verification.ok => verification.payable

(* docs/audit/TASK_9_RELEASE_READINESS.md:327 ``chain & account changes:   *)
(* [...] signatures are re-verified against the connected account'': the   *)
(* account the writes are enabled for signed the declaration.              *)
EligibleAccountSigned == Eligible => account \in signers
=============================================================================
