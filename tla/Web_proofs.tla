------------------------------ MODULE Web_proofs ------------------------------
(***************************************************************************)
(* Proofs about the web application's three parts, each on its own: the    *)
(* account and its panels (Dashboard), the lives of its transactions       *)
(* (WalletTx), and the reconciliation and the report of the transparency   *)
(* panel (Transparency).                                                   *)
(***************************************************************************)
EXTENDS WalletTx, Dashboard, Transparency, SequenceTheorems,
        FiniteSetTheorems, Sums_proofs, TLAPS

(* One member of a sequence changes. *)
LEMMA OneChanges ==
    ASSUME NEW S, NEW s \in Seq(S), NEW i \in DOMAIN s, NEW e \in S
    PROVE  LET t == [s EXCEPT ![i] = e]
           IN  /\ t \in Seq(S) /\ Len(t) = Len(s) /\ DOMAIN t = DOMAIN s
               /\ t[i] = e
               /\ \A j \in DOMAIN s \ {i} : t[j] = s[j]
<1>1. i \in 1..Len(s)
  BY LenProperties
<1>2. LET t == [s EXCEPT ![i] = e]
      IN  /\ t \in Seq(S) /\ Len(t) = Len(s)
          /\ \A j \in 1..Len(s) : t[j] = IF j = i THEN e ELSE s[j]
  BY <1>1, ExceptSeq
<1> QED  BY <1>1, <1>2, LenProperties

(* One member is appended. *)
LEMMA OneMore ==
    ASSUME NEW S, NEW s \in Seq(S), NEW e \in S
    PROVE  LET t == Append(s, e)
           IN  /\ t \in Seq(S) /\ Len(t) = Len(s) + 1 /\ Len(t) \in Nat
               /\ t[Len(t)] = e
               /\ \A j \in DOMAIN s : j \in DOMAIN t /\ t[j] = s[j]
               /\ DOMAIN t = DOMAIN s \cup {Len(t)}
               /\ Len(t) \notin DOMAIN s
<1>1. /\ Len(s) \in Nat /\ DOMAIN s = 1..Len(s)
  BY LenProperties
<1>2. /\ Append(s, e) \in Seq(S)
      /\ Len(Append(s, e)) = Len(s) + 1
      /\ \A j \in 1..Len(s) : Append(s, e)[j] = s[j]
      /\ Append(s, e)[Len(s) + 1] = e
  BY AppendProperties
<1>3. DOMAIN Append(s, e) = 1..Len(s) + 1
  BY <1>2, LenProperties
<1> QED  BY <1>1, <1>2, <1>3

----------------------------------------------------------------------------
(* THE DASHBOARD                                                           *)

Signing == [by : Accounts, step : {"sign", "check", "done", "failed"}]
LockRun == [by : Accounts, step : {"balance", "principal", "done", "failed"},
            live : BOOLEAN]
Reads == {"cycles", "assetFunding", "claimed", "balance", "remaining"}
VerifyRun == [by : Accounts, step : Reads \cup {"done", "failed"},
              knew : BOOLEAN, payable : BOOLEAN]

DashboardTypeOK ==
    /\ account \in Accounts \cup {Nobody}
    /\ rightChain \in BOOLEAN /\ switches \in Nat
    /\ verdict \in {Nobody, "ok", "wrong-signer"}
    /\ eligibility \in {"unknown", "eligible", "ineligible"}
    /\ signings \in Seq(Signing) /\ signers \in SUBSET Accounts
    /\ lockRuns \in Seq(LockRun)
    /\ shown \in [of : Accounts, locked : 0..1] \cup {Nobody}
    /\ verifies \in Seq(VerifyRun)
    /\ verification \in [ok : BOOLEAN, payable : BOOLEAN]
    /\ panelClaimed \in BOOLEAN
    /\ cycle \in [published : BOOLEAN, claimed : SUBSET Accounts,
                  remaining : Nat]
    /\ principals \in [Accounts -> 0..1]
    /\ moved \in Nat

(* Only the latest effect of the lock panel is live, it belongs to the     *)
(* connected account, and when it is done the panel shows its answer.      *)
LockRunsRight ==
    /\ account # Nobody /\ rightChain =>
           lockRuns # << >> /\ lockRuns[Len(lockRuns)].live
    /\ \A i \in DOMAIN lockRuns :
           lockRuns[i].live =>
               /\ i = Len(lockRuns)
               /\ account # Nobody /\ rightChain
               /\ lockRuns[i].by = account
               /\ lockRuns[i].step = "done" =>
                      shown # Nobody /\ shown.of = account

(* What the reads of a verification that have been made still say of the   *)
(* state at the first of them: a claim only ever stops being payable.      *)
VerifyRight(v, c) ==
    /\ v.step \in {"assetFunding", "claimed"} =>
           v.payable \/ v.by \in c.claimed \/ c.remaining < Entitlement
    /\ v.step \in {"balance", "remaining"} =>
           v.payable \/ c.remaining < Entitlement

VerifiesRight ==
    /\ \A i \in DOMAIN verifies : VerifyRight(verifies[i], cycle)
    /\ VerifiedWasPayable

DashboardInv == DashboardTypeOK /\ LockRunsRight /\ VerifiesRight

(* The lock panel's part of a step that leaves the panel alone *)
LEMMA LockPanelStays ==
    ASSUME LockRunsRight,
           UNCHANGED <<account, rightChain, lockRuns, shown>>
    PROVE  LockRunsRight'
BY DEF LockRunsRight

(* The claim panel's part of a step that starts no read and ends none *)
LEMMA VerifiesStay ==
    ASSUME DashboardTypeOK, VerifiesRight,
           UNCHANGED <<verifies, verification>>,
           cycle.claimed \subseteq cycle'.claimed,
           cycle'.remaining \in Nat, cycle'.remaining <= cycle.remaining
    PROVE  VerifiesRight'
<1>1. cycle.remaining \in Nat /\ Entitlement \in Nat
  BY DashboardAssumption DEF DashboardTypeOK
<1>2. \A i \in DOMAIN verifies : VerifyRight(verifies'[i], cycle')
  BY <1>1 DEF VerifiesRight, VerifyRight
<1>3. VerifiedWasPayable'
  BY DEF VerifiesRight, VerifiedWasPayable
<1> QED  BY <1>2, <1>3 DEF VerifiesRight

(* The effect restarts for whoever is connected now. *)
LEMMA RestartRight ==
    ASSUME DashboardTypeOK, LockRunsRight,
           account' \in Accounts \cup {Nobody}, rightChain' \in BOOLEAN,
           RestartLockEffect(account', rightChain')
    PROVE  lockRuns' \in Seq(LockRun) /\ LockRunsRight'
<1> DEFINE old == [i \in DOMAIN lockRuns |-> Cancelled(lockRuns[i])]
           new == [by |-> account', step |-> "balance", live |-> TRUE]
<1>1. Len(lockRuns) \in Nat /\ DOMAIN lockRuns = 1..Len(lockRuns)
  BY LenProperties DEF DashboardTypeOK
<1>2. \A i \in DOMAIN lockRuns : lockRuns[i] \in LockRun
  BY <1>1, ElementOfSeq DEF DashboardTypeOK
<1>3. \A i \in DOMAIN lockRuns : Cancelled(lockRuns[i]) \in LockRun
                                 /\ Cancelled(lockRuns[i]).live = FALSE
  BY <1>2 DEF Cancelled, LockRun
<1>4. /\ old \in Seq(LockRun) /\ DOMAIN old = DOMAIN lockRuns
      /\ \A i \in DOMAIN old : old[i].live = FALSE
  BY <1>1, <1>3
<1> HIDE DEF old
<1>5. CASE account' = Nobody \/ ~rightChain'
  <2>1. lockRuns' = old
    BY <1>5 DEF RestartLockEffect, old
  <2> QED  BY <1>4, <1>5, <2>1 DEF LockRunsRight
<1>6. CASE ~(account' = Nobody \/ ~rightChain')
  <2>1. lockRuns' = Append(old, new)
    BY <1>6 DEF RestartLockEffect, old
  <2>2. new \in LockRun
    BY <1>6 DEF LockRun
  <2>3. /\ lockRuns' \in Seq(LockRun) /\ lockRuns' # << >>
        /\ lockRuns'[Len(lockRuns')] = new
        /\ \A j \in DOMAIN old : lockRuns'[j] = old[j]
        /\ DOMAIN lockRuns' = DOMAIN old \cup {Len(lockRuns')}
    BY <1>4, <2>1, <2>2, OneMore, EmptySeq
  <2>4. \A i \in DOMAIN lockRuns' : lockRuns'[i].live => i = Len(lockRuns')
    BY <1>4, <2>3
  <2>5. /\ new.live = TRUE /\ new.by = account' /\ new.step # "done"
        /\ account' # Nobody /\ rightChain'
    BY <1>6
  <2> HIDE DEF new
  <2>6. ASSUME NEW i \in DOMAIN lockRuns', lockRuns'[i].live
        PROVE  lockRuns'[i] = new /\ i = Len(lockRuns')
    BY <2>3, <2>4, <2>6
  <2> QED  BY <2>3, <2>5, <2>6 DEF LockRunsRight
<1> QED  BY <1>5, <1>6

LEMMA SwitchAccountKeeps ==
    ASSUME DashboardInv, NEW who \in Accounts \cup {Nobody}, SwitchAccount(who)
    PROVE  DashboardInv'
<1>1. /\ account' \in Accounts \cup {Nobody} /\ rightChain' \in BOOLEAN
      /\ switches' \in Nat
      /\ RestartLockEffect(account', rightChain')
      /\ UNCHANGED <<shown, signVars, claimVars, protocolVars>>
  BY DEF SwitchAccount, DashboardInv, DashboardTypeOK
<1>2. lockRuns' \in Seq(LockRun) /\ LockRunsRight'
  BY <1>1, RestartRight DEF DashboardInv
<1>3. DashboardTypeOK'
  BY <1>1, <1>2 DEF DashboardInv, DashboardTypeOK, signVars, claimVars, protocolVars
<1>4. VerifiesRight'
  BY <1>1, VerifiesStay
     DEF DashboardInv, DashboardTypeOK, claimVars, protocolVars
<1> QED  BY <1>2, <1>3, <1>4 DEF DashboardInv

LEMMA SwitchChainKeeps ==
    ASSUME DashboardInv, SwitchChain
    PROVE  DashboardInv'
<1>1. /\ account' \in Accounts \cup {Nobody} /\ rightChain' \in BOOLEAN
      /\ switches' \in Nat
      /\ RestartLockEffect(account', rightChain')
      /\ UNCHANGED <<shown, signVars, claimVars, protocolVars>>
  BY DEF SwitchChain, DashboardInv, DashboardTypeOK
<1>2. lockRuns' \in Seq(LockRun) /\ LockRunsRight'
  BY <1>1, RestartRight DEF DashboardInv
<1>3. DashboardTypeOK'
  BY <1>1, <1>2 DEF DashboardInv, DashboardTypeOK, signVars, claimVars, protocolVars
<1>4. VerifiesRight'
  BY <1>1, VerifiesStay
     DEF DashboardInv, DashboardTypeOK, claimVars, protocolVars
<1> QED  BY <1>2, <1>3, <1>4 DEF DashboardInv

(* lock or withdrawal that went through *)
LEMMA RefreshKeeps ==
    ASSUME DashboardInv, Refresh
    PROVE  DashboardInv'
<1>1. /\ RestartLockEffect(account', rightChain')
      /\ principals' = [principals EXCEPT ![account] = 1 - @]
      /\ moved' = moved + 1
      /\ UNCHANGED <<cycle, shown, connectionVars, signVars, claimVars>>
  BY DEF Refresh, connectionVars
<1>2. lockRuns' \in Seq(LockRun) /\ LockRunsRight'
  BY <1>1, RestartRight DEF DashboardInv, DashboardTypeOK, connectionVars
<1>3. principals' \in [Accounts -> 0..1] /\ moved' \in Nat
  <2>1. account \in Accounts /\ principals[account] \in 0..1
    <3>1. account # Nobody
      BY DEF Refresh, Eligible, DeriveEligibilityState
    <3> QED  BY <3>1 DEF DashboardInv, DashboardTypeOK
  <2>2. 1 - principals[account] \in 0..1
    BY <2>1
  <2>3. principals' = [principals EXCEPT ![account] = 1 - principals[account]]
    BY <1>1
  <2>4. moved' \in Nat
    BY <1>1 DEF DashboardInv, DashboardTypeOK
  <2> QED  BY <2>1, <2>2, <2>3, <2>4 DEF DashboardInv, DashboardTypeOK
<1>4. DashboardTypeOK'
  BY <1>1, <1>2, <1>3
     DEF DashboardInv, DashboardTypeOK, connectionVars, signVars, claimVars
<1>5. VerifiesRight'
  BY <1>1, VerifiesStay DEF DashboardInv, DashboardTypeOK, claimVars
<1> QED  BY <1>2, <1>4, <1>5 DEF DashboardInv

(* A step of the declaration touches neither panel. *)
LEMMA SigningSteps ==
    ASSUME DashboardInv,
           signings' \in Seq(Signing), signers' \in SUBSET Accounts,
           verdict' \in {Nobody, "ok", "wrong-signer"},
           eligibility' \in {"unknown", "eligible", "ineligible"},
           UNCHANGED <<connectionVars, lockVars, claimVars, protocolVars>>
    PROVE  DashboardInv'
<1>1. DashboardTypeOK'
  BY DEF DashboardInv, DashboardTypeOK, connectionVars, lockVars, claimVars,
         protocolVars
<1>2. LockRunsRight'
  BY LockPanelStays DEF DashboardInv, connectionVars, lockVars
<1>3. VerifiesRight'
  BY VerifiesStay DEF DashboardInv, DashboardTypeOK, claimVars, protocolVars
<1> QED  BY <1>1, <1>2, <1>3 DEF DashboardInv

LEMMA SigningToTyped ==
    ASSUME DashboardTypeOK, NEW i \in DOMAIN signings,
           NEW step \in {"sign", "check", "done", "failed"}, SigningTo(i, step)
    PROVE  signings' \in Seq(Signing)
<1>1. signings[i] \in Signing
  BY LenProperties, ElementOfSeq DEF DashboardTypeOK
<1>2. [signings[i] EXCEPT !.step = step] \in Signing
  BY <1>1 DEF Signing
<1>3. signings' = [signings EXCEPT ![i] = [signings[i] EXCEPT !.step = step]]
  BY DEF SigningTo
<1> QED  BY <1>2, <1>3, OneChanges DEF DashboardTypeOK

LEMMA StartSignKeeps ==
    ASSUME DashboardInv, StartSign
    PROVE  DashboardInv'
<1>1. [by |-> account, step |-> "sign"] \in Signing
  BY DEF StartSign, DashboardInv, DashboardTypeOK, Signing
<1>2. signings' \in Seq(Signing)
  BY <1>1, OneMore DEF StartSign, DashboardInv, DashboardTypeOK
<1> QED  BY <1>2, SigningSteps DEF StartSign, DashboardInv, DashboardTypeOK

LEMMA SignKeeps ==
    ASSUME DashboardInv, NEW i \in DOMAIN signings, Sign(i)
    PROVE  DashboardInv'
<1>1. signings' \in Seq(Signing)
  BY SigningToTyped DEF Sign, DashboardInv
<1>2. /\ signers' \in SUBSET Accounts
      /\ verdict' \in {Nobody, "ok", "wrong-signer"}
  <2>1. account # Nobody => account \in Accounts
    BY DEF DashboardInv, DashboardTypeOK
  <2>2. signings[i] \in Signing
    BY LenProperties, ElementOfSeq DEF DashboardInv, DashboardTypeOK
  <2>3. signings[i].by \in Accounts
    BY <2>2 DEF Signing
  <2> QED  BY <2>1, <2>3 DEF Sign, DashboardInv, DashboardTypeOK
<1> QED  BY <1>1, <1>2, SigningSteps DEF Sign, DashboardInv, DashboardTypeOK

LEMMA CheckEligibilityKeeps ==
    ASSUME DashboardInv, NEW i \in DOMAIN signings, CheckEligibility(i)
    PROVE  DashboardInv'
<1>1. signings' \in Seq(Signing)
  BY SigningToTyped DEF CheckEligibility, DashboardInv
<1> QED  BY <1>1, SigningSteps
         DEF CheckEligibility, DashboardInv, DashboardTypeOK

(* A read of the lock panel answers: only a live run shows its answer.     *)
LEMMA ReadLockPanelKeeps ==
    ASSUME DashboardInv, NEW i \in DOMAIN lockRuns, ReadLockPanel(i)
    PROVE  DashboardInv'
<1> USE DEF DashboardInv
<1>1. /\ lockRuns[i] \in LockRun
      /\ lockRuns[i].by \in Accounts /\ principals[lockRuns[i].by] \in 0..1
  <2>1. lockRuns[i] \in LockRun
    BY LenProperties, ElementOfSeq DEF DashboardTypeOK
  <2> QED  BY <2>1 DEF LockRun, DashboardTypeOK
<1>2. PICK step \in {"principal", "done", "failed"} :
          /\ LockRunTo(i, step)
          /\ step = "done" =>
                 shown' = IF lockRuns[i].live
                          THEN [of |-> lockRuns[i].by,
                                locked |-> principals[lockRuns[i].by]]
                          ELSE shown
          /\ step # "done" => shown' = shown
          /\ UNCHANGED <<connectionVars, signVars, claimVars, protocolVars>>
  BY DEF ReadLockPanel
<1>3. lockRuns[i].step \in {"balance", "principal"}
  BY DEF ReadLockPanel
<1> DEFINE run == [lockRuns[i] EXCEPT !.step = step]
<1>4. /\ run \in LockRun /\ run.step = step
      /\ run.by = lockRuns[i].by /\ run.live = lockRuns[i].live
  BY <1>1 DEF LockRun
<1>5. lockRuns' = [lockRuns EXCEPT ![i] = run]
  BY <1>2 DEF LockRunTo
<1> HIDE DEF run
<1>6. /\ lockRuns' \in Seq(LockRun) /\ Len(lockRuns') = Len(lockRuns)
      /\ DOMAIN lockRuns' = DOMAIN lockRuns /\ lockRuns'[i] = run
      /\ \A j \in DOMAIN lockRuns \ {i} : lockRuns'[j] = lockRuns[j]
  BY <1>4, <1>5, OneChanges DEF DashboardTypeOK
<1>7. shown' \in [of : Accounts, locked : 0..1] \cup {Nobody}
  BY <1>1, <1>2 DEF DashboardTypeOK
<1>8. DashboardTypeOK'
  BY <1>2, <1>6, <1>7 DEF DashboardTypeOK, connectionVars, signVars, claimVars,
                          protocolVars
<1>9. LockRunsRight'
  <2>1. account' = account /\ rightChain' = rightChain
    BY <1>2 DEF connectionVars
  <2>2. account # Nobody /\ rightChain =>
            lockRuns' # << >> /\ lockRuns'[Len(lockRuns')].live
    <3> SUFFICES ASSUME account # Nobody, rightChain
                 PROVE  lockRuns' # << >> /\ lockRuns'[Len(lockRuns')].live
      OBVIOUS
    <3>1. lockRuns # << >> /\ lockRuns[Len(lockRuns)].live
      BY DEF LockRunsRight
    <3>2. Len(lockRuns) \in DOMAIN lockRuns
      BY <3>1, EmptySeq, LenProperties DEF DashboardTypeOK
    <3>3. lockRuns'[Len(lockRuns')].live
      BY <1>4, <1>6, <3>1, <3>2
    <3>4. lockRuns' # << >>
      BY <1>6, EmptySeq
    <3> QED  BY <3>3, <3>4
  <2>3. ASSUME NEW j \in DOMAIN lockRuns', lockRuns'[j].live
        PROVE  /\ j = Len(lockRuns')
               /\ account # Nobody /\ rightChain
               /\ lockRuns'[j].by = account
               /\ lockRuns'[j].step = "done" =>
                      shown' # Nobody /\ shown'.of = account
    <3>1. /\ j \in DOMAIN lockRuns /\ lockRuns[j].live
          /\ lockRuns'[j].by = lockRuns[j].by
      BY <1>4, <1>6, <2>3
    <3>2. /\ j = Len(lockRuns') /\ account # Nobody /\ rightChain
          /\ lockRuns'[j].by = account /\ lockRuns[j].by = account
      BY <1>6, <3>1 DEF LockRunsRight
    <3>3. CASE j = i
      <4>1. step = "done" =>
                shown' = [of |-> account, locked |-> principals[account]]
        BY <1>2, <3>1, <3>2, <3>3
      <4>2. [of |-> account, locked |-> principals[account]] # Nobody
        BY <1>1, <3>2, <3>3, DashboardAssumption
      <4>3. lockRuns'[j].step = step
        BY <1>4, <1>6, <3>3
      <4> QED  BY <3>2, <4>1, <4>2, <4>3
    <3>4. CASE j # i
      <4>1. ~lockRuns[i].live
        BY <1>6, <3>1, <3>2, <3>4 DEF LockRunsRight
      <4>2. shown' = shown /\ lockRuns'[j] = lockRuns[j]
        BY <1>2, <1>6, <3>1, <3>4, <4>1
      <4> QED  BY <3>1, <3>2, <4>2 DEF LockRunsRight
    <3> QED  BY <3>3, <3>4
  <2> QED  BY <2>1, <2>2, <2>3 DEF LockRunsRight
<1>10. VerifiesRight'
  BY <1>2, VerifiesStay DEF DashboardTypeOK, claimVars, protocolVars
<1> QED  BY <1>8, <1>9, <1>10

(* A step of a verification leaves the lock panel alone. *)
LEMMA VerifySteps ==
    ASSUME DashboardInv, verifies' \in Seq(VerifyRun),
           verification' \in [ok : BOOLEAN, payable : BOOLEAN], VerifiesRight',
           UNCHANGED <<panelClaimed, connectionVars, signVars, lockVars,
                       protocolVars>>
    PROVE  DashboardInv'
<1>1. DashboardTypeOK'
  BY DEF DashboardInv, DashboardTypeOK, connectionVars, signVars, lockVars,
         protocolVars
<1>2. LockRunsRight'
  BY LockPanelStays DEF DashboardInv, connectionVars, lockVars
<1> QED  BY <1>1, <1>2 DEF DashboardInv

LEMMA StartVerifyKeeps ==
    ASSUME DashboardInv, StartVerify
    PROVE  DashboardInv'
<1> DEFINE run == [by |-> account, step |-> "cycles", knew |-> panelClaimed,
                   payable |-> FALSE]
<1>1. /\ UNCHANGED <<panelClaimed, connectionVars, signVars, lockVars,
                     protocolVars>>
      /\ cycle' = cycle
  BY DEF StartVerify, protocolVars
<1>2. CASE account \in Entitled
  <2>1. run \in VerifyRun
    BY <1>2, DashboardAssumption
       DEF DashboardInv, DashboardTypeOK, VerifyRun, Reads
  <2>2. verifies' = Append(verifies, run) /\ verification' = verification
    BY <1>2 DEF StartVerify
  <2>3. VerifyRight(run, cycle')
    BY DEF VerifyRight
  <2> HIDE DEF run
  <2>4. /\ verifies' \in Seq(VerifyRun)
        /\ verifies'[Len(verifies')] = run
        /\ \A j \in DOMAIN verifies : verifies'[j] = verifies[j]
        /\ DOMAIN verifies' = DOMAIN verifies \cup {Len(verifies')}
    BY <2>1, <2>2, OneMore DEF DashboardInv, DashboardTypeOK
  <2>5. ASSUME NEW j \in DOMAIN verifies'
        PROVE  VerifyRight(verifies'[j], cycle') 
    <3>1. CASE j \in DOMAIN verifies
      <4>1. VerifyRight(verifies[j], cycle) /\ verifies'[j] = verifies[j]
        BY <2>4, <3>1 DEF DashboardInv, VerifiesRight
      <4> QED  BY <1>1, <4>1 DEF VerifyRight
    <3>2. CASE j = Len(verifies')
      BY <2>3, <2>4, <3>2 DEF VerifyRight
    <3> QED  BY <2>4, <2>5, <3>1, <3>2
  <2>6. VerifiedWasPayable'
    BY <2>2 DEF DashboardInv, VerifiesRight, VerifiedWasPayable
  <2>7. VerifiesRight'
    BY <2>5, <2>6 DEF VerifiesRight
  <2> QED  BY <1>1, <2>2, <2>4, <2>7, VerifySteps
           DEF DashboardInv, DashboardTypeOK
<1>3. CASE account \notin Entitled
  <2>1. verifies' = verifies /\ verification' = Rejected
    BY <1>3 DEF StartVerify
  <2>2. \A j \in DOMAIN verifies' : VerifyRight(verifies'[j], cycle')
    BY <1>1, <2>1 DEF DashboardInv, VerifiesRight, VerifyRight
  <2>3. VerifiesRight'
    BY <2>1, <2>2 DEF VerifiesRight, VerifiedWasPayable, Rejected
  <2>4. verification' \in [ok : BOOLEAN, payable : BOOLEAN]
    BY <2>1 DEF Rejected
  <2> QED  BY <1>1, <2>1, <2>3, <2>4, VerifySteps
           DEF DashboardInv, DashboardTypeOK
<1> QED  BY <1>2, <1>3

(* A read of a verification answers.  What the first read found payable or *)
(* not is settled then; each later one rules out one reason why it was not.*)
LEMMA VerifyReadKeeps ==
    ASSUME DashboardInv, NEW i \in DOMAIN verifies, VerifyRead(i)
    PROVE  DashboardInv'
<1> DEFINE v == verifies[i]
           seen == IF v.step = "cycles" THEN Payable(v.by) ELSE v.payable
<1>1. v \in VerifyRun /\ VerifyRight(v, cycle) /\ VerifiedWasPayable
  BY LenProperties, ElementOfSeq
     DEF DashboardInv, DashboardTypeOK, VerifiesRight
<1>2. /\ v.step \in Reads /\ v.by \in Accounts /\ v.payable \in BOOLEAN
      /\ seen \in BOOLEAN /\ v.knew \in BOOLEAN
  BY <1>1 DEF VerifyRead, VerifyRun, Reads, NextRead, Payable
<1>3. /\ UNCHANGED <<panelClaimed, connectionVars, signVars, lockVars,
                     protocolVars>>
      /\ cycle' = cycle
  BY DEF VerifyRead, protocolVars
<1>4. cycle.remaining \in Nat /\ Entitlement \in Nat
  BY DashboardAssumption DEF DashboardInv, DashboardTypeOK
<1>5. PICK step \in {"assetFunding", "claimed", "balance", "remaining", "done",
                     "failed"} :
          /\ VerifyTo(i, step)
          /\ \/ step = "done" /\ verification' = Rejected
             \/ /\ step # "done" /\ verification' = verification
                /\ step # "failed" =>
                      ReadOk(v.step, v.by) /\ v.step # "remaining"
                        /\ step = NextRead[v.step]
             \/ /\ step = "done" /\ v.step = "remaining"
                /\ ReadOk(v.step, v.by)
                /\ verification' = [ok |-> ~v.knew, payable |-> v.payable]
  <2>1. CASE ~ReadOk(v.step, v.by) /\ verification' = Rejected /\ VerifyTo(i, "done")
    BY <2>1
  <2>2. CASE /\ ReadOk(v.step, v.by) /\ v.step \in DOMAIN NextRead
             /\ VerifyTo(i, NextRead[v.step]) /\ UNCHANGED verification
    <3>1. NextRead[v.step] \in {"assetFunding", "claimed", "balance", "remaining"}
          /\ v.step # "remaining"
      BY <2>2 DEF NextRead
    <3> QED  BY <2>2, <3>1
  <2>3. CASE /\ ReadOk(v.step, v.by) /\ v.step = "remaining"
             /\ verification' = [ok |-> ~v.knew, payable |-> v.payable]
             /\ VerifyTo(i, "done")
    BY <2>3
  <2>4. CASE VerifyTo(i, "failed") /\ UNCHANGED verification
    BY <2>4
  <2> QED  BY <2>1, <2>2, <2>3, <2>4 DEF VerifyRead
<1> DEFINE run == [v EXCEPT !.step = step, !.payable = seen]
<1>6. /\ run \in VerifyRun /\ run.step = step /\ run.by = v.by
      /\ run.payable = seen
  BY <1>1, <1>2 DEF VerifyRun, Reads
<1>7. verifies' = [verifies EXCEPT ![i] = run]
  BY <1>5 DEF VerifyTo
<1>8. VerifyRight(run, cycle')
  <2>1. step \in {"assetFunding", "claimed", "balance", "remaining"} =>
            ReadOk(v.step, v.by) /\ step = NextRead[v.step]
    BY <1>5
  <2>2. CASE step = "assetFunding"
    <3>1. v.step = "cycles"
      BY <1>2, <1>5, <2>1, <2>2 DEF NextRead, Reads
    <3>2. cycle.published
      BY <2>1, <2>2, <3>1 DEF ReadOk
    <3>3. seen \/ v.by \in cycle.claimed \/ cycle.remaining < Entitlement
      BY <1>4, <3>1, <3>2 DEF Payable
    <3> QED  BY <1>3, <1>6, <2>2, <3>3 DEF VerifyRight
  <2>3. CASE step = "claimed"
    <3>1. v.step = "assetFunding"
      BY <1>2, <1>5, <2>1, <2>3 DEF NextRead, Reads
    <3>2. seen \/ v.by \in cycle.claimed \/ cycle.remaining < Entitlement
      BY <1>1, <3>1 DEF VerifyRight
    <3> QED  BY <1>3, <1>6, <2>3, <3>2 DEF VerifyRight
  <2>4. CASE step = "balance"
    <3>1. v.step = "claimed"
      BY <1>2, <1>5, <2>1, <2>4 DEF NextRead, Reads
    <3>2. v.by \notin cycle.claimed
      BY <2>1, <2>4, <3>1 DEF ReadOk
    <3>3. seen \/ cycle.remaining < Entitlement
      BY <1>1, <3>1, <3>2 DEF VerifyRight
    <3> QED  BY <1>3, <1>6, <2>4, <3>3 DEF VerifyRight
  <2>5. CASE step = "remaining"
    <3>1. v.step = "balance"
      BY <1>2, <1>5, <2>1, <2>5 DEF NextRead, Reads
    <3>2. seen \/ cycle.remaining < Entitlement
      BY <1>1, <3>1 DEF VerifyRight
    <3> QED  BY <1>3, <1>6, <2>5, <3>2 DEF VerifyRight
  <2>6. CASE step \in {"done", "failed"}
    BY <1>6, <2>6 DEF VerifyRight
  <2> QED  BY <2>2, <2>3, <2>4, <2>5, <2>6
<1>9. VerifiedWasPayable'
  <2>1. ASSUME v.step = "remaining", ReadOk(v.step, v.by) PROVE v.payable
    BY <1>1, <1>4, <2>1 DEF VerifyRight, ReadOk
  <2> QED  BY <1>1, <1>5, <2>1 DEF VerifiedWasPayable, Rejected
<1>10. verification' \in [ok : BOOLEAN, payable : BOOLEAN]
  <2>1. /\ verification \in [ok : BOOLEAN, payable : BOOLEAN]
        /\ Rejected \in [ok : BOOLEAN, payable : BOOLEAN]
    BY DEF DashboardInv, DashboardTypeOK, Rejected
  <2>2. v.payable \in BOOLEAN
    BY <1>2
  <2>3. [ok |-> ~v.knew, payable |-> v.payable]
            \in [ok : BOOLEAN, payable : BOOLEAN]
    <3> DEFINE k == ~v.knew
    <3>1. k \in BOOLEAN
      OBVIOUS
    <3> HIDE DEF k
    <3>2. [ok |-> k, payable |-> v.payable] \in [ok : BOOLEAN, payable : BOOLEAN]
      BY <2>2, <3>1
    <3> QED  BY <3>2 DEF k
  <2> QED  BY <1>5, <2>1, <2>3
<1> HIDE DEF run
<1>11. /\ verifies' \in Seq(VerifyRun) /\ DOMAIN verifies' = DOMAIN verifies
       /\ verifies'[i] = run
       /\ \A j \in DOMAIN verifies \ {i} : verifies'[j] = verifies[j]
  BY <1>6, <1>7, OneChanges DEF DashboardInv, DashboardTypeOK
<1>12. ASSUME NEW j \in DOMAIN verifies'
       PROVE  VerifyRight(verifies'[j], cycle')
  <2>1. CASE j = i
    BY <1>8, <1>11, <2>1 DEF VerifyRight
  <2>2. CASE j # i
    <3>1. VerifyRight(verifies[j], cycle) /\ verifies'[j] = verifies[j]
      BY <1>11, <1>12, <2>2 DEF DashboardInv, VerifiesRight
    <3> QED  BY <1>3, <3>1 DEF VerifyRight
  <2> QED  BY <2>1, <2>2
<1>13. VerifiesRight'
  BY <1>9, <1>12 DEF VerifiesRight
<1> QED  BY <1>3, <1>10, <1>11, <1>13, VerifySteps

(* What happens to the cycle only makes claims less payable. *)
LEMMA CycleSteps ==
    ASSUME DashboardInv,
           cycle' \in [published : BOOLEAN, claimed : SUBSET Accounts,
                       remaining : Nat],
           cycle.claimed \subseteq cycle'.claimed,
           cycle'.remaining <= cycle.remaining,
           panelClaimed' \in BOOLEAN, moved' \in Nat,
           UNCHANGED <<verifies, verification, principals, connectionVars,
                       signVars, lockVars>>
    PROVE  DashboardInv'
<1>1. DashboardTypeOK'
  BY DEF DashboardInv, DashboardTypeOK, connectionVars, signVars, lockVars
<1>2. LockRunsRight'
  BY LockPanelStays DEF DashboardInv, connectionVars, lockVars
<1>3. VerifiesRight'
  BY VerifiesStay DEF DashboardInv
<1> QED  BY <1>1, <1>2, <1>3 DEF DashboardInv

LEMMA PayingKeeps ==
    ASSUME DashboardInv, NEW a \in Accounts, Payable(a),
           cycle' = [cycle EXCEPT !.claimed = @ \cup {a},
                                  !.remaining = @ - Entitlement]
    PROVE  /\ cycle' \in [published : BOOLEAN, claimed : SUBSET Accounts,
                          remaining : Nat]
           /\ cycle.claimed \subseteq cycle'.claimed
           /\ cycle'.remaining <= cycle.remaining
<1>1. cycle.remaining \in Nat /\ Entitlement \in Nat
  BY DashboardAssumption DEF DashboardInv, DashboardTypeOK
<1>2. cycle.remaining - Entitlement \in Nat
      /\ cycle.remaining - Entitlement <= cycle.remaining
  BY <1>1 DEF Payable
<1> QED  BY <1>2 DEF DashboardInv, DashboardTypeOK

LEMMA ClaimKeeps ==
    ASSUME DashboardInv, Claim
    PROVE  DashboardInv'
<1>1. account \in Accounts
  BY DashboardAssumption DEF Claim
<1>2. /\ cycle' \in [published : BOOLEAN, claimed : SUBSET Accounts,
                     remaining : Nat]
      /\ cycle.claimed \subseteq cycle'.claimed
      /\ cycle'.remaining <= cycle.remaining
  BY <1>1, PayingKeeps DEF Claim
<1> QED  BY <1>2, CycleSteps DEF Claim, DashboardInv, DashboardTypeOK

LEMMA ProtocolMovesKeeps ==
    ASSUME DashboardInv, ProtocolMoves
    PROVE  DashboardInv'
<1> DEFINE Less == /\ cycle' \in [published : BOOLEAN, claimed : SUBSET Accounts,
                                  remaining : Nat]
                   /\ cycle.claimed \subseteq cycle'.claimed
                   /\ cycle'.remaining <= cycle.remaining
<1>1. cycle.remaining \in Nat
  BY DEF DashboardInv, DashboardTypeOK
<1>2. Less
  <2>1. ASSUME cycle' = [cycle EXCEPT !.published = TRUE]
        PROVE  Less
    <3>1. cycle' \in [published : BOOLEAN, claimed : SUBSET Accounts,
                      remaining : Nat]
      BY <2>1 DEF DashboardInv, DashboardTypeOK
    <3>2. cycle'.claimed = cycle.claimed /\ cycle'.remaining = cycle.remaining
      BY <2>1 DEF DashboardInv, DashboardTypeOK
    <3> QED  BY <1>1, <3>1, <3>2
  <2>2. ASSUME NEW a \in Entitled, Payable(a),
               cycle' = [cycle EXCEPT !.claimed = @ \cup {a},
                                      !.remaining = @ - Entitlement]
        PROVE  Less
    <3>1. a \in Accounts
      BY <2>2, DashboardAssumption
    <3>2. /\ cycle' \in [published : BOOLEAN, claimed : SUBSET Accounts,
                         remaining : Nat]
          /\ cycle.claimed \subseteq cycle'.claimed
          /\ cycle'.remaining <= cycle.remaining
      BY <2>2, <3>1, PayingKeeps
    <3> QED  BY <3>2
  <2>3. ASSUME NEW less \in 0 .. cycle.remaining - 1,
               cycle' = [cycle EXCEPT !.remaining = less]
        PROVE  Less
    <3>1. cycle \in [published : BOOLEAN, claimed : SUBSET Accounts,
                     remaining : Nat]
      BY DEF DashboardInv, DashboardTypeOK
    <3>2. less \in Nat /\ less <= cycle.remaining
      BY <1>1, <2>3
    <3>3. cycle' \in [published : BOOLEAN, claimed : SUBSET Accounts,
                      remaining : Nat]
      BY <2>3, <3>1, <3>2
    <3>4. cycle'.claimed = cycle.claimed /\ cycle'.remaining = less
      BY <2>3, <3>1
    <3> QED  BY <3>2, <3>3, <3>4
  <2> HIDE DEF Less
  <2> QED  BY <2>1, <2>2, <2>3 DEF ProtocolMoves
<1>3. moved' \in Nat
  <2>1. moved' = moved + 1
    BY DEF ProtocolMoves
  <2> QED  BY <2>1 DEF DashboardInv, DashboardTypeOK
<1> QED  BY <1>2, <1>3, CycleSteps
         DEF ProtocolMoves, DashboardInv, DashboardTypeOK, claimVars

LEMMA DashboardStarts == DashboardInit => DashboardInv
<1> SUFFICES ASSUME DashboardInit PROVE DashboardInv
  OBVIOUS
<1>1. /\ signings \in Seq(Signing) /\ lockRuns \in Seq(LockRun)
      /\ verifies \in Seq(VerifyRun)
      /\ DOMAIN lockRuns = {} /\ DOMAIN verifies = {}
  BY EmptySeq, LenProperties DEF DashboardInit
<1>2. DashboardTypeOK
  <2>1. verification \in [ok : BOOLEAN, payable : BOOLEAN]
    BY DEF DashboardInit
  <2>2. cycle \in [published : BOOLEAN, claimed : SUBSET Accounts,
                   remaining : Nat]
    BY DashboardAssumption DEF DashboardInit
  <2>3. principals \in [Accounts -> 0..1]
    BY DEF DashboardInit
  <2> QED  BY <1>1, <2>1, <2>2, <2>3 DEF DashboardInit, DashboardTypeOK
<1>3. LockRunsRight
  BY <1>1 DEF DashboardInit, LockRunsRight
<1>4. VerifiesRight
  BY <1>1 DEF DashboardInit, VerifiesRight, VerifiedWasPayable
<1> QED  BY <1>2, <1>3, <1>4 DEF DashboardInv

LEMMA DashboardKeeps == DashboardInv /\ [DashboardNext]_dashboardVars => DashboardInv'
<1> SUFFICES ASSUME DashboardInv, [DashboardNext]_dashboardVars
             PROVE  DashboardInv'
  OBVIOUS
<1>1. CASE DashboardNext
  BY <1>1, SwitchAccountKeeps, SwitchChainKeeps, StartSignKeeps, SignKeeps,
     CheckEligibilityKeeps, ReadLockPanelKeeps, RefreshKeeps, StartVerifyKeeps,
     VerifyReadKeeps, ClaimKeeps, ProtocolMovesKeeps DEF DashboardNext
<1>2. CASE UNCHANGED dashboardVars
  <2>1. UNCHANGED <<panelClaimed, connectionVars, signVars, lockVars, claimVars,
                    protocolVars, moved>>
    BY <1>2 DEF dashboardVars, claimVars, protocolVars
  <2> QED  BY <2>1, CycleSteps
           DEF DashboardInv, DashboardTypeOK, claimVars, protocolVars
<1> QED  BY <1>1, <1>2

LEMMA DashboardInvAlways == DashboardSpec => []DashboardInv
BY DashboardStarts, DashboardKeeps, PTL DEF DashboardSpec

(* Types: what is connected, signed, read, verified and shown stays of its  *)
(* kind (the component state and callbacks of AppDashboard).               *)
THEOREM DashboardTyped == DashboardSpec => []DashboardTypeOK
<1>1. DashboardInv => DashboardTypeOK
  BY DEF DashboardInv
<1> QED  BY <1>1, DashboardInvAlways, PTL

(* However often account and network change and in whatever order the lock *)
(* panel's effects answer, once the latest has finished its reads the      *)
(* panel shows the connected account's position: the cleanup of the        *)
(* effect (live = false) is enough.                                        *)
THEOREM PanelSettles == DashboardSpec => []LockPanelSettles
<1>1. ASSUME DashboardInv PROVE LockPanelSettles
  <2> SUFFICES ASSUME account # Nobody, rightChain, lockRuns # << >>,
                      lockRuns[Len(lockRuns)].step = "done"
               PROVE  shown # Nobody /\ shown.of = account
    BY DEF LockPanelSettles
  <2>1. Len(lockRuns) \in DOMAIN lockRuns
    BY <1>1, EmptySeq, LenProperties DEF DashboardInv, DashboardTypeOK
  <2> QED  BY <1>1, <2>1 DEF DashboardInv, LockRunsRight
<1> QED  BY <1>1, DashboardInvAlways, PTL

(* A verification that succeeds was of a claim that was payable at the     *)
(* first of its five reads, whoever claims or recovers between them.       *)
THEOREM VerifiedPayable == DashboardSpec => []VerifiedWasPayable
<1>1. DashboardInv => VerifiedWasPayable
  BY DEF DashboardInv, VerifiesRight
<1> QED  BY <1>1, DashboardInvAlways, PTL

----------------------------------------------------------------------------
(* THE TRANSACTIONS                                                        *)

LifeSteps == {"read-locked", "read-count", "validate", "read-allowance",
              "approve", "await-approval", "reread-allowance", "simulate",
              "submit", "await-receipt", "reconcile", "done", "failed"}
Life == [kind : Kinds, before : Int, mark : Nat, took : BOOLEAN, id : Int,
         step : LifeSteps]
Fates == {"sent", "repriced", "cancelled", "replaced"}
Tx == [run : Nat, what : {"approve", "action"}, fate : Fates]

WalletTypeOK ==
    /\ life \in Seq(Life)
    /\ withdrawId \in Int /\ verified \in BOOLEAN /\ uiClaimed \in BOOLEAN
    /\ pool \in Seq(Tx)
    /\ receipts \in SUBSET [tx : Tx, status : {"success", "reverted"}]
    /\ allowance \in [ApprovedKinds \cap Kinds -> BOOLEAN]
    /\ positions \in Seq(BOOLEAN)
    /\ remaining \in Int /\ claimed \in BOOLEAN
    /\ otherClaims \in 0..MaxOtherClaims
    /\ effects \in [Kinds -> Nat]

(* What is pending was sent by a lifecycle. *)
RunsKnown == \A i \in DOMAIN pool : pool[i].run \in DOMAIN life

(* The claim manager's books: what is left of the cycle, and that the      *)
(* account's claim took effect once if it is claimed.                      *)
ClaimBooks ==
    /\ remaining = Funded - (IF claimed THEN Distribution ELSE 0) - otherClaims
    /\ "claim" \in Kinds => effects["claim"] = IF claimed THEN 1 ELSE 0

(* What makes a claim's reconciliation conclusive: however many others     *)
(* claim, enough is left for the account's own claim while it is open.     *)
(* Trades, which pass no reconcile callback, are left out.                 *)
Reconcilable ==
    /\ "trade" \notin Kinds
    /\ Distribution + MaxOtherClaims <= Funded

(* What a lifecycle remembers of the chain, against the chain as it is:    *)
(* locked is the principal now, e what took effect so far.  Other locks    *)
(* and withdrawals in between only weaken the inequalities.                *)
RunRight(l, locked, e) ==
    /\ l.mark <= e[l.kind]
    /\ l.kind = "lock" /\ l.step \notin {"read-locked", "failed"} =>
           locked + l.mark <= l.before + e["lock"]
    /\ l.kind = "withdraw" /\ l.step \notin {"read-locked", "failed"} =>
           l.before + l.mark <= locked + e["withdraw"]
    /\ l.kind = "claim" /\ l.step \in {"submit", "await-receipt", "reconcile"} =>
           l.mark = 0
    /\ Reconcilable /\ l.step = "done" => l.took

LivesRight == \A r \in DOMAIN life : RunRight(life[r], Locked, effects)

WalletInv == WalletTypeOK /\ RunsKnown /\ ClaimBooks /\ LivesRight

LEMMA LockedNat ==
    ASSUME WalletTypeOK
    PROVE  /\ Locked \in Nat
           /\ IsFiniteSet({p \in DOMAIN positions : positions[p]})
<1>1. DOMAIN positions = 1..Len(positions) /\ Len(positions) \in Nat
  BY LenProperties DEF WalletTypeOK
<1>2. IsFiniteSet(DOMAIN positions)
  BY <1>1, FS_Interval
<1>3. IsFiniteSet({p \in DOMAIN positions : positions[p]})
  BY <1>2, FS_Subset
<1> QED  BY <1>3, FS_CardinalityType DEF Locked

LEMMA LockedAfter ==
    ASSUME positions' \in Seq(BOOLEAN)
    PROVE  Locked' \in Nat
<1>1. DOMAIN positions' = 1..Len(positions') /\ Len(positions') \in Nat
  BY LenProperties
<1>2. IsFiniteSet(DOMAIN positions')
  BY <1>1, FS_Interval
<1>3. IsFiniteSet({p \in DOMAIN positions' : positions'[p]})
  BY <1>2, FS_Subset
<1> QED  BY <1>3, FS_CardinalityType DEF Locked

(* A lock adds one to the locked principal. *)
LEMMA LockAdds ==
    ASSUME WalletTypeOK, positions' = Append(positions, TRUE)
    PROVE  positions' \in Seq(BOOLEAN) /\ Locked' = Locked + 1
<1> DEFINE here == {p \in DOMAIN positions : positions[p]}
           then == {p \in DOMAIN positions' : positions'[p]}
<1>1. /\ positions' \in Seq(BOOLEAN) /\ positions'[Len(positions')] = TRUE
      /\ \A j \in DOMAIN positions : positions'[j] = positions[j]
      /\ DOMAIN positions' = DOMAIN positions \cup {Len(positions')}
      /\ Len(positions') \notin DOMAIN positions
  <2> DEFINE yes == TRUE
  <2>1. positions' = Append(positions, yes) /\ yes = TRUE
    OBVIOUS
  <2>2. positions \in Seq(BOOLEAN) /\ yes \in BOOLEAN
    BY DEF WalletTypeOK
  <2> HIDE DEF yes
  <2>3. LET t == Append(positions, yes)
        IN  /\ t \in Seq(BOOLEAN) /\ Len(t) = Len(positions) + 1
            /\ Len(t) \in Nat /\ t[Len(t)] = yes
            /\ \A j \in DOMAIN positions : j \in DOMAIN t /\ t[j] = positions[j]
            /\ DOMAIN t = DOMAIN positions \cup {Len(t)}
            /\ Len(t) \notin DOMAIN positions
    BY <2>2, OneMore
  <2> QED  BY <2>1, <2>3
<1>2. then = here \cup {Len(positions')} /\ Len(positions') \notin here
  BY <1>1
<1>3. Cardinality(then) = Cardinality(here) + 1
  BY <1>2, LockedNat, FS_AddElement
<1> QED  BY <1>1, <1>3 DEF Locked

(* A withdrawal takes one away. *)
LEMMA WithdrawTakes ==
    ASSUME WalletTypeOK, NEW p \in DOMAIN positions, positions[p],
           positions' = [positions EXCEPT ![p] = FALSE]
    PROVE  positions' \in Seq(BOOLEAN) /\ Locked' = Locked - 1
<1> DEFINE here == {q \in DOMAIN positions : positions[q]}
           then == {q \in DOMAIN positions' : positions'[q]}
<1>1. /\ positions' \in Seq(BOOLEAN) /\ DOMAIN positions' = DOMAIN positions
      /\ positions'[p] = FALSE
      /\ \A j \in DOMAIN positions \ {p} : positions'[j] = positions[j]
  BY OneChanges DEF WalletTypeOK
<1>2. then = here \ {p} /\ p \in here
  BY <1>1
<1>3. Cardinality(then) = Cardinality(here) - 1
  BY <1>2, LockedNat, FS_RemoveElement
<1> QED  BY <1>1, <1>3 DEF Locked

(* A step of one lifecycle.  It keeps the kind and the mark, and the chain  *)
(* stands still.                                                           *)
LEMMA LifeStep ==
    ASSUME WalletInv, NEW r \in DOMAIN life, NEW l \in Life,
           life' = [life EXCEPT ![r] = l],
           RunRight(l, Locked, effects),
           pool' \in Seq(Tx),
           \A i \in DOMAIN pool' : pool'[i].run \in DOMAIN life,
           withdrawId' \in Int, uiClaimed' \in BOOLEAN, verified' \in BOOLEAN,
           UNCHANGED <<receipts, stateVars, otherClaims>>
    PROVE  WalletInv'
<1>1. /\ life' \in Seq(Life) /\ DOMAIN life' = DOMAIN life /\ life'[r] = l
      /\ \A j \in DOMAIN life \ {r} : life'[j] = life[j]
  BY OneChanges DEF WalletInv, WalletTypeOK
<1>2. WalletTypeOK'
  BY <1>1 DEF WalletInv, WalletTypeOK, stateVars
<1>3. RunsKnown'
  BY <1>1 DEF RunsKnown
<1>4. ClaimBooks'
  BY DEF WalletInv, ClaimBooks, stateVars
<1>5. Locked' = Locked /\ effects' = effects
  BY DEF Locked, stateVars
<1>6. \A j \in DOMAIN life' : RunRight(life'[j], Locked, effects)
  BY <1>1 DEF WalletInv, LivesRight
<1>7. LivesRight'
  BY <1>5, <1>6 DEF LivesRight
<1> QED  BY <1>2, <1>3, <1>4, <1>7 DEF WalletInv

(* A lifecycle goes on, past its reads of the principal. *)
LEMMA MoveOn ==
    ASSUME WalletInv, NEW r \in DOMAIN life, NEW s \in LifeSteps,
           life' = [life EXCEPT ![r].step = s],
           \/ s = "failed"
           \/ /\ life[r].step \notin {"read-locked", "failed"}
              /\ s # "done"
              /\ s \in {"submit", "await-receipt", "reconcile"} =>
                     \/ life[r].step \in {"submit", "await-receipt"}
                     \/ life[r].kind = "claim" => life[r].mark = 0,
           pool' \in Seq(Tx),
           \A i \in DOMAIN pool' : pool'[i].run \in DOMAIN life,
           UNCHANGED <<panelVars, receipts, stateVars, otherClaims>>
    PROVE  WalletInv'
<1> DEFINE l == [life[r] EXCEPT !.step = s]
<1>1. life[r] \in Life /\ RunRight(life[r], Locked, effects)
  BY LenProperties, ElementOfSeq DEF WalletInv, WalletTypeOK, LivesRight
<1>2. /\ l \in Life /\ l.step = s /\ l.kind = life[r].kind
      /\ l.mark = life[r].mark /\ l.before = life[r].before
  BY <1>1 DEF Life
<1>3. life' = [life EXCEPT ![r] = l]
  OBVIOUS
<1> HIDE DEF l
<1>4. RunRight(l, Locked, effects)
  BY <1>1, <1>2 DEF RunRight
<1> QED  BY <1>2, <1>3, <1>4, LifeStep
         DEF WalletInv, WalletTypeOK, panelVars

LEMMA FailKeeps ==
    ASSUME WalletInv, NEW r \in DOMAIN life, Fail(r),
           UNCHANGED <<receipts, stateVars, otherClaims>>
    PROVE  WalletInv'
<1>1. /\ life' = [life EXCEPT ![r].step = "failed"]
      /\ UNCHANGED <<panelVars, pool>>
  BY DEF Fail, GoTo
<1>2. "failed" \in LifeSteps
  BY DEF LifeSteps
<1> QED  BY <1>1, <1>2, MoveOn DEF WalletInv, WalletTypeOK, RunsKnown

LEMMA GoToKeeps ==
    ASSUME WalletInv, NEW r \in DOMAIN life, NEW s \in LifeSteps, GoTo(r, s),
           life[r].step \notin {"read-locked", "failed"},
           s # "done",
           s \in {"submit", "await-receipt", "reconcile"} =>
               \/ life[r].step \in {"submit", "await-receipt"}
               \/ life[r].kind = "claim" => life[r].mark = 0,
           UNCHANGED <<receipts, stateVars, otherClaims>>
    PROVE  WalletInv'
<1>1. life' = [life EXCEPT ![r].step = s] /\ UNCHANGED <<panelVars, pool>>
  BY DEF GoTo
<1> QED  BY <1>1, MoveOn DEF WalletInv, WalletTypeOK, RunsKnown

(* The principal is read: from here on it is compared with what has taken  *)
(* effect so far, which is no less than when the button was pressed.       *)
LEMMA ReadLockedKeeps ==
    ASSUME WalletInv, NEW r \in DOMAIN life, ReadLocked(r),
           UNCHANGED <<receipts, stateVars, otherClaims>>
    PROVE  WalletInv'
<1> DEFINE s == IF life[r].kind = "lock" THEN "read-count" ELSE "validate"
           l == [life[r] EXCEPT !.before = Locked, !.step = s]
<1>1. life[r] \in Life /\ RunRight(life[r], Locked, effects)
  BY LenProperties, ElementOfSeq DEF WalletInv, WalletTypeOK, LivesRight
<1>2. Locked \in Nat /\ effects \in [Kinds -> Nat]
  BY LockedNat DEF WalletInv, WalletTypeOK
<1>3. /\ l \in Life /\ l.kind = life[r].kind /\ l.mark = life[r].mark
      /\ l.before = Locked /\ l.step \in {"read-count", "validate"}
  <2>1. s \in LifeSteps /\ s \in {"read-count", "validate"}
    BY DEF LifeSteps
  <2> DEFINE q == life[r]
             n == Locked
  <2>2. q \in Life /\ n \in Int
    BY <1>1, <1>2
  <2> HIDE DEF s, q, n
  <2>3. LET m == [q EXCEPT !.before = n, !.step = s]
        IN  /\ m \in Life /\ m.kind = q.kind /\ m.mark = q.mark
            /\ m.before = n /\ m.step = s
    BY <2>1, <2>2 DEF Life
  <2> QED  BY <2>1, <2>3 DEF q, n
<1>4. life' = [life EXCEPT ![r] = l] /\ UNCHANGED <<panelVars, pool>>
  BY DEF ReadLocked
<1> HIDE DEF l
<1>5. l.kind \in Kinds /\ l.mark \in Nat /\ effects[l.kind] \in Nat
      /\ l.mark <= effects[l.kind]
  BY <1>1, <1>2, <1>3 DEF RunRight, Life
<1>6. RunRight(l, Locked, effects)
  BY <1>2, <1>3, <1>5 DEF RunRight
<1> QED  BY <1>3, <1>4, <1>6, LifeStep
         DEF WalletInv, WalletTypeOK, panelVars, RunsKnown

LEMMA ReadCountKeeps ==
    ASSUME WalletInv, NEW r \in DOMAIN life, ReadCount(r),
           UNCHANGED <<receipts, stateVars, otherClaims>>
    PROVE  WalletInv'
<1> DEFINE l == [life[r] EXCEPT !.id = Len(positions), !.step = "validate"]
<1>1. life[r] \in Life /\ RunRight(life[r], Locked, effects)
  BY LenProperties, ElementOfSeq DEF WalletInv, WalletTypeOK, LivesRight
<1>2. Len(positions) \in Nat
  BY LenProperties DEF WalletInv, WalletTypeOK
<1>3. /\ l \in Life /\ l.kind = life[r].kind /\ l.mark = life[r].mark
      /\ l.before = life[r].before /\ l.step = "validate"
  <2>1. "validate" \in LifeSteps
    BY DEF LifeSteps
  <2> DEFINE q == life[r]
             n == Len(positions)
             s == "validate"
  <2>2. q \in Life /\ n \in Int /\ s \in LifeSteps
    BY <1>1, <1>2, <2>1
  <2> HIDE DEF s, q, n
  <2>3. LET m == [q EXCEPT !.id = n, !.step = s]
        IN  /\ m \in Life /\ m.kind = q.kind /\ m.mark = q.mark
            /\ m.before = q.before /\ m.step = s
    BY <2>2 DEF Life
  <2> QED  BY <2>3 DEF q, n, s
<1>4. /\ life' = [life EXCEPT ![r] = l] /\ UNCHANGED <<panelVars, pool>>
      /\ life[r].step = "read-count"
  BY DEF ReadCount
<1> HIDE DEF l
<1>5. RunRight(l, Locked, effects)
  BY <1>1, <1>3, <1>4 DEF RunRight
<1> QED  BY <1>3, <1>4, <1>5, LifeStep
         DEF WalletInv, WalletTypeOK, panelVars, RunsKnown

LEMMA SendKeeps ==
    ASSUME WalletInv, NEW r \in DOMAIN life, NEW at, NEW what, NEW next,
           <<at, what, next>> \in {<<"approve", "approve", "await-approval">>,
                                   <<"submit", "action", "await-receipt">>},
           Send(r, at, what, next),
           UNCHANGED <<receipts, stateVars, otherClaims>>
    PROVE  WalletInv'
<1> DEFINE tx == [run |-> r, what |-> what, fate |-> "sent"]
<1>1. /\ at \in {"approve", "submit"} /\ what \in {"approve", "action"}
      /\ next \in {"await-approval", "await-receipt"}
      /\ next = "await-receipt" => at = "submit"
      /\ life[r].step = at
  BY DEF Send
<1>2. CASE Fail(r)
  BY <1>2, FailKeeps
<1>3. CASE /\ pool' = Append(pool, tx)
           /\ life' = [life EXCEPT ![r].step = next]
           /\ UNCHANGED panelVars
  <2>1. tx \in Tx
    <3>1. r \in Nat
      BY LenProperties DEF WalletInv, WalletTypeOK
    <3> QED  BY <1>1, <3>1 DEF Tx, Fates
  <2>2. tx.run \in DOMAIN life
    OBVIOUS
  <2> HIDE DEF tx
  <2>3. /\ pool' \in Seq(Tx) /\ pool'[Len(pool')] = tx
        /\ \A j \in DOMAIN pool : pool'[j] = pool[j]
        /\ DOMAIN pool' = DOMAIN pool \cup {Len(pool')}
    BY <1>3, <2>1, OneMore DEF WalletInv, WalletTypeOK
  <2>4. \A i \in DOMAIN pool' : pool'[i].run \in DOMAIN life
    BY <2>2, <2>3 DEF WalletInv, RunsKnown
  <2>5. next \in LifeSteps /\ next # "done"
    BY <1>1 DEF LifeSteps
  <2> QED  BY <1>1, <1>3, <2>3, <2>4, <2>5, MoveOn
<1> QED  BY <1>2, <1>3 DEF Send

(* A lifecycle succeeds: what it read says that its action took effect     *)
(* after its button was pressed.                                           *)
LEMMA SucceedKeeps ==
    ASSUME WalletInv, NEW r \in DOMAIN life,
           life[r].step = "reconcile", Reconciled(r), Succeed(r),
           UNCHANGED <<receipts, stateVars, otherClaims>>
    PROVE  WalletInv'
<1> DEFINE q == life[r]
           took == effects[q.kind] > q.mark
           l == [q EXCEPT !.step = "done", !.took = took]
<1>1. q \in Life /\ RunRight(q, Locked, effects) /\ q.step = "reconcile"
  BY LenProperties, ElementOfSeq DEF WalletInv, WalletTypeOK, LivesRight
<1>2. /\ q.kind \in Kinds /\ q.mark \in Nat /\ q.before \in Int /\ q.id \in Int
      /\ effects[q.kind] \in Nat /\ Locked \in Nat
  BY <1>1, LockedNat DEF Life, WalletInv, WalletTypeOK
<1>3. ASSUME Reconcilable PROVE took
  <2>1. q.kind \in {"lock", "withdraw", "claim"}
    BY <1>2, <1>3, WalletAssumption DEF Reconcilable
  <2>2. CASE q.kind = "lock"
    <3>1. Locked = q.before + 1 /\ Locked + q.mark <= q.before + effects["lock"]
      BY <1>1, <2>2 DEF Reconciled, RunRight
    <3> QED  BY <1>2, <2>2, <3>1
  <2>3. CASE q.kind = "withdraw"
    <3>1. Locked = q.before - 1 /\ q.before + q.mark <= Locked + effects["withdraw"]
      BY <1>1, <2>3 DEF Reconciled, RunRight
    <3> QED  BY <1>2, <2>3, <3>1
  <2>4. CASE q.kind = "claim"
    <3>1. remaining < Distribution /\ q.mark = 0
      BY <1>1, <2>4 DEF Reconciled, RunRight
    <3>2. otherClaims \in 0..MaxOtherClaims /\ "claim" \in Kinds
      BY <1>2, <2>4 DEF WalletInv, WalletTypeOK
    <3>3. claimed
      <4>1. CASE ~claimed
        <5>1. remaining = Funded - otherClaims
          BY <3>2, <4>1, WalletAssumption DEF WalletInv, ClaimBooks
        <5> QED  BY <1>3, <3>1, <3>2, <5>1, WalletAssumption DEF Reconcilable
      <4> QED  BY <4>1
    <3>4. effects["claim"] = 1
      BY <3>2, <3>3 DEF WalletInv, ClaimBooks
    <3> QED  BY <2>4, <3>1, <3>4
  <2> QED  BY <2>1, <2>2, <2>3, <2>4
<1>4. /\ l \in Life /\ l.kind = q.kind /\ l.mark = q.mark
      /\ l.before = q.before /\ l.step = "done" /\ l.took = took
  <2>1. "done" \in LifeSteps /\ took \in BOOLEAN
    BY <1>2 DEF LifeSteps
  <2> HIDE DEF took, q
  <2> QED  BY <1>1, <2>1 DEF Life
<1>5. life' = [life EXCEPT ![r] = l] /\ UNCHANGED <<verified, pool>>
  BY DEF Succeed
<1>6. withdrawId' \in Int /\ uiClaimed' \in BOOLEAN
  <2>1. withdrawId' = CASE q.kind = "lock" -> q.id
                        [] q.kind = "withdraw" -> None
                        [] OTHER -> withdrawId
    BY DEF Succeed
  <2>2. withdrawId \in Int /\ uiClaimed \in BOOLEAN /\ None \in Int
    BY DEF WalletInv, WalletTypeOK, None
  <2>3. uiClaimed' \in BOOLEAN
    BY <2>2 DEF Succeed
  <2>4. withdrawId' \in Int
    <3> HIDE DEF q
    <3> QED  BY <1>2, <2>1, <2>2
  <2> QED  BY <2>3, <2>4
<1> HIDE DEF l, q
<1>7. RunRight(l, Locked, effects)
  <2> HIDE DEF took
  <2> QED  BY <1>1, <1>3, <1>4 DEF RunRight
<1> QED  BY <1>4, <1>5, <1>6, <1>7, LifeStep
         DEF WalletInv, WalletTypeOK, RunsKnown

(* The simulation of a claim finds it unclaimed, so that no claim had      *)
(* taken effect when its button was pressed.                               *)
LEMMA SimulateKeeps ==
    ASSUME WalletInv, NEW r \in DOMAIN life, Simulate(r),
           UNCHANGED <<receipts, stateVars, otherClaims>>
    PROVE  WalletInv'
<1>1. life[r] \in Life /\ RunRight(life[r], Locked, effects)
  BY LenProperties, ElementOfSeq DEF WalletInv, WalletTypeOK, LivesRight
<1>2. ASSUME life[r].kind = "claim" PROVE life[r].mark = 0
  <2>1. ~claimed
    BY <1>2 DEF Simulate, MaySucceed, ApprovedKinds
  <2>2. "claim" \in Kinds /\ life[r].mark \in Nat
    BY <1>1, <1>2 DEF Life
  <2>3. effects["claim"] = 0
    BY <2>1, <2>2 DEF WalletInv, ClaimBooks
  <2> QED  BY <1>1, <1>2, <2>2, <2>3 DEF RunRight
<1>3. GoTo(r, "submit") /\ life[r].step = "simulate"
  BY DEF Simulate
<1>4. "submit" \in LifeSteps
  BY DEF LifeSteps
<1> QED  BY <1>2, <1>3, <1>4, GoToKeeps

LEMMA AwaitKeeps ==
    ASSUME WalletInv, NEW r \in DOMAIN life, NEW at, NEW what, NEW next,
           <<at, what, next>> \in {<<"await-approval", "approve", "reread-allowance">>,
                                   <<"await-receipt", "action", "reconcile">>},
           Await(r, at, what, next),
           UNCHANGED <<receipts, stateVars, otherClaims>>
    PROVE  WalletInv'
<1>1. /\ life[r].step = at
      /\ at \in {"await-approval", "await-receipt"}
      /\ next \in {"reread-allowance", "reconcile"}
      /\ next = "reconcile" => at = "await-receipt"
  BY DEF Await
<1>2. CASE Fail(r)
  BY <1>2, FailKeeps
<1>3. CASE GoTo(r, next)
  <2>1. next \in LifeSteps
    BY <1>1 DEF LifeSteps
  <2> QED  BY <1>1, <1>3, <2>1, GoToKeeps
<1> QED  BY <1>2, <1>3 DEF Await

LEMMA LifecycleKeeps ==
    ASSUME WalletInv, NEW r \in DOMAIN life, Lifecycle(r),
           UNCHANGED <<receipts, stateVars, otherClaims>>
    PROVE  WalletInv'
<1>1. {"simulate", "read-allowance", "approve"} \subseteq LifeSteps
  BY DEF LifeSteps
<1>2. CASE Validate(r)
  <2>1. PICK s \in {"read-allowance", "simulate"} : GoTo(r, s)
    BY <1>2 DEF Validate
  <2> QED  BY <1>1, <1>2, <2>1, GoToKeeps DEF Validate
<1>3. CASE ReadAllowance(r)
  <2>1. PICK s \in {"simulate", "approve"} : GoTo(r, s)
    BY <1>3 DEF ReadAllowance
  <2> QED  BY <1>1, <1>3, <2>1, GoToKeeps DEF ReadAllowance
<1>4. CASE RereadAllowance(r)
  BY <1>1, <1>4, GoToKeeps DEF RereadAllowance
<1>5. CASE Reconcile(r)
  BY <1>5, SucceedKeeps, FailKeeps DEF Reconcile
<1>6. CASE StepFails(r)
  BY <1>6, FailKeeps DEF StepFails
<1>7. CASE \/ Send(r, "approve", "approve", "await-approval")
           \/ Send(r, "submit", "action", "await-receipt")
  BY <1>7, SendKeeps
<1>8. CASE \/ Await(r, "await-approval", "approve", "reread-allowance")
           \/ Await(r, "await-receipt", "action", "reconcile")
  BY <1>8, AwaitKeeps
<1> QED  BY <1>2, <1>3, <1>4, <1>5, <1>6, <1>7, <1>8, ReadLockedKeeps,
            ReadCountKeeps, SimulateKeeps DEF Lifecycle

LEMMA PressKeeps ==
    ASSUME WalletInv, NEW k \in Kinds, Press(k),
           UNCHANGED <<receipts, stateVars, otherClaims>>
    PROVE  WalletInv'
<1> DEFINE l == [kind |-> k, before |-> None, mark |-> effects[k], took |-> FALSE,
                 id |-> IF k = "withdraw" THEN withdrawId ELSE None,
                 step |-> IF k \in {"lock", "withdraw"} THEN "read-locked"
                                                        ELSE "validate"]
<1>1. life' = Append(life, l) /\ UNCHANGED <<panelVars, pool>>
  BY DEF Press
<1>2. effects[k] \in Nat /\ withdrawId \in Int /\ None \in Int
  BY DEF WalletInv, WalletTypeOK, None
<1>3. l \in Life
  BY <1>2 DEF Life, LifeSteps
<1>4. RunRight(l, Locked, effects)
  BY <1>2 DEF RunRight
<1> HIDE DEF l
<1>5. /\ life' \in Seq(Life) /\ life'[Len(life')] = l
      /\ \A j \in DOMAIN life : life'[j] = life[j]
      /\ DOMAIN life' = DOMAIN life \cup {Len(life')}
  BY <1>1, <1>3, OneMore DEF WalletInv, WalletTypeOK
<1>6. WalletTypeOK'
  BY <1>1, <1>5 DEF WalletInv, WalletTypeOK, stateVars, panelVars
<1>7. RunsKnown'
  BY <1>1, <1>5 DEF WalletInv, RunsKnown
<1>8. ClaimBooks'
  BY DEF WalletInv, ClaimBooks, stateVars
<1>9. Locked' = Locked /\ effects' = effects
  BY DEF Locked, stateVars
<1>10. LivesRight'
  BY <1>4, <1>5, <1>9 DEF WalletInv, LivesRight
<1> QED  BY <1>6, <1>7, <1>8, <1>10 DEF WalletInv

LEMMA VerifyKeeps ==
    ASSUME WalletInv, Verify, UNCHANGED <<receipts, stateVars, otherClaims>>
    PROVE  WalletInv'
<1>1. verified' \in BOOLEAN /\ UNCHANGED <<life, withdrawId, uiClaimed, pool>>
  BY DEF Verify
<1>2. WalletTypeOK'
  BY <1>1 DEF WalletInv, WalletTypeOK, stateVars
<1>3. RunsKnown' /\ ClaimBooks'
  BY <1>1 DEF WalletInv, RunsKnown, ClaimBooks, stateVars
<1>4. Locked' = Locked /\ effects' = effects
  BY DEF Locked, stateVars
<1>5. LivesRight'
  BY <1>1, <1>4 DEF WalletInv, LivesRight
<1> QED  BY <1>2, <1>3, <1>5 DEF WalletInv

(* A step of the chain: what took effect is never taken back, and the      *)
(* principal moves with the locks and withdrawals that take effect.        *)
LEMMA ChainStep ==
    ASSUME WalletInv, UNCHANGED <<life, panelVars>>,
           pool' \in Seq(Tx),
           \A i \in DOMAIN pool' : pool'[i].run \in DOMAIN life,
           receipts' \in SUBSET [tx : Tx, status : {"success", "reverted"}],
           allowance' \in [ApprovedKinds \cap Kinds -> BOOLEAN],
           positions' \in Seq(BOOLEAN),
           remaining' \in Int, claimed' \in BOOLEAN,
           otherClaims' \in 0..MaxOtherClaims,
           effects' \in [Kinds -> Nat], Locked' \in Nat,
           \A k \in Kinds : effects[k] <= effects'[k],
           "lock" \in Kinds =>
               Locked' + effects["lock"] <= Locked + effects'["lock"],
           "withdraw" \in Kinds =>
               Locked + effects["withdraw"] <= Locked' + effects'["withdraw"],
           ClaimBooks'
    PROVE  WalletInv'
<1>1. WalletTypeOK'
  BY DEF WalletInv, WalletTypeOK, panelVars
<1>2. RunsKnown'
  BY DEF RunsKnown
<1>3. ASSUME NEW r \in DOMAIN life
      PROVE  RunRight(life[r], Locked', effects')
  <2> DEFINE q == life[r]
  <2>1. q \in Life /\ RunRight(q, Locked, effects)
    BY LenProperties, ElementOfSeq DEF WalletInv, WalletTypeOK, LivesRight
  <2>2. /\ q.kind \in Kinds /\ q.mark \in Nat /\ q.before \in Int
        /\ Locked \in Nat /\ effects \in [Kinds -> Nat]
    <3>1. q.kind \in Kinds /\ q.mark \in Nat /\ q.before \in Int
      <4>1. q \in Life
        BY <2>1
      <4> HIDE DEF q
      <4> QED  BY <4>1 DEF Life
    <3>2. Locked \in Nat
      BY LockedNat DEF WalletInv, WalletTypeOK
    <3>3. effects \in [Kinds -> Nat]
      BY DEF WalletInv, WalletTypeOK
    <3> QED  BY <3>1, <3>2, <3>3
  <2> HIDE DEF q
  <2>3. q.mark <= effects'[q.kind]
    <3> DEFINE e == effects[q.kind]
               en == effects'[q.kind]
               m == q.mark
    <3>1. m <= e
      BY <2>1 DEF RunRight
    <3>2. e <= en
      BY <2>2
    <3>3. m \in Nat /\ e \in Nat /\ en \in Nat
      BY <2>2
    <3> HIDE DEF e, en, m
    <3>4. m <= en
      BY <3>1, <3>2, <3>3
    <3> QED  BY <3>4 DEF en, m
  <2>4. ASSUME q.kind = "lock", q.step \notin {"read-locked", "failed"}
        PROVE  Locked' + q.mark <= q.before + effects'["lock"]
    <3>1. Locked + q.mark <= q.before + effects["lock"]
      BY <2>1, <2>4 DEF RunRight
    <3>2. effects["lock"] \in Nat /\ effects'["lock"] \in Nat /\ "lock" \in Kinds
      BY <2>2, <2>4
    <3>3. Locked' + effects["lock"] <= Locked + effects'["lock"]
      BY <3>2
    <3> DEFINE ln == Locked'
               l == Locked
               en == effects'["lock"]
               e == effects["lock"]
               m == q.mark
               b == q.before
    <3>4. /\ ln \in Nat /\ l \in Nat /\ en \in Nat /\ e \in Nat
          /\ m \in Nat /\ b \in Int
      BY <2>2, <3>2
    <3>5. ln + e <= l + en /\ l + m <= b + e
      BY <3>1, <3>3
    <3> HIDE DEF ln, l, en, e, m, b
    <3>6. ln + m <= b + en
      BY <3>4, <3>5
    <3> QED  BY <3>6 DEF ln, en, m, b
  <2>5. ASSUME q.kind = "withdraw", q.step \notin {"read-locked", "failed"}
        PROVE  q.before + q.mark <= Locked' + effects'["withdraw"]
    <3>1. q.before + q.mark <= Locked + effects["withdraw"]
      BY <2>1, <2>5 DEF RunRight
    <3>2. /\ effects["withdraw"] \in Nat /\ effects'["withdraw"] \in Nat
          /\ "withdraw" \in Kinds
      BY <2>2, <2>5
    <3>3. Locked + effects["withdraw"] <= Locked' + effects'["withdraw"]
      BY <3>2
    <3> DEFINE ln == Locked'
               l == Locked
               en == effects'["withdraw"]
               e == effects["withdraw"]
               m == q.mark
               b == q.before
    <3>4. /\ ln \in Nat /\ l \in Nat /\ en \in Nat /\ e \in Nat
          /\ m \in Nat /\ b \in Int
      BY <2>2, <3>2
    <3>5. l + e <= ln + en /\ b + m <= l + e
      BY <3>1, <3>3
    <3> HIDE DEF ln, l, en, e, m, b
    <3>6. b + m <= ln + en
      BY <3>4, <3>5
    <3> QED  BY <3>6 DEF ln, en, m, b
  <2>6. RunRight(q, Locked', effects')
    BY <2>1, <2>3, <2>4, <2>5 DEF RunRight
  <2> QED  BY <2>6 DEF q
<1>4. LivesRight'
  BY <1>3 DEF LivesRight
<1> QED  BY <1>1, <1>2, <1>4 DEF WalletInv

(* An action takes effect. *)
LEMMA EffectKeeps ==
    ASSUME WalletInv, NEW r \in DOMAIN life, MaySucceed(r), ActionEffect(r),
           UNCHANGED <<life, panelVars, otherClaims>>,
           pool' \in Seq(Tx),
           \A i \in DOMAIN pool' : pool'[i].run \in DOMAIN life,
           receipts' \in SUBSET [tx : Tx, status : {"success", "reverted"}]
    PROVE  WalletInv'
<1> DEFINE k == life[r].kind
           p == life[r].id + 1
<1>1. /\ k \in Kinds /\ k \in {"trade", "lock", "withdraw", "claim"}
      /\ effects[k] \in Nat /\ effects \in [Kinds -> Nat]
  <2>1. life[r] \in Life
    BY LenProperties, ElementOfSeq DEF WalletInv, WalletTypeOK
  <2> QED  BY <2>1, WalletAssumption DEF Life, WalletInv, WalletTypeOK
<1>2. /\ allowance' = [a \in DOMAIN allowance |-> allowance[a] /\ a # k]
      /\ positions' = CASE k = "lock" -> Append(positions, TRUE)
                        [] k = "withdraw" -> [positions EXCEPT ![p] = FALSE]
                        [] OTHER -> positions
      /\ claimed' = (claimed \/ k = "claim")
      /\ remaining' = IF k = "claim" THEN remaining - Distribution ELSE remaining
      /\ effects' = [effects EXCEPT ![k] = effects[k] + 1]
  BY DEF ActionEffect
<1>3. /\ k = "withdraw" => p \in DOMAIN positions /\ positions[p]
      /\ k = "claim" => ~claimed
  BY DEF MaySucceed, ApprovedKinds
<1> HIDE DEF k, p
<1>4. /\ effects' \in [Kinds -> Nat] /\ effects'[k] = effects[k] + 1
      /\ \A j \in Kinds : j # k => effects'[j] = effects[j]
      /\ \A j \in Kinds : effects[j] <= effects'[j]
  BY <1>1, <1>2
<1>5. allowance' \in [ApprovedKinds \cap Kinds -> BOOLEAN]
  <2>1. DOMAIN allowance = ApprovedKinds \cap Kinds
    BY DEF WalletInv, WalletTypeOK
  <2> QED  BY <1>2, <2>1
<1>6. WalletTypeOK /\ Locked \in Nat /\ remaining \in Int
  BY LockedNat DEF WalletInv, WalletTypeOK
<1>7. /\ positions' \in Seq(BOOLEAN)
      /\ Locked' = CASE k = "lock" -> Locked + 1
                     [] k = "withdraw" -> Locked - 1
                     [] OTHER -> Locked
  <2>1. CASE k = "lock"
    <3>1. positions' = Append(positions, TRUE)
      BY <1>2, <2>1
    <3> QED  BY <1>6, <2>1, <3>1, LockAdds
  <2>2. CASE k = "withdraw"
    <3>1. positions' = [positions EXCEPT ![p] = FALSE]
      BY <1>2, <2>2
    <3> QED  BY <1>3, <1>6, <2>2, <3>1, WithdrawTakes
  <2>3. CASE k \notin {"lock", "withdraw"}
    <3>1. positions' = positions
      BY <1>2, <2>3
    <3> QED  BY <1>6, <2>3, <3>1 DEF Locked, WalletTypeOK
  <2> QED  BY <2>1, <2>2, <2>3
<1>8. Locked' \in Nat
  BY <1>7, LockedAfter
<1>9. /\ "lock" \in Kinds =>
             Locked' + effects["lock"] <= Locked + effects'["lock"]
      /\ "withdraw" \in Kinds =>
             Locked + effects["withdraw"] <= Locked' + effects'["withdraw"]
  BY <1>1, <1>4, <1>6, <1>7
<1>10. remaining' \in Int /\ claimed' \in BOOLEAN
  BY <1>2, <1>6, WalletAssumption
<1>11. ClaimBooks'
  <2>1. CASE k = "claim"
    <3>1. claimed' /\ remaining' = remaining - Distribution
      BY <1>2, <2>1
    <3>2. remaining = Funded - otherClaims /\ effects["claim"] = 0
      BY <1>1, <1>3, <2>1, WalletAssumption DEF WalletInv, WalletTypeOK, ClaimBooks
    <3>3. effects'["claim"] = 1
      BY <1>1, <1>4, <2>1, <3>2
    <3>4. otherClaims' = otherClaims /\ otherClaims \in Int
      BY DEF WalletInv, WalletTypeOK
    <3>5. remaining' = Funded - Distribution - otherClaims'
      BY <3>1, <3>2, <3>4, WalletAssumption
    <3> QED  BY <3>1, <3>3, <3>5 DEF ClaimBooks
  <2>2. CASE k # "claim"
    <3>1. claimed' = claimed /\ remaining' = remaining
      BY <1>2, <2>2 DEF WalletInv, WalletTypeOK
    <3> QED  BY <1>4, <2>2, <3>1 DEF ClaimBooks, WalletInv
  <2> QED  BY <2>1, <2>2
<1>12. otherClaims' \in 0..MaxOtherClaims
  BY DEF WalletInv, WalletTypeOK
<1> QED  BY <1>4, <1>5, <1>7, <1>8, <1>9, <1>10, <1>11, <1>12, ChainStep

LEMMA MineKeeps ==
    ASSUME WalletInv, Mine
    PROVE  WalletInv'
<1> DEFINE tx == Head(pool)
<1>1. /\ pool # << >> /\ UNCHANGED <<life, panelVars, otherClaims>>
      /\ pool \in Seq(Tx)
  BY DEF Mine, WalletInv, WalletTypeOK
<1>2. tx \in Tx /\ tx.run \in DOMAIN life
  <2>1. tx = pool[1] /\ 1 \in DOMAIN pool
    BY <1>1, EmptySeq, LenProperties
  <2> QED  BY <1>1, <2>1, HeadTailProperties DEF WalletInv, RunsKnown
<1> HIDE DEF tx
<1>3. /\ Tail(pool) \in Seq(Tx)
      /\ \A i \in DOMAIN Tail(pool) : Tail(pool)[i].run \in DOMAIN life
  <2>1. /\ Tail(pool) \in Seq(Tx) /\ Len(Tail(pool)) = Len(pool) - 1
        /\ \A i \in 1..Len(Tail(pool)) : Tail(pool)[i] = pool[i + 1]
    BY <1>1, HeadTailProperties
  <2>2. /\ DOMAIN Tail(pool) = 1..Len(Tail(pool)) /\ DOMAIN pool = 1..Len(pool)
        /\ Len(pool) \in Nat
    BY <1>1, <2>1, LenProperties
  <2>3. \A i \in DOMAIN Tail(pool) : i + 1 \in DOMAIN pool
    BY <2>1, <2>2
  <2> QED  BY <2>1, <2>2, <2>3 DEF WalletInv, RunsKnown
<1>4. PICK status \in {"success", "reverted"} :
          /\ Mined(tx, status)
          /\ \/ /\ MaySucceed(tx.run)
                /\ ActionEffect(tx.run)
             \/ /\ allowance' = [allowance EXCEPT ![life[tx.run].kind] = TRUE]
                /\ UNCHANGED <<positions, claimed, remaining, effects>>
             \/ UNCHANGED stateVars
  <2>1. CASE Mined(tx, "success") /\ MaySucceed(tx.run) /\ ActionEffect(tx.run)
    BY <2>1
  <2>2. CASE /\ Mined(tx, "success")
             /\ allowance' = [allowance EXCEPT ![life[tx.run].kind] = TRUE]
             /\ UNCHANGED <<positions, claimed, remaining, effects>>
    BY <2>2
  <2>3. CASE Mined(tx, "reverted") /\ UNCHANGED stateVars
    BY <2>3
  <2>4. CASE Mined(tx, "success") /\ UNCHANGED stateVars
    BY <2>4
  <2> QED  BY <2>1, <2>2, <2>3, <2>4 DEF Mine, tx
<1>5. /\ pool' \in Seq(Tx)
      /\ \A i \in DOMAIN pool' : pool'[i].run \in DOMAIN life
      /\ receipts' \in SUBSET [tx : Tx, status : {"success", "reverted"}]
  <2>1. [tx |-> tx, status |-> status] \in [tx : Tx, status : {"success", "reverted"}]
    BY <1>2
  <2> QED  BY <1>3, <1>4, <2>1 DEF Mined, WalletInv, WalletTypeOK
<1>6. CASE MaySucceed(tx.run) /\ ActionEffect(tx.run)
  BY <1>1, <1>2, <1>5, <1>6, EffectKeeps
<1>7. CASE /\ allowance' \in [ApprovedKinds \cap Kinds -> BOOLEAN]
           /\ UNCHANGED <<positions, claimed, remaining, effects>>
  <2>1. /\ Locked' = Locked /\ Locked \in Nat /\ effects' = effects
        /\ effects \in [Kinds -> Nat]
    BY <1>7, LockedNat DEF Locked, WalletInv, WalletTypeOK
  <2>2. ClaimBooks'
    BY <1>1, <1>7 DEF WalletInv, ClaimBooks
  <2> QED  BY <1>1, <1>5, <1>7, <2>1, <2>2, ChainStep DEF WalletInv, WalletTypeOK
<1>8. CASE allowance' = [allowance EXCEPT ![life[tx.run].kind] = TRUE]
           /\ UNCHANGED <<positions, claimed, remaining, effects>>
  BY <1>7, <1>8 DEF WalletInv, WalletTypeOK
<1>9. CASE UNCHANGED stateVars
  BY <1>7, <1>9 DEF WalletInv, WalletTypeOK, stateVars
<1> QED  BY <1>4, <1>6, <1>8, <1>9

LEMMA ReplaceKeeps ==
    ASSUME WalletInv, Replace
    PROVE  WalletInv'
<1>1. PICK i \in DOMAIN pool, fate \in {"repriced", "cancelled", "replaced"} :
          pool' = [pool EXCEPT ![i].fate = fate]
  BY DEF Replace
<1> DEFINE tx == [pool[i] EXCEPT !.fate = fate]
<1>2. pool \in Seq(Tx) /\ pool[i] \in Tx
  BY LenProperties, ElementOfSeq DEF WalletInv, WalletTypeOK
<1>3. tx \in Tx /\ tx.run = pool[i].run
  BY <1>2 DEF Tx, Fates
<1>4. pool' = [pool EXCEPT ![i] = tx]
  BY <1>1
<1> HIDE DEF tx
<1>5. /\ pool' \in Seq(Tx) /\ DOMAIN pool' = DOMAIN pool /\ pool'[i] = tx
      /\ \A j \in DOMAIN pool \ {i} : pool'[j] = pool[j]
  BY <1>2, <1>3, <1>4, OneChanges
<1>6. \A j \in DOMAIN pool' : pool'[j].run \in DOMAIN life
  BY <1>3, <1>5 DEF WalletInv, RunsKnown
<1>7. UNCHANGED <<life, panelVars, receipts, stateVars, otherClaims>>
  BY DEF Replace
<1>8. /\ Locked' = Locked /\ Locked \in Nat /\ effects' = effects
      /\ effects \in [Kinds -> Nat]
  BY <1>7, LockedNat DEF Locked, WalletInv, WalletTypeOK, stateVars
<1>9. ClaimBooks'
  BY <1>7 DEF WalletInv, ClaimBooks, stateVars
<1> QED  BY <1>5, <1>6, <1>7, <1>8, <1>9, ChainStep
         DEF WalletInv, WalletTypeOK, stateVars

LEMMA OtherClaimKeeps ==
    ASSUME WalletInv, OtherClaim
    PROVE  WalletInv'
<1>1. /\ otherClaims < MaxOtherClaims /\ remaining' = remaining - 1
      /\ otherClaims' = otherClaims + 1
      /\ UNCHANGED <<life, panelVars, pool, receipts, allowance, positions,
                     claimed, effects>>
  BY DEF OtherClaim
<1>2. /\ otherClaims \in 0..MaxOtherClaims /\ remaining \in Int
      /\ claimed \in BOOLEAN
  BY DEF WalletInv, WalletTypeOK
<1>3. otherClaims' \in 0..MaxOtherClaims /\ remaining' \in Int
  BY <1>1, <1>2, WalletAssumption
<1>4. /\ Locked' = Locked /\ Locked \in Nat /\ effects' = effects
      /\ effects \in [Kinds -> Nat]
  BY <1>1, LockedNat DEF Locked, WalletInv, WalletTypeOK
<1>5. ClaimBooks'
  <2>1. \E d \in {0, Distribution} :
            /\ d = (IF claimed THEN Distribution ELSE 0)
            /\ remaining = Funded - d - otherClaims
    BY DEF WalletInv, ClaimBooks
  <2>2. remaining' = Funded - (IF claimed' THEN Distribution ELSE 0) - otherClaims'
    BY <1>1, <1>2, <2>1, WalletAssumption
  <2> QED  BY <1>1, <2>2 DEF WalletInv, ClaimBooks
<1> QED  BY <1>1, <1>3, <1>4, <1>5, ChainStep
         DEF WalletInv, WalletTypeOK, RunsKnown

LEMMA WalletStarts == WalletInit => WalletInv
<1> SUFFICES ASSUME WalletInit PROVE WalletInv
  OBVIOUS
<1>1. /\ life \in Seq(Life) /\ DOMAIN life = {}
      /\ pool \in Seq(Tx) /\ DOMAIN pool = {}
  BY EmptySeq, LenProperties DEF WalletInit
<1>2. positions \in Seq(BOOLEAN)
  <2>1. << >> \in Seq(BOOLEAN) /\ <<TRUE>> \in Seq(BOOLEAN)
    BY EmptySeq
  <2> QED  BY <2>1 DEF WalletInit
<1>3. effects \in [Kinds -> Nat]
  BY DEF WalletInit
<1>4. verified \in BOOLEAN /\ uiClaimed \in BOOLEAN /\ claimed \in BOOLEAN
  BY DEF WalletInit
<1>5. /\ withdrawId \in Int /\ remaining \in Int
      /\ otherClaims \in 0..MaxOtherClaims
  BY WalletAssumption DEF WalletInit, None
<1>6. receipts \in SUBSET [tx : Tx, status : {"success", "reverted"}]
      /\ allowance \in [ApprovedKinds \cap Kinds -> BOOLEAN]
  BY DEF WalletInit
<1>7. ClaimBooks
  BY WalletAssumption DEF WalletInit, ClaimBooks
<1> QED  BY <1>1, <1>2, <1>3, <1>4, <1>5, <1>6, <1>7
         DEF WalletInv, WalletTypeOK, RunsKnown, LivesRight

LEMMA WalletKeeps ==
    ASSUME WalletInv, [WalletNext]_walletVars
    PROVE  WalletInv'
<1>1. CASE Dashboard
  BY <1>1, VerifyKeeps, PressKeeps, LifecycleKeeps DEF Dashboard
<1>2. CASE UNCHANGED walletVars
  <2>1. UNCHANGED <<life, panelVars, pool, receipts, stateVars, otherClaims>>
    BY <1>2 DEF walletVars, chainVars
  <2>2. /\ Locked' = Locked /\ Locked \in Nat /\ effects' = effects
        /\ effects \in [Kinds -> Nat]
    BY <2>1, LockedNat DEF Locked, WalletInv, WalletTypeOK, stateVars
  <2>3. ClaimBooks'
    BY <2>1 DEF WalletInv, ClaimBooks, stateVars
  <2> QED  BY <2>1, <2>2, <2>3, ChainStep
           DEF WalletInv, WalletTypeOK, RunsKnown, stateVars
<1> QED  BY <1>1, <1>2, MineKeeps, ReplaceKeeps, OtherClaimKeeps DEF WalletNext

LEMMA WalletInvAlways == WalletSpec => []WalletInv
<1>1. WalletInv /\ [WalletNext]_walletVars => WalletInv'
  BY WalletKeeps
<1> QED  BY <1>1, WalletStarts, PTL DEF WalletSpec

(* Types, and that every pending transaction is of a lifecycle that was    *)
(* started.                                                                *)
THEOREM WalletTyped == WalletSpec => [](WalletTypeOK /\ RunsKnown)
<1>1. WalletInv => WalletTypeOK /\ RunsKnown
  BY DEF WalletInv
<1> QED  BY <1>1, WalletInvAlways, PTL

(* "Success is NEVER reported on a returned hash alone" (lib/wallet/tx.ts): *)
(* for any number of overlapping locks, withdrawals and claims, and        *)
(* whatever the mempool did to their transactions, a reported success is   *)
(* one of an action that took effect since the button was pressed.         *)
THEOREM SuccessIsReal ==
    ASSUME Reconcilable
    PROVE  WalletSpec => []SuccessMeansEffect
<1>1. WalletInv => SuccessMeansEffect
  BY DEF WalletInv, LivesRight, RunRight, SuccessMeansEffect
<1> QED  BY <1>1, WalletInvAlways, PTL

----------------------------------------------------------------------------
(* THE RECONCILIATION                                                      *)

BlockTx ==
    [kind : {"buy", "sell"}, gross : Gross]
    \cup [kind : {"record"}, id : Nat, weth : Spent]
    \cup [kind : {"fund"}, id : Nat, cycle : Cycles]
    \cup [kind : {"claim"}, cycle : Cycles]

IsFund(tx) == tx.kind = "fund"

(* A cycle is funded at most once on any branch of the chain. *)
FundedOnce ==
    \A f, g \in DOMAIN blocks :
        IsFund(blocks[f]) /\ IsFund(blocks[g])
          /\ blocks[f].cycle = blocks[g].cycle => f = g

(* A verdict that confirms is one of a link that was there. *)
ConfirmedLinked ==
    recon # NoRow =>
        (recon.status = "authoritative-confirmed" => recon.linked)

ReconInv ==
    /\ blocks \in Seq(BlockTx)
    /\ FundedOnce
    /\ ConfirmedLinked

LEMMA TransactionsTyped ==
    ASSUME blocks \in Seq(BlockTx), NEW tx \in Transactions
    PROVE  /\ tx \in BlockTx
           /\ IsFund(tx) => FundedBy(blocks, tx.cycle) = {}
<1>1. DOMAIN blocks = 1..Len(blocks) /\ Len(blocks) \in Nat
  BY LenProperties
<1>2. Cardinality(Recorded(blocks)) \in Nat
  <2>1. IsFiniteSet(DOMAIN blocks)
    BY <1>1, FS_Interval
  <2>2. IsFiniteSet(Recorded(blocks))
    BY <2>1, FS_Subset DEF Recorded
  <2> QED  BY <2>2, FS_CardinalityType
<1>3. CASE tx \in [kind : {"buy", "sell"}, gross : Gross]
  BY <1>3 DEF BlockTx, IsFund
<1>4. CASE tx \in [kind : {"record"}, id : {Cardinality(Recorded(blocks)) + 1},
                   weth : Spent]
  <2> DEFINE n == Cardinality(Recorded(blocks)) + 1
  <2>1. n \in Nat
    BY <1>2
  <2>2. tx \in [kind : {"record"}, id : {n}, weth : Spent]
    BY <1>4
  <2> HIDE DEF n
  <2> QED  BY <2>1, <2>2 DEF BlockTx, IsFund
<1>5. ASSUME NEW b \in Recorded(blocks), NEW c \in Cycles, FundedBy(blocks, c) = {},
             tx = [kind |-> "fund", id |-> blocks[b].id, cycle |-> c]
      PROVE  /\ tx \in BlockTx
             /\ IsFund(tx) => FundedBy(blocks, tx.cycle) = {}
  <2>1. blocks[b] \in BlockTx /\ blocks[b].kind = "record"
    BY <1>1, ElementOfSeq DEF Recorded
  <2>2. blocks[b].id \in Nat
    BY <2>1 DEF BlockTx
  <2>3. tx \in [kind : {"fund"}, id : Nat, cycle : Cycles]
    BY <1>5, <2>2
  <2> QED  BY <1>5, <2>3 DEF BlockTx
<1>6. CASE tx \in [kind : {"claim"},
                   cycle : {c \in Cycles : FundedBy(blocks, c) # {}}]
  BY <1>6 DEF BlockTx, IsFund
<1> QED  BY <1>3, <1>4, <1>5, <1>6 DEF Transactions

LEMMA MineBlockKeeps ==
    ASSUME ReconInv, MineBlock
    PROVE  ReconInv'
<1>1. PICK tx \in Transactions : blocks' = Append(blocks, tx)
  BY DEF MineBlock
<1>2. /\ blocks \in Seq(BlockTx) /\ tx \in BlockTx
      /\ IsFund(tx) => FundedBy(blocks, tx.cycle) = {}
  BY TransactionsTyped DEF ReconInv
<1>3. /\ blocks' \in Seq(BlockTx) /\ blocks'[Len(blocks')] = tx
      /\ \A j \in DOMAIN blocks : blocks'[j] = blocks[j]
      /\ DOMAIN blocks' = DOMAIN blocks \cup {Len(blocks')}
  BY <1>1, <1>2, OneMore
<1>4. ASSUME NEW f \in DOMAIN blocks, IsFund(tx), IsFund(blocks[f]),
             blocks[f].cycle = tx.cycle
      PROVE  FALSE
  BY <1>2, <1>4 DEF FundedBy, IsFund
<1>5. FundedOnce'
  BY <1>3, <1>4 DEF ReconInv, FundedOnce
<1>6. ConfirmedLinked'
  BY DEF MineBlock, panelReadVars, ReconInv, ConfirmedLinked
<1> QED  BY <1>3, <1>5, <1>6 DEF ReconInv

LEMMA ReorgKeeps ==
    ASSUME ReconInv, Reorg
    PROVE  ReconInv'
<1>1. /\ blocks \in Seq(BlockTx) /\ blocks # << >>
      /\ blocks' = SubSeq(blocks, 1, Len(blocks) - 1)
  BY DEF Reorg, ReconInv
<1>2. DOMAIN blocks = 1..Len(blocks) /\ Len(blocks) \in Nat \ {0}
  BY <1>1, EmptySeq, LenProperties
<1>3. \A i \in 1..Len(blocks) - 1 : blocks[i] \in BlockTx
  BY <1>1, <1>2, ElementOfSeq
<1>4. /\ blocks' \in Seq(BlockTx) /\ Len(blocks') = Len(blocks) - 1
      /\ \A i \in 1..Len(blocks) - 1 : blocks'[i] = blocks[i]
  BY <1>1, <1>2, <1>3, SubSeqProperties
<1>5. DOMAIN blocks' = 1..Len(blocks) - 1
  BY <1>4, LenProperties
<1>6. \A i \in DOMAIN blocks' : i \in DOMAIN blocks /\ blocks'[i] = blocks[i]
  BY <1>2, <1>4, <1>5
<1>7. FundedOnce'
  BY <1>6 DEF ReconInv, FundedOnce
<1>8. ConfirmedLinked'
  BY DEF Reorg, panelReadVars, ReconInv, ConfirmedLinked
<1> QED  BY <1>4, <1>7, <1>8 DEF ReconInv

(* The last of the three reads sees the funding of the shown cycle by the  *)
(* acquisition it asked for, and no other can be there.                    *)
LEMMA ConfirmsALink ==
    ASSUME ReconInv,
           RecordStatus(Acquisition(scan.id), scan.expected)
               = "authoritative-confirmed"
    PROVE  CycleAcquisitionId = scan.id
<1> DEFINE fund == {b \in DOMAIN blocks :
                       blocks[b].kind = "fund" /\ blocks[b].id = scan.id}
           record == Acquisition(scan.id)
<1>1. record.status = 2 /\ record.cycle = ShownCycle
  <2> HIDE DEF record
  <2>1. RecordStatus(record, scan.expected) = "authoritative-confirmed"
    BY DEF record
  <2> QED  BY <2>1 DEF RecordStatus
<1>2. fund # {}
  BY <1>1 DEF Acquisition
<1>3. PICK b \in fund : blocks[b].cycle = ShownCycle
  <2>1. record.cycle = blocks[CHOOSE b \in fund : TRUE].cycle
    BY <1>2 DEF Acquisition
  <2>2. (CHOOSE b \in fund : TRUE) \in fund
    BY <1>2
  <2> QED  BY <1>1, <2>1, <2>2
<1>4. b \in FundedBy(blocks, ShownCycle)
  BY <1>3 DEF FundedBy
<1>5. \A c \in FundedBy(blocks, ShownCycle) : c = b
  BY <1>3 DEF FundedBy, ReconInv, FundedOnce, IsFund
<1>6. (CHOOSE c \in FundedBy(blocks, ShownCycle) : TRUE) = b
  BY <1>4, <1>5
<1> QED  BY <1>3, <1>4, <1>6 DEF CycleAcquisitionId

(* Every other end of a reconciliation is another verdict. *)
LEMMA PanelKeeps ==
    ASSUME ReconInv, Panel
    PROVE  ReconInv'
<1>1. blocks' = blocks
  BY DEF Panel, chainTipVars
<1>2. ConfirmedLinked'
  <2>1. ASSUME NEW status, NEW id, Finish(status, id),
               status # "authoritative-confirmed"
        PROVE  ConfirmedLinked'
    BY <2>1 DEF Finish, ConfirmedLinked
  <2>2. ASSUME UNCHANGED recon \/ recon' = NoRow
        PROVE  ConfirmedLinked'
    BY <2>2 DEF ReconInv, ConfirmedLinked
  <2>3. CASE RunEffect \/ ScanWindow
    <3>1. UNCHANGED recon
      BY <2>3 DEF RunEffect, ScanWindow
    <3> QED  BY <2>2, <3>1
  <2>4. CASE ReadCycleUsed
    <3>1. \/ UNCHANGED recon
          \/ \E status \in {"cycle-unused", "cycle-acquisition-mismatch"} :
                 Finish(status, 0)
      BY <2>4 DEF ReadCycleUsed
    <3> QED  BY <2>1, <2>2, <3>1
  <2>5. CASE ReadCycleAcquisitionId
    <3>1. \/ UNCHANGED recon
          \/ Finish("acquisition-missing", 0)
          \/ Finish("cycle-acquisition-mismatch", CycleAcquisitionId)
      BY <2>5 DEF ReadCycleAcquisitionId
    <3> QED  BY <2>1, <2>2, <3>1
  <2>6. CASE ReadAcquisition
    <3> DEFINE status == RecordStatus(Acquisition(scan.id), scan.expected)
    <3>1. recon' = [status |-> status, id |-> scan.id,
                    linked |-> CycleAcquisitionId = scan.id]
      BY <2>6 DEF ReadAcquisition
    <3>2. status = "authoritative-confirmed" => CycleAcquisitionId = scan.id
      BY ConfirmsALink
    <3> HIDE DEF status
    <3> QED  BY <3>1, <3>2 DEF ConfirmedLinked
  <2>7. CASE RequestFails
    <3>1. recon' = NoRow \/ Finish("read-failed", scan.id)
      BY <2>7 DEF RequestFails
    <3> QED  BY <2>1, <2>2, <3>1
  <2> QED  BY <2>3, <2>4, <2>5, <2>6, <2>7 DEF Panel
<1> QED  BY <1>1, <1>2 DEF ReconInv, FundedOnce

LEMMA ReconStarts == TransparencyInit => ReconInv
<1> SUFFICES ASSUME TransparencyInit PROVE ReconInv
  OBVIOUS
<1>1. blocks \in Seq(BlockTx) /\ DOMAIN blocks = {}
  BY EmptySeq, LenProperties DEF TransparencyInit
<1> QED  BY <1>1 DEF TransparencyInit, ReconInv, FundedOnce, ConfirmedLinked

LEMMA ReconKeeps == ReconInv /\ [TransparencyNext]_transparencyVars => ReconInv'
<1> SUFFICES ASSUME ReconInv, [TransparencyNext]_transparencyVars
             PROVE  ReconInv'
  OBVIOUS
<1>1. CASE UNCHANGED transparencyVars
  BY <1>1 DEF transparencyVars, chainTipVars, panelReadVars, ReconInv,
              FundedOnce, ConfirmedLinked
<1> QED  BY <1>1, MineBlockKeeps, ReorgKeeps, PanelKeeps DEF TransparencyNext

(* A row marked confirmed is of an acquisition that the coordinator had    *)
(* linked to the cycle at the last of the three reads                      *)
(* (lib/services/acquisition-reconcile.ts), whatever was reorganised       *)
(* between them: for chains of any length and any reorganisations.         *)
THEOREM ConfirmedIsLinked == TransparencySpec => []ConfirmedWasLinked
<1>1. ReconInv => ConfirmedWasLinked
  BY DEF ReconInv, ConfirmedLinked, ConfirmedWasLinked, RowConfirmed
<1> QED  BY <1>1, ReconStarts, ReconKeeps, PTL DEF TransparencySpec

----------------------------------------------------------------------------
(* THE REPORT                                                              *)

(* The hash of a block: a name that was given out once. *)
Names == Nat \X Nat

(* What the sums of the report need of the chain: names that no two        *)
(* transactions share, and a depth below which nothing is reorganised.     *)
TipRight ==
    /\ hashes \in Seq(Names) /\ Len(hashes) = Len(blocks)
    /\ reorgs \in Nat /\ peak \in Nat
    /\ Len(blocks) <= peak /\ Len(blocks) >= peak - Confirmations

Given(hash) ==
    /\ hash \in Names
    /\ hash[1] <= reorgs
    /\ hash[1] = reorgs => hash[2] < Len(blocks)

HashesDiffer ==
    /\ \A n \in DOMAIN blocks : Given(hashes[n])
    /\ \A m, n \in DOMAIN blocks : hashes[m] = hashes[n] => m = n
    /\ dropped # NoRow =>
         /\ dropped.hash \in Names /\ dropped.hash[1] < reorgs
         /\ \A n \in DOMAIN blocks : hashes[n] # dropped.hash

(* An acquisition funds at most once on any branch of the chain. *)
FundsOnce ==
    \A f, g \in DOMAIN blocks :
        IsFund(blocks[f]) /\ IsFund(blocks[g])
          /\ blocks[f].id = blocks[g].id => f = g

ChainInv ==
    /\ blocks \in Seq(BlockTx)
    /\ TipRight
    /\ HashesDiffer
    /\ FundsOnce

(* The blocks the scan covers. *)
Final == {n \in DOMAIN blocks : n <= SafeHead}

LEMMA FundsNew ==
    ASSUME blocks \in Seq(BlockTx), NEW tx \in Transactions, IsFund(tx),
           NEW f \in DOMAIN blocks, IsFund(blocks[f])
    PROVE  blocks[f].id # tx.id
BY DEF Transactions, IsFund, Recorded

LEMMA BlockMined ==
    ASSUME ChainInv, MineBlock
    PROVE  /\ ChainInv' /\ peak' >= peak
           /\ DOMAIN blocks' = DOMAIN blocks \cup {Len(blocks) + 1}
           /\ \A n \in DOMAIN blocks :
                 blocks'[n] = blocks[n] /\ hashes'[n] = hashes[n]
<1> USE DEF ChainInv
<1>1. PICK tx \in Transactions :
        /\ blocks' = Append(blocks, tx)
        /\ \/ hashes' = Append(hashes, <<reorgs, Len(blocks)>>) /\ UNCHANGED dropped
           \/ /\ dropped # NoRow /\ dropped.tx = tx
              /\ hashes' = Append(hashes, dropped.hash)
              /\ dropped' = NoRow
  BY DEF MineBlock
<1>2. tx \in BlockTx /\ reorgs' = reorgs
  BY TransactionsTyped DEF MineBlock
<1>3. /\ blocks' \in Seq(BlockTx) /\ Len(blocks') = Len(blocks) + 1
      /\ blocks'[Len(blocks')] = tx
      /\ \A j \in DOMAIN blocks : j \in DOMAIN blocks' /\ blocks'[j] = blocks[j]
      /\ DOMAIN blocks' = DOMAIN blocks \cup {Len(blocks')}
      /\ Len(blocks') \notin DOMAIN blocks
  BY <1>1, <1>2, OneMore
<1>4. Len(blocks) \in Nat /\ Len(hashes) \in Nat /\ DOMAIN hashes = DOMAIN blocks
  BY LenProperties DEF TipRight
<1>5. PICK new \in Names :
        /\ hashes' = Append(hashes, new)
        /\ \/ new = <<reorgs, Len(blocks)>> /\ UNCHANGED dropped
           \/ dropped # NoRow /\ new = dropped.hash /\ dropped' = NoRow
  <2>1. <<reorgs, Len(blocks)>> \in Names
    BY <1>4 DEF TipRight, Names
  <2>2. dropped # NoRow => dropped.hash \in Names
    BY DEF HashesDiffer
  <2> QED  BY <1>1, <2>1, <2>2
<1>6. /\ hashes' \in Seq(Names) /\ Len(hashes') = Len(hashes) + 1
      /\ hashes'[Len(hashes')] = new
      /\ \A j \in DOMAIN hashes : hashes'[j] = hashes[j]
  BY <1>5, OneMore DEF TipRight
<1>7. Len(blocks') = Len(hashes') /\ hashes'[Len(blocks')] = new
  BY <1>3, <1>6 DEF TipRight
<1>8. TipRight' /\ peak' >= peak
  <2>1. peak' = IF Len(blocks') > peak THEN Len(blocks') ELSE peak
    BY DEF MineBlock
  <2> QED
    BY <1>2, <1>3, <1>4, <1>6, <1>7, <2>1, TransparencyAssumption DEF TipRight
<1>9. HashesDiffer'
  <2>1. \A n \in DOMAIN blocks : hashes[n] # new
    BY <1>5 DEF HashesDiffer, Given
  <2>2. \A n \in DOMAIN blocks : hashes'[n] = hashes[n]
    BY <1>4, <1>6
  <2>3. Given(new)'
    <3>1. reorgs \in Nat /\ Len(blocks) \in Nat /\ Len(blocks') = Len(blocks) + 1
      BY <1>3, <1>4 DEF TipRight
    <3>2. CASE new = <<reorgs, Len(blocks)>>
      BY <1>2, <1>5, <3>1, <3>2 DEF Given
    <3>3. CASE dropped # NoRow /\ new = dropped.hash
      <4>1. new \in Names /\ new[1] \in Nat /\ new[1] < reorgs
        BY <3>3 DEF HashesDiffer, Names
      <4> QED  BY <1>2, <3>1, <4>1 DEF Given
    <3> QED  BY <1>5, <3>2, <3>3
  <2>4. \A n \in DOMAIN blocks : Given(hashes[n])'
    <3> SUFFICES ASSUME NEW n \in DOMAIN blocks PROVE Given(hashes[n])'
      OBVIOUS
    <3>1. Given(hashes[n]) /\ hashes'[n] = hashes[n]
      BY <2>2 DEF HashesDiffer
    <3>2. hashes[n] \in Names /\ hashes[n][2] \in Nat
      BY <3>1 DEF Given, Names
    <3> QED  BY <1>2, <1>3, <1>4, <3>1, <3>2 DEF Given
  <2>5. \A n \in DOMAIN blocks' : Given(hashes[n])'
    BY <1>3, <1>7, <2>3, <2>4 DEF Given
  <2>6. \A m, n \in DOMAIN blocks' : hashes'[m] = hashes'[n] => m = n
    BY <1>3, <1>7, <2>1, <2>2 DEF HashesDiffer
  <2>7. dropped' # NoRow =>
          /\ dropped'.hash \in Names /\ dropped'.hash[1] < reorgs'
          /\ \A n \in DOMAIN blocks' : hashes'[n] # dropped'.hash
    <3> SUFFICES ASSUME dropped' # NoRow
                 PROVE  /\ dropped'.hash \in Names /\ dropped'.hash[1] < reorgs'
                        /\ \A n \in DOMAIN blocks' : hashes'[n] # dropped'.hash
      OBVIOUS
    <3>1. new = <<reorgs, Len(blocks)>> /\ dropped' = dropped
      BY <1>5
    <3>2. /\ dropped.hash \in Names /\ dropped.hash[1] < reorgs
          /\ \A n \in DOMAIN blocks : hashes[n] # dropped.hash
      BY <3>1 DEF HashesDiffer
    <3>3. new # dropped.hash
      BY <3>1, <3>2 DEF TipRight
    <3> QED  BY <1>2, <1>3, <1>7, <2>2, <3>1, <3>2, <3>3
  <2> QED  BY <2>5, <2>6, <2>7 DEF HashesDiffer
<1>10. FundsOnce'
  <2>1. ASSUME NEW f \in DOMAIN blocks, IsFund(tx), IsFund(blocks[f])
        PROVE  blocks[f].id # tx.id
    BY <2>1, FundsNew
  <2> QED  BY <1>3, <2>1 DEF FundsOnce
<1> QED  BY <1>3, <1>4, <1>6, <1>8, <1>9, <1>10

LEMMA BlockDropped ==
    ASSUME ChainInv, Reorg
    PROVE  /\ ChainInv' /\ peak' = peak
           /\ Len(blocks) \in Nat /\ Len(blocks) > peak - Confirmations
           /\ DOMAIN blocks' = DOMAIN blocks \ {Len(blocks)}
           /\ \A n \in DOMAIN blocks' :
                 blocks'[n] = blocks[n] /\ hashes'[n] = hashes[n]
<1> USE DEF ChainInv
<1>1. /\ blocks # << >> /\ blocks' = SubSeq(blocks, 1, Len(blocks) - 1)
      /\ hashes' = SubSeq(hashes, 1, Len(hashes) - 1)
      /\ dropped' = [tx |-> blocks[Len(blocks)], hash |-> hashes[Len(hashes)]]
      /\ reorgs' = reorgs + 1 /\ peak' = peak
      /\ Len(blocks) > peak - Confirmations
  BY DEF Reorg
<1>2. /\ DOMAIN blocks = 1..Len(blocks) /\ Len(blocks) \in Nat \ {0}
      /\ Len(hashes) = Len(blocks) /\ DOMAIN hashes = 1..Len(blocks)
  BY <1>1, EmptySeq, LenProperties DEF TipRight
<1>3. \A i \in 1..Len(blocks) - 1 : blocks[i] \in BlockTx /\ hashes[i] \in Names
  BY <1>2, ElementOfSeq DEF TipRight
<1>4. /\ blocks' \in Seq(BlockTx) /\ Len(blocks') = Len(blocks) - 1
      /\ \A i \in 1..Len(blocks) - 1 : blocks'[i] = blocks[i]
  BY <1>1, <1>2, <1>3, SubSeqProperties
<1>5. /\ hashes' \in Seq(Names) /\ Len(hashes') = Len(blocks) - 1
      /\ \A i \in 1..Len(blocks) - 1 : hashes'[i] = hashes[i]
  BY <1>1, <1>2, <1>3, SubSeqProperties
<1>6. DOMAIN blocks' = 1..Len(blocks) - 1
  BY <1>4, LenProperties
<1>7. \A i \in DOMAIN blocks' :
         i \in DOMAIN blocks /\ blocks'[i] = blocks[i] /\ hashes'[i] = hashes[i]
  BY <1>2, <1>4, <1>5, <1>6
<1>8. TipRight'
  <2>1. reorgs \in Nat /\ peak \in Nat /\ Len(blocks) <= peak /\ Confirmations \in Nat
    BY TransparencyAssumption DEF TipRight
  <2> QED  BY <1>1, <1>2, <1>4, <1>5, <2>1 DEF TipRight
<1>9. HashesDiffer'
  <2>1. \A n \in DOMAIN blocks : Given(hashes[n])
    BY DEF HashesDiffer
  <2>2. \A n \in DOMAIN blocks' : Given(hashes[n])'
    <3> SUFFICES ASSUME NEW n \in DOMAIN blocks' PROVE Given(hashes[n])'
      OBVIOUS
    <3>1. hashes[n] \in Names /\ hashes[n][1] <= reorgs /\ hashes'[n] = hashes[n]
      BY <1>7, <2>1 DEF Given
    <3>2. hashes[n][1] \in Nat
      BY <3>1 DEF Names
    <3>3. reorgs \in Nat /\ reorgs' = reorgs + 1
      BY <1>1 DEF TipRight
    <3> QED  BY <3>1, <3>2, <3>3 DEF Given
  <2>3. Given(hashes[Len(blocks)]) /\ dropped'.hash = hashes[Len(blocks)]
    BY <1>1, <1>2, <2>1
  <2>4. dropped'.hash \in Names /\ dropped'.hash[1] < reorgs'
    <3>1. reorgs \in Nat /\ reorgs' = reorgs + 1 /\ dropped'.hash[1] <= reorgs
      BY <1>1, <2>3 DEF Given, TipRight
    <3>2. dropped'.hash \in Names
      BY <2>3 DEF Given
    <3> QED  BY <3>1, <3>2 DEF Names
  <2>5. \A n \in DOMAIN blocks' : n # Len(blocks) /\ hashes[n] # hashes[Len(blocks)]
    BY <1>2, <1>6, <1>7 DEF HashesDiffer
  <2>6. \A m, n \in DOMAIN blocks' : hashes'[m] = hashes'[n] => m = n
    BY <1>7 DEF HashesDiffer
  <2> QED  BY <1>7, <2>2, <2>3, <2>4, <2>5, <2>6 DEF HashesDiffer
<1>10. FundsOnce'
  BY <1>7 DEF FundsOnce
<1> QED  BY <1>1, <1>2, <1>4, <1>6, <1>7, <1>8, <1>9, <1>10

(* Once the tip reached the head of the scan, the blocks it covers stay. *)
LEMMA FinalStays ==
    ASSUME ChainInv, peak >= HeadBlock, MineBlock \/ Reorg
    PROVE  /\ peak' >= HeadBlock
           /\ Final' = Final
           /\ \A n \in Final : blocks'[n] = blocks[n] /\ hashes'[n] = hashes[n]
<1>1. /\ Len(blocks) \in Nat /\ peak \in Nat /\ Len(blocks) >= SafeHead
      /\ DOMAIN blocks = 1..Len(blocks) /\ SafeHead \in Int
  BY TransparencyAssumption, LenProperties DEF ChainInv, TipRight, SafeHead
<1>2. CASE MineBlock
  <2>1. /\ DOMAIN blocks' = DOMAIN blocks \cup {Len(blocks) + 1} /\ peak' >= peak
        /\ peak' \in Nat
        /\ \A n \in DOMAIN blocks : blocks'[n] = blocks[n] /\ hashes'[n] = hashes[n]
    BY <1>2, BlockMined DEF ChainInv, TipRight
  <2> QED  BY <1>1, <2>1, TransparencyAssumption DEF Final, SafeHead
<1>3. CASE Reorg
  <2>1. /\ DOMAIN blocks' = DOMAIN blocks \ {Len(blocks)} /\ peak' = peak
        /\ Len(blocks) > peak - Confirmations
        /\ \A n \in DOMAIN blocks' : blocks'[n] = blocks[n] /\ hashes'[n] = hashes[n]
    BY <1>3, BlockDropped
  <2>2. Len(blocks) > SafeHead
    BY <1>1, <2>1, TransparencyAssumption DEF SafeHead
  <2> QED  BY <1>1, <2>1, <2>2 DEF Final, SafeHead
<1> QED  BY <1>2, <1>3

----------------------------------------------------------------------------
(* The log of a transaction that the aggregation counts it by. *)
MainName(tx) ==
    CASE tx.kind \in {"buy", "sell"} -> "Official"
      [] tx.kind = "record" -> "Recorded"
      [] tx.kind = "fund" -> "Funded"
      [] tx.kind = "claim" -> "Claimed"

MainLog(tx) == CHOOSE l \in LogsOf(tx) : l.name = MainName(tx)

SideNames == {"Repurchased", "Delivered"}

LEMMA LogsTyped ==
    ASSUME NEW tx \in BlockTx
    PROVE  /\ MainLog(tx) \in LogsOf(tx) /\ MainLog(tx).name = MainName(tx)
           /\ \A l \in LogsOf(tx) :
                 /\ l.tx = tx
                 /\ \E i \in 1..3 : l.emitter = Emitters[i]
                 /\ l # MainLog(tx) => l.name \in SideNames
           /\ \A l, k \in LogsOf(tx) : l.index = k.index => l = k
           /\ tx.kind \in {"buy", "sell"} => MainLog(tx).amount = tx.gross
           /\ tx.kind = "record" => MainLog(tx).amount = tx.weth
           /\ tx.kind = "claim" => MainLog(tx).amount = 1
<1>1. tx.kind \in {"buy", "sell", "record", "fund", "claim"}
  BY DEF BlockTx
<1> DEFINE Right(main) ==
      /\ main \in LogsOf(tx) /\ main.name = MainName(tx)
      /\ \A l \in LogsOf(tx) :
            /\ l.tx = tx
            /\ \E i \in 1..3 : l.emitter = Emitters[i]
            /\ l # main => l.name \in SideNames
      /\ \A l, k \in LogsOf(tx) : l.index = k.index => l = k
      /\ tx.kind \in {"buy", "sell"} => main.amount = tx.gross
      /\ tx.kind = "record" => main.amount = tx.weth
      /\ tx.kind = "claim" => main.amount = 1
<1>2. MainName(tx) \notin SideNames
  BY <1>1 DEF MainName, SideNames
<1>3. \E main : Right(main)
  <2>1. CASE tx.kind \in {"buy", "sell"}
    <3> DEFINE o == [emitter |-> "router", index |-> 0, name |-> "Official",
                     tx |-> tx, amount |-> tx.gross]
               r == [emitter |-> "router", index |-> 1, name |-> "Repurchased",
                     tx |-> tx, amount |-> Allocation(tx).burn]
               d == [emitter |-> "router", index |-> 2, name |-> "Delivered",
                     tx |-> tx, amount |-> Allocation(tx).stock]
    <3>1. LogsOf(tx) = {o, r, d} /\ MainName(tx) = "Official"
      BY <2>1 DEF LogsOf, MainName
    <3>2. Right(o)
      BY <2>1, <3>1 DEF SideNames, Emitters
    <3> QED  BY <3>2
  <2>2. CASE tx.kind = "record"
    <3> DEFINE o == [emitter |-> "coordinator", index |-> 0, name |-> "Recorded",
                     tx |-> tx, amount |-> tx.weth]
    <3>1. LogsOf(tx) = {o} /\ MainName(tx) = "Recorded"
      BY <2>2 DEF LogsOf, MainName
    <3>2. Right(o)
      BY <2>2, <3>1 DEF Emitters
    <3> QED  BY <3>2
  <2>3. CASE tx.kind = "fund"
    <3> DEFINE o == [emitter |-> "coordinator", index |-> 0, name |-> "Funded",
                     tx |-> tx, amount |-> AcquiredStockSplit(Acquired).distribution]
    <3>1. LogsOf(tx) = {o} /\ MainName(tx) = "Funded"
      BY <2>3 DEF LogsOf, MainName
    <3>2. Right(o)
      BY <2>3, <3>1 DEF Emitters
    <3> QED  BY <3>2
  <2>4. CASE tx.kind = "claim"
    <3> DEFINE o == [emitter |-> "manager", index |-> 0, name |-> "Claimed",
                     tx |-> tx, amount |-> 1]
    <3>1. LogsOf(tx) = {o} /\ MainName(tx) = "Claimed"
      BY <2>4 DEF LogsOf, MainName
    <3>2. Right(o)
      BY <2>4, <3>1 DEF Emitters
    <3> QED  BY <3>2
  <2> QED  BY <1>1, <2>1, <2>2, <2>3, <2>4
<1>4. PICK main : Right(main)
  BY <1>3
<1>5. MainLog(tx) = main
  BY <1>2, <1>4 DEF MainLog
<1> HIDE DEF Right
<1>6. Right(MainLog(tx))
  BY <1>4, <1>5
<1> QED  BY <1>6 DEF Right

----------------------------------------------------------------------------
(* What eth_getLogs says of log l of block n, and says again. *)
LogAt(n, l, copy) == [block |-> n, hash |-> hashes[n], log |-> l, copy |-> copy]

(* The logs of the covered blocks, each once. *)
AllLogs == UNION {{LogAt(n, l, 1) : l \in LogsOf(blocks[n])} : n \in Final}

(* Nothing was delivered but logs of covered blocks. *)
Sound(logs) ==
    \A x \in logs : \E n \in Final :
        \E l \in LogsOf(blocks[n]), c \in {1, 2} : x = LogAt(n, l, c)

(* The logs before block start of contract `at' and those of the contracts *)
(* before it were delivered.                                               *)
Complete(logs, at, start) ==
    \A n \in Final : \A l \in LogsOf(blocks[n]) :
        (\E i \in 1..3 : l.emitter = Emitters[i] /\ (i < at \/ (i = at /\ n < start)))
            => LogAt(n, l, 1) \in logs

ScanRight ==
    /\ DOMAIN scan = DOMAIN NoScan
    /\ scan.step = "scan" =>
         /\ peak >= HeadBlock
         /\ scan.at \in 1..3 /\ scan.start \in Nat
         /\ Sound(scan.logs)
         /\ Complete(scan.logs, scan.at, scan.start)

ReportRight ==
    report # NoRow => peak >= HeadBlock /\ report = Aggregate(AllLogs)

ReportInv ==
    /\ ChainInv
    /\ ScanRight
    /\ ReportRight

(* The first delivery of a log is the one that is kept. *)
LEMMA FirstKept ==
    ASSUME ChainInv, NEW logs, Sound(logs), NEW n \in Final,
           NEW l \in LogsOf(blocks[n]), LogAt(n, l, 1) \in logs
    PROVE  /\ LogAt(n, l, 1) \in DedupeLogs(logs)
           /\ LogAt(n, l, 2) \notin DedupeLogs(logs)
<1>1. ASSUME NEW k \in logs, k.hash = hashes[n], k.log.index = l.index
      PROVE  k.block = n /\ k.copy \in {1, 2}
  <2>1. PICK m \in Final : \E j \in LogsOf(blocks[m]), c \in {1, 2} : k = LogAt(m, j, c)
    BY <1>1 DEF Sound
  <2>2. hashes[m] = hashes[n] /\ k.block = m /\ k.copy \in {1, 2}
    BY <1>1, <2>1 DEF LogAt
  <2> QED  BY <2>2 DEF ChainInv, HashesDiffer, Final
<1>2. n \in Int
  BY LenProperties DEF Final, ChainInv
<1>3. LogAt(n, l, 1) \in DedupeLogs(logs)
  <2>1. ASSUME NEW k \in logs, k.hash = hashes[n], k.log.index = l.index,
               k.block < n \/ (k.block = n /\ k.copy < 1)
        PROVE  FALSE
    BY <1>1, <1>2, <2>1
  <2> QED  BY <2>1 DEF DedupeLogs, LogAt
<1>4. LogAt(n, l, 2) \notin DedupeLogs(logs)
  BY DEF DedupeLogs, LogAt
<1> QED  BY <1>3, <1>4

LEMMA Deduped ==
    ASSUME ChainInv, NEW logs, Sound(logs), NEW at \in 1..3, NEW start \in Int,
           Complete(logs, at, start)
    PROVE  /\ Sound(DedupeLogs(logs))
           /\ Complete(DedupeLogs(logs), at, start)
<1>1. DedupeLogs(logs) \subseteq logs
  BY DEF DedupeLogs
<1>2. Sound(DedupeLogs(logs))
  BY <1>1 DEF Sound
<1>3. Complete(DedupeLogs(logs), at, start)
  BY FirstKept DEF Complete
<1> QED  BY <1>2, <1>3

(* When the last window of the last contract was read, every log is there. *)
LEMMA AllRead ==
    ASSUME ChainInv, NEW logs, Sound(logs), NEW start \in Int, start > SafeHead,
           Complete(logs, 3, start)
    PROVE  DedupeLogs(logs) = AllLogs
<1>1. \A n \in Final : n < start
  BY TransparencyAssumption, LenProperties DEF Final, ChainInv, SafeHead
<1>2. ASSUME NEW n \in Final, NEW l \in LogsOf(blocks[n])
      PROVE  LogAt(n, l, 1) \in logs
  <2>1. blocks[n] \in BlockTx
    BY LenProperties, ElementOfSeq DEF ChainInv, Final
  <2>2. \E i \in 1..3 : l.emitter = Emitters[i] /\ (i < 3 \/ (i = 3 /\ n < start))
    BY <1>1, <2>1, LogsTyped
  <2> QED  BY <2>2 DEF Complete
<1>3. \A x \in DedupeLogs(logs) : x \in AllLogs
  <2> SUFFICES ASSUME NEW x \in DedupeLogs(logs) PROVE x \in AllLogs
    OBVIOUS
  <2>1. x \in logs
    BY DEF DedupeLogs
  <2>2. PICK n \in Final : \E l \in LogsOf(blocks[n]), c \in {1, 2} : x = LogAt(n, l, c)
    BY <2>1 DEF Sound
  <2>3. PICK l \in LogsOf(blocks[n]) : x = LogAt(n, l, 1) \/ x = LogAt(n, l, 2)
    BY <2>2
  <2>4. x = LogAt(n, l, 1)
    BY <1>2, <2>3, FirstKept
  <2> QED  BY <2>4 DEF AllLogs
<1>4. \A x \in AllLogs : x \in DedupeLogs(logs)
  <2> SUFFICES ASSUME NEW n \in Final, NEW l \in LogsOf(blocks[n])
               PROVE  LogAt(n, l, 1) \in DedupeLogs(logs)
    BY DEF AllLogs
  <2> QED  BY <1>2, FirstKept
<1> QED  BY <1>3, <1>4

(* A window adds the logs of its blocks, whether or not they come twice. *)
LEMMA WindowRead ==
    ASSUME ChainInv, scan.at \in 1..3, scan.start \in Nat, NEW repeats \in BOOLEAN,
           Sound(scan.logs), Complete(scan.logs, scan.at, scan.start)
    PROVE  /\ Sound(Fetched(repeats))
           /\ Complete(Fetched(repeats), scan.at, NextWindow(scan.start))
<1> DEFINE start == scan.start
           got == Logs(Emitters[scan.at], start, WindowEnd(start))
           again == {[l EXCEPT !.copy = 2] : l \in {g \in got : repeats}}
<1>1. /\ DOMAIN blocks = 1..Len(blocks) /\ Len(blocks) \in Nat
      /\ SafeHead \in Int /\ ChunkSize \in Nat \ {0}
  BY TransparencyAssumption, LenProperties DEF ChainInv, SafeHead
<1>2. /\ WindowEnd(start) \in Int /\ WindowEnd(start) <= SafeHead
      /\ NextWindow(start) \in Int
      /\ \A n \in Int : n < NextWindow(start) /\ n <= SafeHead => n <= WindowEnd(start)
  BY <1>1 DEF WindowEnd, NextWindow
<1>3. ASSUME NEW x \in got
      PROVE  \E n \in Final : \E l \in LogsOf(blocks[n]) : x = LogAt(n, l, 1)
  <2>1. PICK n \in {c \in DOMAIN blocks : start <= c /\ c <= WindowEnd(start)} :
               x \in {[block |-> n, hash |-> hashes[n], log |-> l, copy |-> 1] :
                        l \in {k \in LogsOf(blocks[n]) : k.emitter = Emitters[scan.at]}}
    BY <1>3 DEF Logs
  <2>2. n \in Final
    BY <1>1, <1>2 DEF Final
  <2> QED  BY <2>1, <2>2 DEF LogAt
<1>4. ASSUME NEW x \in again
      PROVE  \E n \in Final : \E l \in LogsOf(blocks[n]) : x = LogAt(n, l, 2)
  <2>1. PICK y \in got : x = [y EXCEPT !.copy = 2]
    BY <1>4
  <2>2. PICK n \in Final : \E l \in LogsOf(blocks[n]) : y = LogAt(n, l, 1)
    BY <1>3
  <2> QED  BY <2>1, <2>2 DEF LogAt
<1>5. ASSUME NEW n \in Final, NEW l \in LogsOf(blocks[n]),
             l.emitter = Emitters[scan.at], start <= n, n < NextWindow(start)
      PROVE  LogAt(n, l, 1) \in got
  <2>1. n \in {c \in DOMAIN blocks : start <= c /\ c <= WindowEnd(start)}
    BY <1>1, <1>2, <1>5 DEF Final
  <2> QED  BY <1>5, <2>1 DEF Logs, LogAt
<1>6. Fetched(repeats) = scan.logs \cup got \cup again
  BY DEF Fetched
<1> HIDE DEF got, again
<1>7. Sound(Fetched(repeats))
  BY <1>3, <1>4, <1>6 DEF Sound
<1>8. Complete(Fetched(repeats), scan.at, NextWindow(start))
  <2> SUFFICES ASSUME NEW n \in Final, NEW l \in LogsOf(blocks[n]), NEW i \in 1..3,
                      l.emitter = Emitters[i],
                      i < scan.at \/ (i = scan.at /\ n < NextWindow(start))
               PROVE  LogAt(n, l, 1) \in Fetched(repeats)
    BY DEF Complete
  <2>1. n \in Int
    BY <1>1 DEF Final
  <2>2. CASE i < scan.at \/ (i = scan.at /\ n < start)
    BY <1>6, <2>2 DEF Complete
  <2>3. CASE i = scan.at /\ start <= n
    BY <1>5, <1>6, <2>3
  <2> QED  BY <2>1, <2>2, <2>3
<1> QED  BY <1>7, <1>8

LEMMA ScanWindowKeeps ==
    ASSUME ReportInv, ScanWindow, UNCHANGED chainTipVars
    PROVE  ReportInv'
<1> USE DEF ReportInv
<1>1. /\ peak >= HeadBlock /\ scan.at \in 1..3 /\ scan.start \in Nat
      /\ Sound(scan.logs) /\ Complete(scan.logs, scan.at, scan.start)
  BY DEF ScanWindow, ScanRight
<1>2. DOMAIN scan = {"step", "at", "start", "logs", "expected", "id", "linked"}
  BY DEF ScanRight, NoScan
<1> DEFINE next == NextWindow(scan.start)
<1>3. next \in Nat /\ SafeHead \in Int /\ Len(Emitters) = 3
  BY <1>1, TransparencyAssumption DEF NextWindow, SafeHead, Emitters
<1>4. PICK repeats \in BOOLEAN :
        \/ /\ next <= SafeHead
           /\ scan' = [scan EXCEPT !.start = next, !.logs = Fetched(repeats)]
           /\ report' = report
        \/ /\ next > SafeHead /\ scan.at < 3
           /\ scan' = [scan EXCEPT !.at = @ + 1, !.start = 0,
                                   !.logs = DedupeLogs(Fetched(repeats))]
           /\ report' = report
        \/ /\ next > SafeHead /\ scan.at = 3
           /\ report' = Aggregate(DedupeLogs(Fetched(repeats)))
           /\ scan'.step = "cycleUsed" /\ DOMAIN scan' = DOMAIN NoScan
  <2> DEFINE rows(fetched) == Aggregate(DedupeLogs(fetched)).rows
             first(fetched) == IF rows(fetched) = {} THEN NoRow
                               ELSE CHOOSE r \in rows(fetched) :
                                        \A s \in rows(fetched) : r.id <= s.id
  <2>1. PICK repeats \in BOOLEAN :
           CASE next <= SafeHead ->
                  /\ scan' = [scan EXCEPT !.start = next, !.logs = Fetched(repeats)]
                  /\ report' = report
             [] next > SafeHead /\ scan.at < Len(Emitters) ->
                  /\ scan' = [scan EXCEPT !.at = @ + 1, !.start = 0,
                                          !.logs = DedupeLogs(Fetched(repeats))]
                  /\ report' = report
             [] next > SafeHead /\ scan.at = Len(Emitters) ->
                  /\ report' = Aggregate(DedupeLogs(Fetched(repeats)))
                  /\ scan' = [NoScan EXCEPT !.step = "cycleUsed",
                                            !.expected = first(Fetched(repeats))]
    BY Zenon DEF ScanWindow
  <2> HIDE DEF next, first
  <2>2. /\ next <= SafeHead =>
               /\ scan' = [scan EXCEPT !.start = next, !.logs = Fetched(repeats)]
               /\ report' = report
        /\ next > SafeHead /\ scan.at < 3 =>
               /\ scan' = [scan EXCEPT !.at = @ + 1, !.start = 0,
                                       !.logs = DedupeLogs(Fetched(repeats))]
               /\ report' = report
        /\ next > SafeHead /\ scan.at = 3 =>
               /\ report' = Aggregate(DedupeLogs(Fetched(repeats)))
               /\ scan' = [NoScan EXCEPT !.step = "cycleUsed",
                                         !.expected = first(Fetched(repeats))]
    <3>1. next <= SafeHead <=> ~(next > SafeHead)
      BY <1>3
    <3>2. scan.at < 3 => scan.at # 3
      BY <1>1
    <3>3. Len(Emitters) = 3
      BY <1>3
    <3> QED  BY <2>1, <3>1, <3>2, <3>3, Zenon
  <2>3. scan' = [NoScan EXCEPT !.step = "cycleUsed", !.expected = first(Fetched(repeats))]
          => scan'.step = "cycleUsed" /\ DOMAIN scan' = DOMAIN NoScan
    BY DEF NoScan
  <2>4. next <= SafeHead \/ (next > SafeHead /\ (scan.at < 3 \/ scan.at = 3))
    BY <1>1, <1>3
  <2> QED  BY <2>2, <2>3, <2>4, Zenon
<1>5. Sound(Fetched(repeats)) /\ Complete(Fetched(repeats), scan.at, next)
  BY <1>1, WindowRead
<1>6. /\ Sound(DedupeLogs(Fetched(repeats)))
      /\ Complete(DedupeLogs(Fetched(repeats)), scan.at, next)
  BY <1>1, <1>3, <1>5, Deduped
<1>7. /\ ChainInv' /\ AllLogs' = AllLogs /\ peak' = peak
      /\ blocks' = blocks /\ hashes' = hashes /\ Final' = Final
  BY DEF chainTipVars, ChainInv, TipRight, HashesDiffer, Given, FundsOnce, AllLogs,
         Final, LogAt
<1> HIDE DEF next
<1>8. CASE next <= SafeHead
  <2>1. scan' = [scan EXCEPT !.start = next, !.logs = Fetched(repeats)] /\ report' = report
    BY <1>3, <1>4, <1>8
  <2>2. /\ scan'.at = scan.at /\ scan'.start = next /\ scan'.logs = Fetched(repeats)
        /\ DOMAIN scan' = DOMAIN scan
    BY <1>2, <2>1
  <2>3. Sound(scan.logs)' /\ Complete(scan.logs, scan.at, scan.start)'
    BY <1>5, <1>7, <2>2 DEF Sound, Complete, LogAt
  <2> QED
    BY <1>1, <1>3, <1>7, <2>1, <2>2, <2>3 DEF ScanRight, ReportRight
<1>9. CASE next > SafeHead /\ scan.at < 3
  <2> DEFINE kept == DedupeLogs(Fetched(repeats))
  <2>1. /\ scan' = [scan EXCEPT !.at = @ + 1, !.start = 0, !.logs = kept]
        /\ report' = report
    BY <1>3, <1>4, <1>9
  <2> HIDE DEF kept
  <2>2. /\ scan'.at = scan.at + 1 /\ scan'.start = 0 /\ scan'.logs = kept
        /\ DOMAIN scan' = DOMAIN scan
    BY <1>2, <2>1
  <2>3. Complete(kept, scan.at + 1, 0)
    <3>1. \A n \in Final : n \in Int /\ n < next /\ n >= 0
      BY <1>3, <1>9, LenProperties DEF Final, ChainInv
    <3>2. Complete(kept, scan.at, next)
      BY <1>6 DEF kept
    <3> QED  BY <1>1, <1>3, <3>1, <3>2 DEF Complete
  <2>4. Sound(kept)
    BY <1>6 DEF kept
  <2>5. Sound(scan.logs)' /\ Complete(scan.logs, scan.at, scan.start)'
    BY <1>7, <2>2, <2>3, <2>4 DEF Sound, Complete, LogAt
  <2> QED
    BY <1>1, <1>3, <1>7, <1>9, <2>1, <2>2, <2>5 DEF ScanRight, ReportRight
<1>10. CASE next > SafeHead /\ scan.at = 3
  <2>1. /\ report' = Aggregate(DedupeLogs(Fetched(repeats)))
        /\ scan'.step = "cycleUsed" /\ DOMAIN scan' = DOMAIN NoScan
    BY <1>3, <1>4, <1>10
  <2>2. DedupeLogs(Fetched(repeats)) = AllLogs
    BY <1>3, <1>5, <1>10, AllRead
  <2>3. report' = Aggregate(AllLogs')
    BY <1>7, <2>1, <2>2
  <2> QED
    BY <1>1, <1>7, <2>1, <2>3 DEF ScanRight, ReportRight
<1> QED  BY <1>1, <1>3, <1>8, <1>9, <1>10

LEMMA PanelKeepsReport ==
    ASSUME ReportInv, Panel
    PROVE  ReportInv'
<1> USE DEF ReportInv
<1>1. UNCHANGED chainTipVars
  BY DEF Panel
<1>2. CASE ScanWindow
  BY <1>1, <1>2, ScanWindowKeeps
<1>3. CASE ~ScanWindow
  <2>1. /\ ChainInv' /\ AllLogs' = AllLogs /\ peak' = peak /\ blocks' = blocks
    BY <1>1 DEF chainTipVars, ChainInv, TipRight, HashesDiffer, Given, FundsOnce, AllLogs,
           Final, LogAt
  <2>2. report' = report
    BY <1>3 DEF Panel, RunEffect, ReadCycleUsed, ReadCycleAcquisitionId,
                ReadAcquisition, RequestFails
  <2>3. ReportRight'
    BY <2>1, <2>2 DEF ReportRight
  <2>4. ScanRight'
    <3>1. CASE RunEffect
      <4>1. scan' = [NoScan EXCEPT !.step = "scan"] /\ Len(blocks) >= HeadBlock
        BY <3>1 DEF RunEffect
      <4>2. /\ scan'.at = 1 /\ scan'.start = 0 /\ scan'.logs = {}
            /\ DOMAIN scan' = DOMAIN NoScan
        BY <4>1 DEF NoScan
      <4>3. peak' >= HeadBlock
        BY <2>1, <4>1, TransparencyAssumption, LenProperties DEF ChainInv, TipRight
      <4>4. Sound(scan.logs)' /\ Complete(scan.logs, scan.at, scan.start)'
        <5>1. \A n \in Final' : n \in Nat
          BY <2>1, LenProperties DEF Final, ChainInv
        <5> QED  BY <4>2, <5>1 DEF Sound, Complete
      <4> QED  BY <4>2, <4>3, <4>4 DEF ScanRight
    <3>2. CASE ReadCycleUsed \/ ReadCycleAcquisitionId \/ ReadAcquisition \/ RequestFails
      <4>1. \/ scan' = NoScan \/ scan' = [scan EXCEPT !.step = "cycleAcquisitionId"]
            \/ \E id : scan' = [scan EXCEPT !.step = "acquisitions", !.id = id]
        BY <3>2 DEF ReadCycleUsed, ReadCycleAcquisitionId, ReadAcquisition, RequestFails,
                    Finish
      <4>2. DOMAIN scan = {"step", "at", "start", "logs", "expected", "id", "linked"}
        BY DEF ScanRight, NoScan
      <4>3. CASE scan' = NoScan
        BY <4>3 DEF ScanRight, NoScan
      <4>4. CASE scan' = [scan EXCEPT !.step = "cycleAcquisitionId"]
        BY <4>2, <4>4 DEF ScanRight
      <4>5. ASSUME NEW id, scan' = [scan EXCEPT !.step = "acquisitions", !.id = id]
            PROVE  ScanRight'
        BY <4>2, <4>5 DEF ScanRight
      <4> QED  BY <4>1, <4>3, <4>4, <4>5
    <3> QED  BY <1>3, <3>1, <3>2 DEF Panel
  <2> QED  BY <2>1, <2>3, <2>4
<1> QED  BY <1>2, <1>3

LEMMA ChainMovesKeepReport ==
    ASSUME ReportInv, MineBlock \/ Reorg
    PROVE  ReportInv'
<1> USE DEF ReportInv
<1>1. ChainInv' /\ UNCHANGED panelReadVars
  BY BlockMined, BlockDropped DEF MineBlock, Reorg
<1>2. ASSUME peak >= HeadBlock
      PROVE  /\ peak' >= HeadBlock /\ Final' = Final
             /\ \A n \in Final : blocks'[n] = blocks[n] /\ hashes'[n] = hashes[n]
  BY <1>2, FinalStays
<1>3. scan' = scan /\ report' = report
  BY <1>1 DEF panelReadVars
<1>4. ScanRight'
  <2>1. CASE scan.step = "scan"
    <3>1. /\ peak >= HeadBlock
          /\ Sound(scan.logs) /\ Complete(scan.logs, scan.at, scan.start)
      BY <2>1 DEF ScanRight
    <3>2. \A n \in Final : \A l, c : LogAt(n, l, c)' = LogAt(n, l, c)
      BY <1>2, <3>1 DEF LogAt
    <3>3. Sound(scan.logs)' /\ Complete(scan.logs, scan.at, scan.start)'
      BY <1>2, <1>3, <3>1, <3>2 DEF Sound, Complete
    <3> QED  BY <1>2, <1>3, <2>1, <3>1, <3>3 DEF ScanRight
  <2>2. CASE scan.step # "scan"
    BY <1>3, <2>2 DEF ScanRight
  <2> QED  BY <2>1, <2>2
<1>5. ReportRight'
  <2>1. CASE report # NoRow
    <3>1. peak >= HeadBlock /\ report = Aggregate(AllLogs)
      BY <2>1 DEF ReportRight
    <3>2. AllLogs' = AllLogs
      BY <1>2, <3>1 DEF AllLogs, LogAt
    <3> QED  BY <1>2, <1>3, <3>1, <3>2 DEF ReportRight
  <2>2. CASE report = NoRow
    BY <1>3, <2>2 DEF ReportRight
  <2> QED  BY <2>1, <2>2
<1> QED  BY <1>1, <1>4, <1>5

LEMMA ReportStarts == TransparencyInit => ReportInv
<1> SUFFICES ASSUME TransparencyInit PROVE ReportInv
  OBVIOUS
<1>1. blocks \in Seq(BlockTx) /\ Len(blocks) = 0 /\ DOMAIN blocks = {}
  BY EmptySeq DEF TransparencyInit
<1>2. hashes \in Seq(Names) /\ Len(hashes) = 0
  BY EmptySeq DEF TransparencyInit
<1>3. ChainInv
  BY <1>1, <1>2, TransparencyAssumption
     DEF TransparencyInit, ChainInv, TipRight, HashesDiffer, FundsOnce
<1> QED
  BY <1>3 DEF TransparencyInit, ReportInv, ScanRight, ReportRight, NoScan

LEMMA ReportKeeps == ReportInv /\ [TransparencyNext]_transparencyVars => ReportInv'
<1> SUFFICES ASSUME ReportInv, [TransparencyNext]_transparencyVars
             PROVE  ReportInv'
  OBVIOUS
<1>1. CASE UNCHANGED transparencyVars
  BY <1>1 DEF transparencyVars, chainTipVars, panelReadVars, ReportInv, ChainInv, TipRight,
              HashesDiffer, Given, FundsOnce, ScanRight, ReportRight, Sound, Complete,
              AllLogs, Final, LogAt
<1> QED  BY <1>1, ChainMovesKeepReport, PanelKeepsReport DEF TransparencyNext

----------------------------------------------------------------------------
(* The report of all logs is the state of the covered blocks. *)

LEMMA PrefixFinal ==
    ASSUME ChainInv, peak >= HeadBlock
    PROVE  /\ IsFiniteSet(Final) /\ DOMAIN Prefix = Final
           /\ \A n \in Final : Prefix[n] = blocks[n] /\ blocks[n] \in BlockTx
<1>1. /\ Len(blocks) \in Nat /\ Len(blocks) >= SafeHead
      /\ DOMAIN blocks = 1..Len(blocks) /\ SafeHead \in Int
  BY TransparencyAssumption, LenProperties DEF ChainInv, TipRight, SafeHead
<1>2. Final = 1..SafeHead
  BY <1>1 DEF Final
<1>3. \A n \in Final : blocks[n] \in BlockTx
  BY <1>1, ElementOfSeq DEF Final, ChainInv
<1>4. /\ Prefix \in Seq(BlockTx)
      /\ Len(Prefix) = IF 1 <= SafeHead THEN SafeHead ELSE 0
      /\ \A n \in 1..SafeHead : Prefix[n] = blocks[n]
  <2>1. /\ SubSeq(blocks, 1, SafeHead) \in Seq(BlockTx)
        /\ Len(SubSeq(blocks, 1, SafeHead))
              = IF 1 <= SafeHead THEN SafeHead - 1 + 1 ELSE 0
        /\ \A n \in 1..SafeHead - 1 + 1 :
              SubSeq(blocks, 1, SafeHead)[n] = blocks[1 + n - 1]
    BY <1>1, <1>2, <1>3, SubSeqProperties
  <2> QED  BY <1>1, <2>1 DEF Prefix
<1>5. DOMAIN Prefix = 1..SafeHead
  BY <1>1, <1>4, LenProperties
<1>6. IsFiniteSet(Final)
  BY <1>1, <1>2, FS_Interval
<1> QED  BY <1>2, <1>3, <1>4, <1>5, <1>6

(* The log that block n is counted by. *)
At(n) == LogAt(n, MainLog(blocks[n]), 1)

Mains == {"Official", "Recorded", "Funded", "Claimed"}

LEMMA AtTyped ==
    ASSUME ChainInv, NEW n \in Final
    PROVE  /\ At(n).block = n /\ At(n).log.tx = blocks[n]
           /\ At(n).log.name = MainName(blocks[n])
           /\ blocks[n].kind \in {"buy", "sell"} => At(n).log.amount = blocks[n].gross
           /\ blocks[n].kind = "record" => At(n).log.amount = blocks[n].weth
           /\ blocks[n].kind = "claim" => At(n).log.amount = 1
<1>1. blocks[n] \in BlockTx
  BY LenProperties, ElementOfSeq DEF ChainInv, Final
<1>2. MainLog(blocks[n]).tx = blocks[n]
  BY <1>1, LogsTyped
<1> QED  BY <1>1, <1>2, LogsTyped DEF At, LogAt

LEMMA NamedAre ==
    ASSUME ChainInv, NEW name \in Mains
    PROVE  Named(AllLogs, name)
              = {At(n) : n \in {m \in Final : MainName(blocks[m]) = name}}
<1>1. \A n \in Final : blocks[n] \in BlockTx
  BY LenProperties, ElementOfSeq DEF ChainInv, Final
<1>2. ASSUME NEW x \in Named(AllLogs, name)
      PROVE  \E n \in Final : MainName(blocks[n]) = name /\ x = At(n)
  <2>0. PICK n \in Final : \E k \in LogsOf(blocks[n]) : x = LogAt(n, k, 1)
    BY <1>2 DEF Named, AllLogs
  <2>1. PICK l \in LogsOf(blocks[n]) : x = LogAt(n, l, 1)
    BY <2>0
  <2>2. l.name = name
    BY <1>2, <2>1 DEF Named, LogAt
  <2>3. l = MainLog(blocks[n])
    BY <1>1, <2>2, LogsTyped DEF Mains, SideNames
  <2>4. MainName(blocks[n]) = name
    BY <1>1, <2>2, <2>3, LogsTyped
  <2> QED  BY <2>1, <2>3, <2>4 DEF At
<1>3. ASSUME NEW n \in Final, MainName(blocks[n]) = name
      PROVE  At(n) \in Named(AllLogs, name)
  <2>1. MainLog(blocks[n]) \in LogsOf(blocks[n])
    BY <1>1, LogsTyped
  <2>2. At(n) \in AllLogs
    BY <2>1 DEF At, AllLogs
  <2> QED  BY <1>3, <2>2, AtTyped DEF Named
<1> QED  BY <1>2, <1>3

(* A sum over the logs of some blocks is the sum over the blocks. *)
LEMMA SumOfBlocks ==
    ASSUME ChainInv, peak >= HeadBlock, NEW B \in SUBSET Final, NEW f,
           \A n \in B : f[n] \in Int /\ At(n).log.amount = f[n]
    PROVE  SumOf({At(n) : n \in B}) = SumFunctionOnSet(f, B)
<1> DEFINE h == [n \in B |-> At(n)]
           T == {h[n] : n \in B}
           g == [l \in T |-> l.log.amount]
<1>1. IsFiniteSet(B)
  BY PrefixFinal, FS_Subset
<1>2. T = {At(n) : n \in B} /\ SumOf(T) = SumFunctionOnSet(g, T)
  BY DEF SumOf
<1>3. \A n \in B : g[h[n]] = f[n]
  OBVIOUS
<1>4. \A m, n \in B : h[m] = h[n] => m = n
  BY AtTyped
<1> HIDE DEF g, h
<1>5. SumFunctionOnSet(g, T) = SumFunctionOnSet(f, B)
  BY <1>1, <1>3, <1>4, SumReindex
<1> QED  BY <1>2, <1>5

LEMMA VolumeRight ==
    ASSUME ChainInv, peak >= HeadBlock, NEW kind \in {"buy", "sell"}
    PROVE  SumOf(Trades(AllLogs, kind)) = Volume(Prefix, kind)
<1> DEFINE B == {n \in Final : blocks[n].kind = kind}
           f == [n \in B |-> Prefix[n].gross]
<1>1. \A n \in Final : Prefix[n] = blocks[n] /\ blocks[n] \in BlockTx
  BY PrefixFinal
<1>2. Trades(AllLogs, kind) = {At(n) : n \in B}
  <2>1. \A n \in Final : blocks[n].kind = kind =>
           MainName(blocks[n]) = "Official"
    BY DEF MainName
  <2>2. Named(AllLogs, "Official")
          = {At(n) : n \in {m \in Final : MainName(blocks[m]) = "Official"}}
    BY NamedAre DEF Mains
  <2>3. \A n \in Final : At(n).log.tx = blocks[n]
    BY AtTyped
  <2> QED  BY <2>1, <2>2, <2>3 DEF Trades
<1>3. \A n \in B : f[n] \in Int /\ At(n).log.amount = f[n]
  <2>1. \A n \in B : blocks[n].gross \in Nat
    BY <1>1, TransparencyAssumption DEF BlockTx
  <2> QED  BY <1>1, <2>1, AtTyped
<1>4. Volume(Prefix, kind) = SumFunctionOnSet(f, B)
  <2>1. {b \in DOMAIN Prefix : Prefix[b].kind = kind} = B
    BY <1>1, PrefixFinal
  <2> QED  BY <2>1 DEF Volume
<1> HIDE DEF f, B
<1>5. B \in SUBSET Final
  BY DEF B
<1> QED  BY <1>2, <1>3, <1>4, <1>5, SumOfBlocks

(* What was claimed from a cycle is counted one a claim. *)
LEMMA ClaimedRight ==
    ASSUME ChainInv, peak >= HeadBlock, NEW of
    PROVE  SumOf({c \in Named(AllLogs, "Claimed") : c.log.tx.cycle = of})
              = Cardinality(Claims(Prefix, of))
<1> DEFINE B == {n \in Final : blocks[n].kind = "claim" /\ blocks[n].cycle = of}
           f == [n \in B |-> 1]
<1>1. \A n \in Final : Prefix[n] = blocks[n] /\ blocks[n] \in BlockTx
  BY PrefixFinal
<1>2. {c \in Named(AllLogs, "Claimed") : c.log.tx.cycle = of} = {At(n) : n \in B}
  <2>1. \A n \in Final : MainName(blocks[n]) = "Claimed" <=> blocks[n].kind = "claim"
    BY <1>1 DEF MainName, BlockTx
  <2>2. Named(AllLogs, "Claimed")
          = {At(n) : n \in {m \in Final : MainName(blocks[m]) = "Claimed"}}
    BY NamedAre DEF Mains
  <2>3. \A n \in Final : At(n).log.tx = blocks[n]
    BY AtTyped
  <2> QED  BY <2>1, <2>2, <2>3
<1>3. Claims(Prefix, of) = B
  BY <1>1, PrefixFinal DEF Claims
<1>4. \A n \in B : f[n] \in Int /\ At(n).log.amount = f[n] /\ f[n] = 1
  BY AtTyped
<1>5. B \in SUBSET Final /\ IsFiniteSet(B)
  BY PrefixFinal, FS_Subset
<1> HIDE DEF f, B
<1>6. SumOf({At(n) : n \in B}) = SumFunctionOnSet(f, B)
  BY <1>4, <1>5, SumOfBlocks
<1>7. SumFunctionOnSet(f, B) = Cardinality(B)
  BY <1>4, <1>5, SumOnes
<1> QED  BY <1>2, <1>3, <1>6, <1>7

(* The row of an acquisition tells what became of it. *)
LEMMA RowRight ==
    ASSUME ChainInv, peak >= HeadBlock, NEW b \in Recorded(Prefix)
    PROVE  Row(AllLogs, At(b)) = AcquisitionAt(Prefix, b)
<1> DEFINE fund == {f \in Named(AllLogs, "Funded") : f.log.tx.id = At(b).log.tx.id}
           linked == IF fund = {} THEN NoRow
                    ELSE (CHOOSE f \in fund : TRUE).log.tx.cycle
           funds == {f \in DOMAIN Prefix :
                        Prefix[f].kind = "fund" /\ Prefix[f].id = Prefix[b].id}
           linkedAt == IF funds = {} THEN NoRow
                      ELSE Prefix[CHOOSE f \in funds : TRUE].cycle
<1>1. \A n \in Final : Prefix[n] = blocks[n] /\ blocks[n] \in BlockTx
  BY PrefixFinal
<1>2. b \in Final /\ DOMAIN Prefix = Final /\ blocks[b].kind = "record"
  BY <1>1, PrefixFinal DEF Recorded
<1>3. fund = {At(n) : n \in funds}
  <2>1. \A n \in Final : MainName(blocks[n]) = "Funded" <=> blocks[n].kind = "fund"
    BY <1>1 DEF MainName, BlockTx
  <2>2. Named(AllLogs, "Funded")
          = {At(n) : n \in {m \in Final : MainName(blocks[m]) = "Funded"}}
    BY NamedAre DEF Mains
  <2>3. \A n \in Final : At(n).log.tx = blocks[n]
    BY AtTyped
  <2> QED  BY <1>1, <1>2, <2>1, <2>2, <2>3
<1>4. \A n \in funds : n \in DOMAIN blocks /\ IsFund(blocks[n]) /\ blocks[n].id = blocks[b].id
  BY <1>1, <1>2 DEF Final, IsFund
<1>5. \A m, n \in funds : m = n
  BY <1>4 DEF ChainInv, FundsOnce
<1>6. \A n \in funds : At(n).log.tx.cycle = Prefix[n].cycle
  BY <1>1, <1>2, AtTyped
<1> HIDE DEF fund, funds
<1>7. linked = linkedAt
  <2>1. CASE funds = {}
    BY <1>3, <2>1
  <2>2. CASE funds # {}
    <3>1. PICK n \in funds : funds = {n}
      BY <1>5, <2>2
    <3>2. fund = {At(n)}
      BY <1>3, <3>1
    <3>3. (CHOOSE f \in fund : TRUE) = At(n) /\ (CHOOSE f \in funds : TRUE) = n
      BY <3>1, <3>2
    <3> QED  BY <1>6, <2>2, <3>1, <3>2, <3>3
  <2> QED  BY <2>1, <2>2
<1> HIDE DEF linked, linkedAt
<1>8. At(b).log.tx.id = Prefix[b].id /\ At(b).log.amount = Prefix[b].weth
  BY <1>1, <1>2, AtTyped
<1>9. SumOf({c \in Named(AllLogs, "Claimed") : c.log.tx.cycle = linked})
        = Cardinality(Claims(Prefix, linked))
  BY ClaimedRight
<1>10. Row(AllLogs, At(b))
         = [id |-> At(b).log.tx.id, weth |-> At(b).log.amount,
            distribution |-> AcquiredStockSplit(Acquired).distribution,
            reserve |-> AcquiredStockSplit(Acquired).reserve,
            cycle |-> linked,
            claimed |-> SumOf({c \in Named(AllLogs, "Claimed") :
                                   c.log.tx.cycle = linked})]
  BY DEF Row, linked, fund
<1>11. AcquisitionAt(Prefix, b)
         = [id |-> Prefix[b].id, weth |-> Prefix[b].weth,
            distribution |-> AcquiredStockSplit(Acquired).distribution,
            reserve |-> AcquiredStockSplit(Acquired).reserve,
            cycle |-> linkedAt,
            claimed |-> Cardinality(Claims(Prefix, linkedAt))]
  BY DEF AcquisitionAt, linkedAt, funds
<1> QED  BY <1>7, <1>8, <1>9, <1>10, <1>11

LEMMA AllLogsTell ==
    ASSUME ChainInv, peak >= HeadBlock, report = Aggregate(AllLogs), report # NoRow
    PROVE  ReportIsSnapshot
<1>1. /\ report.buyVolume = SumOf(Trades(AllLogs, "buy"))
      /\ report.sellVolume = SumOf(Trades(AllLogs, "sell"))
      /\ report.rows = {Row(AllLogs, r) : r \in Named(AllLogs, "Recorded")}
  BY DEF Aggregate
<1>2. /\ report.buyVolume = Volume(Prefix, "buy")
      /\ report.sellVolume = Volume(Prefix, "sell")
  BY <1>1, VolumeRight
<1>3. Named(AllLogs, "Recorded") = {At(b) : b \in Recorded(Prefix)}
  <2>1. \A n \in Final : Prefix[n] = blocks[n] /\ blocks[n] \in BlockTx
    BY PrefixFinal
  <2>2. \A n \in Final : MainName(blocks[n]) = "Recorded" <=> blocks[n].kind = "record"
    BY <2>1 DEF MainName, BlockTx
  <2>3. Recorded(Prefix) = {m \in Final : MainName(blocks[m]) = "Recorded"}
    BY <2>1, <2>2, PrefixFinal DEF Recorded
  <2> QED  BY <2>3, NamedAre DEF Mains
<1>4. report.rows = {Row(AllLogs, At(b)) : b \in Recorded(Prefix)}
  BY <1>1, <1>3
<1>5. report.rows = {AcquisitionAt(Prefix, b) : b \in Recorded(Prefix)}
  BY <1>4, RowRight
<1> QED  BY <1>2, <1>5 DEF ReportIsSnapshot

(* The report shows every trade and acquisition up to the safe head once,  *)
(* for any chain, windows and number of contracts' logs, whatever the node *)
(* repeats and the chain reorganises above that head: the windows cover    *)
(* the blocks without a gap, and the hash and index of a log are its name. *)
THEOREM ReportTells == TransparencySpec => []ReportIsSnapshot
<1>1. ReportInv => ReportIsSnapshot
  BY AllLogsTell DEF ReportInv, ReportRight, ReportIsSnapshot
<1> QED  BY <1>1, ReportStarts, ReportKeeps, PTL DEF TransparencySpec
=============================================================================
