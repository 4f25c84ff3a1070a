--------------------------- MODULE CanaryOperator ---------------------------
(***************************************************************************)
(* The browser operator that executes the reviewed canary packet one        *)
(* wallet approval at a time (operator-core.mjs, recovery-core.mjs) and the *)
(* page that drives it (app.js, recovery-app.js).                           *)
(*                                                                          *)
(* What is durable is four localStorage records: the journal of verified    *)
(* steps, the pending hash, the intent to send and the halt.  Everything    *)
(* else is page memory and is rebuilt by a reload, which may come at any    *)
(* point: between any two awaits of a handler, while the wallet is asking   *)
(* its user, after the broadcast and before the answer.  A durable write    *)
(* may not happen, or may happen and fail its read-back.                    *)
(*                                                                          *)
(* A handler is a task; one action is what runs between two awaits.  The    *)
(* reads a handler makes of the chain are of facts that do not change back  *)
(* (a mined transaction stays mined), and are one action.  Steps are        *)
(* numbered from 1; the packet's binding (bindAndVerifyPacket) is a check   *)
(* of constant data and either passes or leaves the page halted.  A         *)
(* transaction is named by the wallet request it came from.                 *)
(***************************************************************************)
EXTENDS Integers, Sequences, FiniteSets

CONSTANTS
    DeployerSteps,  \* the packet's steps signed by the deployer, which come first
    TesterSteps,    \* the steps signed by the tester
    Tasks,        \* handlers that may run at once in the page
    Overlap,      \* TRUE: a button is clicked while another handler is still running
    MaxRequests,  \* bound: wallet requests
    MaxReloads,   \* bound: reloads of the page
    MaxFaults     \* bound: durable writes that do not round-trip

ASSUME OperatorAssumption ==
    /\ Overlap \in BOOLEAN
    /\ {DeployerSteps, TesterSteps, MaxRequests, MaxReloads, MaxFaults} \subseteq Nat

VARIABLES
    disk,      \* journal, pending, intent and halt as localStorage holds them
    mem,       \* the CanaryOperator object
    ui,        \* the panel shown and which of its buttons are enabled
    tasks,     \* where each handler is
    requests,  \* every eth_sendTransaction ever made, and what became of it
    mined,     \* the transaction that used each step's signer and nonce, if any
    reloads, faults

opVars == <<disk, mem, ui, tasks, requests, mined, reloads, faults>>

Last == DeployerSteps + TesterSteps
Steps == 1..Last
Signer(s) == IF s <= DeployerSteps THEN "deployer" ELSE "tester"
NoStep == 0
NoPending == [step |-> NoStep, tx |-> 0]
NoHalt == [on |-> FALSE, uncertain |-> NoStep]
Idle == [pc |-> "idle", step |-> NoStep, tx |-> 0, via |-> "button"]
At(pc, step, tx, via) == [pc |-> pc, step |-> step, tx |-> tx, via |-> via]

-----------------------------------------------------------------------------
(* Durable writes.  "dropped": nothing is stored.  "unread": stored, but    *)
(* the read-back does not confirm it.                                       *)

Outcomes == {"ok", "dropped", "unread"}
RoundTrips(o) == o = "ok"
Put(d, key, value, o) == IF o = "dropped" THEN d ELSE [d EXCEPT ![key] = value]
Fault(o) == IF RoundTrips(o) THEN 0 ELSE 1

Faulty(n) ==
    /\ faults + n <= MaxFaults
    /\ faults' = faults + n

(* Deliberate defect: an intent with no answer is taken for a send that     *)
(* never happened.                                                          *)
Restored_DefectForgetsIntent(d) ==
    [halted |-> d.halt.on, uncertain |-> d.halt.uncertain,
     journal |-> d.journal, pending |-> d.pending, intent |-> d.intent,
     connected |-> FALSE, reconciled |-> FALSE, current |-> 1]

(* The constructor: the durable records, and the rule that an intent which  *)
(* neither the journal nor the pending record accounts for is an uncertain  *)
(* send.                                                                    *)
Restored(d) ==
    LET journaled == \E k \in DOMAIN d.journal : d.journal[k].step = d.intent
        covered == d.pending # NoPending /\ d.pending.step = d.intent
        stray == /\ d.intent # NoStep
                 /\ d.halt.uncertain = NoStep
                 /\ ~journaled
                 /\ ~covered
    IN [halted |-> d.halt.on \/ stray,
        uncertain |-> IF stray THEN d.intent ELSE d.halt.uncertain,
        journal |-> d.journal, pending |-> d.pending, intent |-> d.intent,
        connected |-> FALSE, reconciled |-> FALSE, current |-> 1]

Panel(p, prechecked, connect) ==
    [panel |-> p, confirm |-> FALSE, send |-> FALSE,
     prechecked |-> prechecked, connect |-> connect]

(* render(): which panel the operator's state calls for.                    *)
Rendered(m) ==
    IF ~(m.connected /\ m.reconciled) \/ m.halted THEN "halted"
    ELSE IF m.current > Last THEN "done"
    ELSE IF m.pending # NoPending THEN "pending"
    ELSE "step"

Render(m) == ui' = Panel(Rendered(m), ui.prechecked, ui.connect)
RenderHalted == ui' = Panel("halted", ui.prechecked, ui.connect)
RenderAfresh(m) == ui' = Panel(Rendered(m), FALSE, ui.connect)

OpInit ==
    /\ disk = [journal |-> <<>>, pending |-> NoPending, intent |-> NoStep, halt |-> NoHalt]
    /\ mem = Restored(disk)
    /\ ui = Panel("blank", FALSE, TRUE)
    /\ tasks = [t \in Tasks |-> Idle]
    /\ requests = <<>>
    /\ mined = [s \in Steps |-> [tx |-> 0, ok |-> FALSE]]
    /\ reloads = 0
    /\ faults = 0

Unsent == UNCHANGED <<requests, mined, reloads>>

(* A button can be clicked: with Overlap also while a handler is running.   *)
Clicked(t) ==
    /\ tasks[t] = Idle
    /\ Overlap \/ \A u \in Tasks : tasks[u] = Idle

Becomes(t, task) == tasks' = [tasks EXCEPT ![t] = task]
Returns(t) == Becomes(t, Idle)

(* _persistHalt: the memory is halted whether or not the write happens.     *)
PersistHalt(m, d, uncertain, o) ==
    /\ mem' = [m EXCEPT !.halted = TRUE, !.uncertain = uncertain]
    /\ disk' = Put(d, "halt", [on |-> TRUE, uncertain |-> uncertain], o)

(* _halt: what was uncertain stays uncertain.                               *)
Halt(o) == PersistHalt(mem, disk, mem.uncertain, o)

-----------------------------------------------------------------------------
(* The wallet and the chain.                                                *)

(* The user approves: the transaction is broadcast and its hash will be     *)
(* returned.  The wallet may have changed the gas fields beyond what the    *)
(* packet's verifier accepts.                                               *)
WalletApproves(r) ==
    /\ requests[r].answer = "none"
    /\ \E reviewed \in BOOLEAN :
          requests' = [requests EXCEPT ![r].answer = "hash", ![r].broadcast = TRUE,
                                       ![r].reviewed = reviewed]
    /\ UNCHANGED <<disk, mem, ui, tasks, mined, reloads, faults>>

WalletRejects(r) ==
    /\ requests[r].answer = "none"
    /\ requests' = [requests EXCEPT ![r].answer = "rejected"]
    /\ UNCHANGED <<disk, mem, ui, tasks, mined, reloads, faults>>

(* Any other error, with or without a broadcast.                            *)
WalletFails(r) ==
    /\ requests[r].answer = "none"
    /\ \E sent \in BOOLEAN :
          requests' = [requests EXCEPT ![r].answer = "error", ![r].broadcast = sent]
    /\ UNCHANGED <<disk, mem, ui, tasks, mined, reloads, faults>>

SameSignerBefore(s) == {p \in 1..(s - 1) : Signer(p) = Signer(s)}

(* A block takes the transaction; a signer's nonces are used in order.      *)
Mine(r) ==
    LET s == requests[r].step IN
    /\ requests[r].broadcast
    /\ mined[s].tx = 0
    /\ \A p \in SameSignerBefore(s) : mined[p].tx # 0
    /\ \E ok \in BOOLEAN : mined' = [mined EXCEPT ![s] = [tx |-> r, ok |-> ok]]
    /\ UNCHANGED <<disk, mem, ui, tasks, requests, reloads, faults>>

(* Deliberate defect: a receipt is enough, whatever its status.             *)
Verified_DefectAnyStatus(tx, i) ==
    /\ i \in Steps
    /\ tx # 0
    /\ mined[i].tx = tx
    /\ requests[tx].reviewed

(* _verifyTxAndReceipt, the receipt postcondition and the checkpoint: the   *)
(* transaction is the reviewed one of step i and its receipt is a success.  *)
Verified(tx, i) ==
    /\ i \in Steps
    /\ tx # 0
    /\ mined[i] = [tx |-> tx, ok |-> TRUE]
    /\ requests[tx].reviewed

(* The gates of preconditions() that depend on the packet's progress: both  *)
(* nonces are the step's and the journal holds the steps before it.  The    *)
(* "pending" nonce of an endpoint need not count a transaction that is not  *)
(* mined yet.                                                               *)
GatesPass(i) ==
    /\ i \in Steps
    /\ \A s \in Steps : Signer(s) = Signer(i) => (mined[s].tx # 0 <=> s < i)
    /\ Len(mem.journal) = i - 1

-----------------------------------------------------------------------------
(* Load: the constructor, the binding of the packet, init() of the page.    *)

Reload ==
    /\ reloads < MaxReloads
    /\ reloads' = reloads + 1
    /\ \/ LET m == Restored(disk) IN
          /\ mem' = m
          /\ disk' = disk
          /\ ui' = Panel(IF m.halted THEN "halted" ELSE "blank", FALSE, ~m.halted)
          /\ faults' = faults
       \/ \E o \in Outcomes :                        \* packet binding failed
          /\ PersistHalt(Restored(disk), disk, Restored(disk).uncertain, o)
          /\ Faulty(Fault(o))
          /\ ui' = Panel("blank", FALSE, FALSE)
    /\ tasks' = [t \in Tasks |-> Idle]
    /\ UNCHANGED <<requests, mined>>

(* connect(): markConnected, then reconcile() up to its first await.        *)
Connect(t) ==
    /\ Clicked(t)
    /\ ui.connect
    /\ ~mem.halted
    /\ mem' = [mem EXCEPT !.connected = TRUE]
    /\ Becomes(t, At("journal", NoStep, 0, "connect"))
    /\ UNCHANGED <<disk, ui, faults>> /\ Unsent

JournalVerifies ==
    \A k \in DOMAIN mem.journal :
        /\ mem.journal[k].step = k
        /\ Verified(mem.journal[k].tx, k)

(* reconcile(): the journal verifies; the step and the pending record follow *)
(* from it.                                                                 *)
ReconcileJournal(t) ==
    /\ tasks[t].pc = "journal"
    /\ JournalVerifies
    /\ LET stale == mem.pending # NoPending /\ mem.pending.step <= Len(mem.journal)
           m == [mem EXCEPT !.current = Len(mem.journal) + 1, !.reconciled = TRUE,
                            !.pending = IF stale THEN NoPending ELSE @]
       IN /\ mem' = m
          /\ \E o \in Outcomes :
                /\ disk' = IF stale THEN Put(disk, "pending", NoPending, o) ELSE disk
                /\ ~stale => o = "ok"
                /\ Faulty(Fault(o))
          /\ IF m.pending = NoPending
                THEN Returns(t) /\ Render(m)
                ELSE Becomes(t, At("lookup", NoStep, 0, "connect")) /\ UNCHANGED ui
    /\ Unsent

(* The pending transaction is not known to the node: sends stay disabled.   *)
PendingUnresolved(t) ==
    /\ tasks[t].pc = "lookup"
    /\ \A s \in Steps : mined[s].tx # mem.pending.tx
    /\ mem' = [mem EXCEPT !.reconciled = FALSE]
    /\ Returns(t) /\ Render(mem')
    /\ UNCHANGED <<disk, faults>> /\ Unsent

(* verifyAfterHash up to its first await, for the pending hash.             *)
StartVerify(t, m, via) ==
    IF m.halted
       THEN Returns(t) /\ RenderHalted
       ELSE /\ Becomes(t, At("verify", m.current, m.pending.tx, via))
            /\ ui' = Panel(IF via = "send" THEN Rendered(m) ELSE ui.panel,
                           ui.prechecked, ui.connect)

PendingFound(t) ==
    /\ tasks[t].pc = "lookup"
    /\ mem.pending # NoPending
    /\ StartVerify(t, mem, "connect")
    /\ UNCHANGED <<disk, mem, faults>> /\ Unsent

(* "Verify pending transaction": doVerify.                                  *)
ResumeVerify(t) ==
    /\ Clicked(t)
    /\ ui.panel = "pending"
    /\ mem.pending # NoPending
    /\ StartVerify(t, mem, "button")
    /\ UNCHANGED <<disk, mem, faults>> /\ Unsent

(* verifyAfterHash after its awaits: the journal first; without it the      *)
(* pending record is kept.                                                  *)
JournalStep(t) ==
    LET entry == [step |-> tasks[t].step, tx |-> tasks[t].tx]
        next == Append(mem.journal, entry)
    IN /\ tasks[t].pc = "verify"
       /\ Verified(entry.tx, entry.step)
       /\ Returns(t)
       /\ \E o1, o2, o3 \in Outcomes :
             LET d1 == Put(disk, "journal", next, o1)
                 d2 == Put(d1, "pending", NoPending, o2)
                 d3 == Put(d2, "intent", NoStep, o3)
                 m == [mem EXCEPT !.journal = next, !.pending = NoPending, !.intent = NoStep,
                                  !.current = @ + 1,
                                  !.reconciled = @ \/ tasks[t].via = "connect"]
             IN \/ /\ RoundTrips(o1)
                   /\ Faulty(Fault(o2) + Fault(o3))
                   /\ disk' = d3 /\ mem' = m
                   /\ IF tasks[t].via = "connect" THEN Render(m) ELSE RenderAfresh(m)
                \/ /\ ~RoundTrips(o1) /\ o2 = "ok" /\ o3 = "ok"
                   /\ Faulty(1)
                   /\ disk' = d1 /\ mem' = mem
                   /\ RenderHalted
       /\ Unsent

(* Any check of reconcile() or verifyAfterHash that fails - a receipt       *)
(* timeout, another transaction, a revert, a checkpoint - halts for good.   *)
VerifyFails(t) ==
    /\ tasks[t].pc \in {"journal", "verify"}
    /\ \E o \in Outcomes : Halt(o) /\ Faulty(Fault(o))
    /\ Returns(t) /\ RenderHalted
    /\ Unsent

(* A provider call throws before the wallet is asked: the handler ends.     *)
ProviderThrows(t) ==
    /\ tasks[t].pc \in {"journal", "lookup", "verify", "precheck", "gates"}
    /\ Returns(t)
    /\ UNCHANGED <<disk, mem, ui, faults>> /\ Unsent

-----------------------------------------------------------------------------
(* The three buttons of a step.                                             *)

Ready ==
    /\ mem.connected /\ mem.reconciled
    /\ ~mem.halted
    /\ mem.pending = NoPending
    /\ mem.current \in Steps

(* doPrecheck up to the first await of preconditions().                     *)
Precheck(t) ==
    /\ Clicked(t)
    /\ ui.panel = "step"
    /\ IF Ready
          THEN /\ Becomes(t, At("precheck", mem.current, 0, "button"))
               /\ ui' = Panel("step", FALSE, ui.connect)
          ELSE /\ Returns(t)
               /\ ui' = Panel("halted", FALSE, ui.connect)
    /\ UNCHANGED <<disk, mem, faults>> /\ Unsent

PrecheckPasses(t) ==
    /\ tasks[t].pc = "precheck"
    /\ GatesPass(tasks[t].step)
    /\ ui' = [ui EXCEPT !.prechecked = TRUE, !.confirm = (ui.panel = "step")]
    /\ Returns(t)
    /\ UNCHANGED <<disk, mem, faults>> /\ Unsent

(* A gate of preconditions() that fails halts durably, for either button.   *)
GateFails(t) ==
    /\ tasks[t].pc \in {"precheck", "gates"}
    /\ \E o \in Outcomes : Halt(o) /\ Faulty(Fault(o))
    /\ Returns(t) /\ RenderHalted
    /\ Unsent

(* The recovery operator's wrong-account refusal: nothing is halted.        *)
WrongAccount(t) ==
    /\ tasks[t].pc \in {"precheck", "gates"}
    /\ Returns(t)
    /\ IF tasks[t].pc = "gates" THEN Render(mem) ELSE UNCHANGED ui
    /\ UNCHANGED <<disk, mem, faults>> /\ Unsent

Confirm ==
    /\ ui.panel = "step" /\ ui.confirm /\ ui.prechecked
    /\ ui' = [ui EXCEPT !.send = TRUE]
    /\ UNCHANGED <<disk, mem, tasks, faults>> /\ Unsent

(* doSend up to the first await of sendCurrent.                             *)
Send(t) ==
    /\ Clicked(t)
    /\ ui.panel = "step" /\ ui.send /\ ui.prechecked
    /\ IF Ready
          THEN /\ Becomes(t, At("gates", mem.current, 0, "button"))
               /\ ui' = [ui EXCEPT !.send = FALSE]
          ELSE Returns(t) /\ Render(mem)
    /\ UNCHANGED <<disk, mem, faults>> /\ Unsent

SendGatesPass(t) ==
    /\ tasks[t].pc = "gates"
    /\ GatesPass(tasks[t].step)
    /\ Becomes(t, At("gated", NoStep, 0, "button"))
    /\ UNCHANGED <<disk, mem, ui, faults>> /\ Unsent

(* The intent is persisted and read back before the wallet is asked.        *)
PersistIntent(t) ==
    /\ tasks[t].pc = "gated"
    /\ mem.current \in Steps
    /\ \E o \in Outcomes :
          /\ disk' = Put(disk, "intent", mem.current, o)
          /\ Faulty(Fault(o))
          /\ IF RoundTrips(o)
                THEN /\ mem' = [mem EXCEPT !.intent = mem.current]
                     /\ Becomes(t, At("intended", mem.current, 0, "button"))
                     /\ UNCHANGED ui
                ELSE mem' = mem /\ Returns(t) /\ Render(mem)
    /\ Unsent

(* The provider's chain changed before the wallet was asked.                *)
ChainRefused(t) ==
    /\ Returns(t)
    /\ \/ /\ tasks[t].pc = "gated"
          /\ UNCHANGED <<disk, mem, faults>> /\ Render(mem)
       \/ /\ tasks[t].pc = "intended"
          /\ mem' = [mem EXCEPT !.intent = NoStep]
          /\ \E o \in Outcomes : disk' = Put(disk, "intent", NoStep, o) /\ Faulty(Fault(o))
          /\ Render(mem')
    /\ Unsent

(* eth_sendTransaction.                                                     *)
AskWallet(t) ==
    /\ tasks[t].pc = "intended"
    /\ Len(requests) < MaxRequests
    /\ requests' = Append(requests, [step |-> tasks[t].step, answer |-> "none",
                                     broadcast |-> FALSE, reviewed |-> FALSE])
    /\ Becomes(t, At("asked", tasks[t].step, Len(requests) + 1, "button"))
    /\ UNCHANGED <<disk, mem, ui, mined, reloads, faults>>

Answer(t) == IF tasks[t].pc = "asked" THEN requests[tasks[t].tx].answer ELSE "none"

(* A confirmed rejection: the intent may go; if it will not, halt.          *)
OnRejected(t) ==
    /\ Answer(t) = "rejected"
    /\ Returns(t)
    /\ \E o1, o2 \in Outcomes :
          LET d == Put(disk, "intent", NoStep, o1) IN
          IF RoundTrips(o1)
             THEN /\ o2 = "ok" /\ faults' = faults
                  /\ disk' = d /\ mem' = [mem EXCEPT !.intent = NoStep]
                  /\ RenderAfresh(mem')
             ELSE /\ Faulty(1 + Fault(o2))
                  /\ PersistHalt(mem, d, tasks[t].step, o2)
                  /\ RenderHalted
    /\ Unsent

(* An unknown error, or a hash from a provider whose chain changed: the     *)
(* intent stays and the send is uncertain.                                  *)
OnUncertain(t) ==
    /\ Answer(t) \in {"error", "hash"}
    /\ \E o \in Outcomes :
          PersistHalt(mem, disk, tasks[t].step, o) /\ Faulty(Fault(o))
    /\ Returns(t) /\ RenderHalted
    /\ Unsent

(* A hash: the pending record, and doVerify at once.  If the record does    *)
(* not round-trip the send is uncertain.                                    *)
OnHash(t) ==
    LET record == [step |-> mem.current, tx |-> tasks[t].tx] IN
    /\ Answer(t) = "hash"
    /\ \E o1, o2 \in Outcomes :
          LET d == Put(disk, "pending", record, o1)
              m == [mem EXCEPT !.pending = record]
          IN IF RoundTrips(o1)
                THEN /\ o2 = "ok" /\ faults' = faults
                     /\ disk' = d /\ mem' = m
                     /\ StartVerify(t, m, "send")
                ELSE /\ Faulty(1 + Fault(o2))
                     /\ PersistHalt(mem, d, tasks[t].step, o2)
                     /\ Returns(t) /\ RenderHalted
    /\ Unsent

(* resolveUncertainSend with the hash of a transaction that verifies.  The  *)
(* memory is released only when every write round-tripped.                  *)
ResolveUncertainSend(r) ==
    LET s == mem.uncertain
        next == [k \in 1..(IF s > Len(mem.journal) THEN s ELSE Len(mem.journal)) |->
                    CASE k = s -> [step |-> s, tx |-> r]
                      [] k # s /\ k <= Len(mem.journal) -> mem.journal[k]
                      [] OTHER -> NoPending]
    IN /\ s # NoStep
       /\ Verified(r, s)
       /\ \E o1, o2, o3 \in Outcomes :
             LET d1 == Put(disk, "journal", next, o1)
                 d3 == Put(Put(d1, "intent", NoStep, o2), "halt", NoHalt, o3)
                 m == [mem EXCEPT !.journal = next]
             IN /\ Faulty(Fault(o1) + Fault(o2) + Fault(o3))
                /\ IF RoundTrips(o1)
                      THEN /\ disk' = d3
                           /\ mem' = IF RoundTrips(o2) /\ RoundTrips(o3)
                                        THEN [m EXCEPT !.uncertain = NoStep, !.intent = NoStep,
                                                       !.halted = FALSE,
                                                       !.current = Len(next) + 1]
                                        ELSE m
                      ELSE /\ o2 = "ok" /\ o3 = "ok"
                           /\ disk' = d1 /\ mem' = mem
       /\ UNCHANGED <<ui, tasks>> /\ Unsent

-----------------------------------------------------------------------------
OpNext ==
    \/ Reload \/ Confirm
    \/ \E r \in DOMAIN requests :
          \/ WalletApproves(r) \/ WalletRejects(r) \/ WalletFails(r)
          \/ Mine(r) \/ ResolveUncertainSend(r)
    \/ \E t \in Tasks :
          \/ Connect(t) \/ ReconcileJournal(t) \/ PendingUnresolved(t) \/ PendingFound(t)
          \/ ResumeVerify(t) \/ JournalStep(t) \/ VerifyFails(t) \/ ProviderThrows(t)
          \/ Precheck(t) \/ PrecheckPasses(t) \/ GateFails(t) \/ WrongAccount(t)
          \/ Send(t) \/ SendGatesPass(t) \/ PersistIntent(t) \/ ChainRefused(t)
          \/ AskWallet(t) \/ OnRejected(t) \/ OnUncertain(t) \/ OnHash(t)

OpSpec == OpInit /\ [][OpNext]_opVars

-----------------------------------------------------------------------------
(* "Never a blind retry": the wallet is asked again for a step only after   *)
(* its user rejected the earlier request.  A request that was broadcast, is *)
(* still being asked, or ended in an error nobody can interpret is never    *)
(* followed by another, wherever the page was reloaded and whichever        *)
(* durable write failed.                                                    *)
NeverBlindRetry ==
    \A s \in Steps :
        Cardinality({r \in DOMAIN requests :
                        requests[r].step = s /\ requests[r].answer # "rejected"}) <= 1

(* "For each transaction, in packet order": the wallet is asked for a step  *)
(* only when every earlier step of the packet, of either signer, was mined  *)
(* and succeeded.                                                           *)
InPacketOrder ==
    \A r \in DOMAIN requests : \A s \in 1..(requests[r].step - 1) : mined[s].ok
=============================================================================
