---------------------------- MODULE Canary_proofs ----------------------------
(***************************************************************************)
(* Proofs about the canary's tools.                                         *)
(*                                                                          *)
(* First CanaryOperator, for any packet and any number of reloads, wallet   *)
(* requests and durable writes that do not round-trip, for a user who waits *)
(* for each handler (~Overlap).                                             *)
(*                                                                          *)
(* Then CanaryPacket, for any chain, any reorganisations and any order in   *)
(* which its tools are started and killed: what is said of prices and of    *)
(* the exposure even while tools run beside each other, what is said of the *)
(* rehearsal for tools that run one at a time (~ToolsOverlap).              *)
(*                                                                          *)
(* Last CanaryRecovery, for any chain, any number of transactions to find   *)
(* and any reorganisation between two reads.                                *)
(***************************************************************************)
EXTENDS CanaryOperator, CanaryRecovery, FiniteSetTheorems, TLAPS

Record == [step : Nat, tx : Nat]
Places == {"idle", "journal", "lookup", "verify", "precheck", "gates", "gated",
           "intended", "asked"}
Disk == [journal : Seq(Record), pending : Record, intent : Nat,
         halt : [on : BOOLEAN, uncertain : Nat]]
Memory == [halted : BOOLEAN, uncertain : Nat, journal : Seq(Record),
           pending : Record, intent : Nat, connected : BOOLEAN,
           reconciled : BOOLEAN, current : Nat]
Page == [panel : {"blank", "halted", "done", "pending", "step"},
         confirm : BOOLEAN, send : BOOLEAN, prechecked : BOOLEAN,
         connect : BOOLEAN]
Handler == [pc : Places, step : Nat, tx : Nat, via : {"button", "connect", "send"}]
Request == [step : Steps, answer : {"none", "hash", "rejected", "error"},
            broadcast : BOOLEAN, reviewed : BOOLEAN]

OperatorTypeOK ==
    /\ disk \in Disk
    /\ mem \in Memory
    /\ ui \in Page
    /\ tasks \in [Tasks -> Handler]
    /\ requests \in Seq(Request)
    /\ mined \in [Steps -> [tx : Nat, ok : BOOLEAN]]
    /\ reloads \in Nat /\ faults \in Nat

(* A request that may have moved value: its user did not reject it. *)
Open(r) == requests[r].answer # "rejected"

(* A journal lists the first steps of the packet, each with the transaction *)
(* that was mined for it and succeeded.                                     *)
JournalTrue(j) ==
    \A k \in 1..Len(j) :
        /\ k \in Steps
        /\ j[k].step = k
        /\ j[k].tx # 0
        /\ mined[k] = [tx |-> j[k].tx, ok |-> TRUE]

(* What a reload finds: every open request is journaled or intended, and a  *)
(* durable halt says which intent it is about.                              *)
DiskRight ==
    /\ JournalTrue(disk.journal)
    /\ disk.intent <= Len(disk.journal) + 1
    /\ disk.halt.uncertain # NoStep =>
           /\ disk.halt.on
           /\ disk.halt.uncertain <= Len(disk.journal) + 1
           /\ disk.intent \in {NoStep, disk.halt.uncertain}
    /\ \A r \in DOMAIN requests :
           Open(r) => \/ requests[r].step <= Len(disk.journal)
                      \/ requests[r].step = disk.intent

(* What stands in the way of asking for the intended step again *)
HeldBack ==
    \/ mem.halted
    \/ mem.pending.step = mem.intent
    \/ \E t \in Tasks : tasks[t].pc = "asked"

(* The page's memory: at most one step behind the disk, and every open      *)
(* request is journaled or held back.                                       *)
MemoryRight ==
    /\ JournalTrue(mem.journal)
    /\ Len(disk.journal) \in {Len(mem.journal), Len(mem.journal) + 1}
    /\ mem.intent <= Len(mem.journal) + 1
    /\ disk.halt.on => mem.halted
    /\ mem.uncertain # NoStep =>
           /\ mem.halted
           /\ mem.uncertain <= Len(mem.journal) + 1
           /\ mem.intent \in {NoStep, mem.uncertain}
           /\ mem.uncertain <= Len(mem.journal) =>
                  Len(disk.journal) = Len(mem.journal)
    /\ \A r \in DOMAIN requests :
           Open(r) => \/ requests[r].step <= Len(mem.journal)
                      \/ requests[r].step = mem.intent /\ HeldBack
    /\ mem.reconciled \/ ui.panel = "pending" =>
           mem.halted \/ mem.current = Len(mem.journal) + 1

(* A handler never runs in a halted page, and those of a send are about the *)
(* step after the journal.                                                  *)
TaskRight(t) ==
    /\ tasks[t] # Idle => ~mem.halted
    /\ tasks[t].pc \in {"lookup", "verify", "gates", "gated", "intended", "asked"} =>
           mem.current = Len(mem.journal) + 1
    /\ tasks[t].pc \in {"verify", "intended", "asked"} => tasks[t].step = mem.current
    /\ tasks[t].pc \in {"gates", "gated", "intended", "asked"} =>
           mem.pending = NoPending
    /\ tasks[t].pc \in {"intended", "asked"} =>
           /\ mem.current \in Steps
           /\ mem.intent = mem.current /\ disk.intent = mem.current
    /\ tasks[t].pc = "asked" =>
           /\ tasks[t].tx \in DOMAIN requests
           /\ requests[tasks[t].tx].step = tasks[t].step
           /\ \A q \in DOMAIN requests :
                  q # tasks[t].tx /\ requests[q].step = tasks[t].step => ~Open(q)

(* One handler at a time *)
TasksRight ==
    /\ \A t, u \in Tasks : tasks[t] # Idle /\ tasks[u] # Idle => t = u
    /\ \A t \in Tasks : TaskRight(t)

OneOpen ==
    \A q, r \in DOMAIN requests :
        Open(q) /\ Open(r) /\ requests[q].step = requests[r].step => q = r

(* The inductive invariant *)
OperatorInv ==
    /\ OperatorTypeOK
    /\ DiskRight
    /\ MemoryRight
    /\ TasksRight
    /\ OneOpen
    /\ InPacketOrder

-----------------------------------------------------------------------------
(* Types *)

LEMMA StepsNatural ==
    /\ Last \in Nat
    /\ \A s \in Steps : s \in Nat /\ s # 0 /\ s <= Last
BY OperatorAssumption DEF Last, Steps

LEMMA BlankTypes ==
    /\ NoPending \in Record /\ NoPending.step = 0 /\ NoPending.tx = 0
    /\ NoStep = 0
    /\ NoHalt \in [on : BOOLEAN, uncertain : Nat]
    /\ ~NoHalt.on /\ NoHalt.uncertain = 0
    /\ Idle \in Handler /\ Idle.pc = "idle"
BY DEF NoPending, NoStep, NoHalt, Idle, Record, Handler, Places

(* A durable write changes its record or nothing. *)
LEMMA PutJournal ==
    ASSUME NEW d \in Disk, NEW v \in Seq(Record), NEW o \in Outcomes
    PROVE  /\ Put(d, "journal", v, o) \in Disk
           /\ Put(d, "journal", v, o).journal = IF o = "dropped" THEN d.journal ELSE v
           /\ Put(d, "journal", v, o).pending = d.pending
           /\ Put(d, "journal", v, o).intent = d.intent
           /\ Put(d, "journal", v, o).halt = d.halt
BY DEF Put, Disk

LEMMA PutPending ==
    ASSUME NEW d \in Disk, NEW v \in Record, NEW o \in Outcomes
    PROVE  /\ Put(d, "pending", v, o) \in Disk
           /\ Put(d, "pending", v, o).journal = d.journal
           /\ Put(d, "pending", v, o).pending = IF o = "dropped" THEN d.pending ELSE v
           /\ Put(d, "pending", v, o).intent = d.intent
           /\ Put(d, "pending", v, o).halt = d.halt
BY DEF Put, Disk

LEMMA PutIntent ==
    ASSUME NEW d \in Disk, NEW v \in Nat, NEW o \in Outcomes
    PROVE  /\ Put(d, "intent", v, o) \in Disk
           /\ Put(d, "intent", v, o).journal = d.journal
           /\ Put(d, "intent", v, o).pending = d.pending
           /\ Put(d, "intent", v, o).intent = IF o = "dropped" THEN d.intent ELSE v
           /\ Put(d, "intent", v, o).halt = d.halt
BY DEF Put, Disk

LEMMA PutHalt ==
    ASSUME NEW d \in Disk, NEW v \in [on : BOOLEAN, uncertain : Nat],
           NEW o \in Outcomes
    PROVE  /\ Put(d, "halt", v, o) \in Disk
           /\ Put(d, "halt", v, o).journal = d.journal
           /\ Put(d, "halt", v, o).pending = d.pending
           /\ Put(d, "halt", v, o).intent = d.intent
           /\ Put(d, "halt", v, o).halt = IF o = "dropped" THEN d.halt ELSE v
BY DEF Put, Disk

LEMMA FaultsTyped ==
    ASSUME faults \in Nat, NEW n \in Nat, Faulty(n)
    PROVE  faults' \in Nat
BY DEF Faulty

LEMMA FaultIsNat == \A o : Fault(o) \in Nat
BY DEF Fault

(* What the constructor makes of the durable records *)
LEMMA RestoredFields ==
    ASSUME NEW d \in Disk
    PROVE  /\ Restored(d) \in Memory
           /\ Restored(d).journal = d.journal
           /\ Restored(d).pending = d.pending
           /\ Restored(d).intent = d.intent
           /\ ~Restored(d).reconciled
           /\ d.halt.on => Restored(d).halted
           /\ Restored(d).uncertain # d.halt.uncertain =>
                  /\ Restored(d).uncertain = d.intent
                  /\ Restored(d).halted
                  /\ \A k \in DOMAIN d.journal : d.journal[k].step # d.intent
           /\ \/ Restored(d).halted \/ d.intent = NoStep \/ d.halt.uncertain # NoStep
              \/ \E k \in DOMAIN d.journal : d.journal[k].step = d.intent
              \/ d.pending.step = d.intent
<1> DEFINE journaled == \E k \in DOMAIN d.journal : d.journal[k].step = d.intent
           covered == d.pending # NoPending /\ d.pending.step = d.intent
           stray == /\ d.intent # NoStep
                    /\ d.halt.uncertain = NoStep
                    /\ ~journaled
                    /\ ~covered
<1>1. stray \in BOOLEAN
  OBVIOUS
<1>2. Restored(d) =
        [halted |-> d.halt.on \/ stray,
         uncertain |-> IF stray THEN d.intent ELSE d.halt.uncertain,
         journal |-> d.journal, pending |-> d.pending, intent |-> d.intent,
         connected |-> FALSE, reconciled |-> FALSE, current |-> 1]
  BY Zenon DEF Restored
<1>3. /\ d.journal \in Seq(Record) /\ d.pending \in Record /\ d.intent \in Nat
      /\ d.halt.on \in BOOLEAN /\ d.halt.uncertain \in Nat
  BY DEF Disk
<1>4. /\ stray => ~journaled
      /\ ~stray => d.intent = NoStep \/ d.halt.uncertain # NoStep
                       \/ journaled \/ d.pending.step = d.intent
  OBVIOUS
<1> HIDE DEF stray
<1>5. Restored(d) \in Memory
  BY <1>1, <1>2, <1>3 DEF Memory
<1>6. /\ Restored(d).halted = (d.halt.on \/ stray)
      /\ Restored(d).uncertain = IF stray THEN d.intent ELSE d.halt.uncertain
      /\ Restored(d).journal = d.journal
      /\ Restored(d).pending = d.pending
      /\ Restored(d).intent = d.intent
      /\ Restored(d).reconciled = FALSE
  BY <1>2
<1> QED  BY <1>3, <1>4, <1>5, <1>6

LEMMA PanelTyped ==
    ASSUME ui \in Page, NEW p \in {"blank", "halted", "done", "pending", "step"},
           NEW a \in BOOLEAN, NEW b \in BOOLEAN
    PROVE  Panel(p, a, b) \in Page /\ Panel(p, a, b).panel = p
BY DEF Panel, Page

LEMMA RenderedPanel ==
    ASSUME NEW m \in Memory
    PROVE  /\ Rendered(m) \in {"halted", "done", "pending", "step"}
           /\ Rendered(m) = "pending" => m.reconciled /\ ~m.halted
<1>1. m.halted \in BOOLEAN /\ m.reconciled \in BOOLEAN /\ m.connected \in BOOLEAN
  BY DEF Memory
<1>2. CASE ~(m.connected /\ m.reconciled) \/ m.halted
  <2>1. Rendered(m) = "halted"
    BY <1>2 DEF Rendered
  <2> QED  BY <2>1
<1>3. CASE ~(~(m.connected /\ m.reconciled) \/ m.halted)
  <2>1. Rendered(m) \in {"done", "pending", "step"}
    BY <1>3 DEF Rendered
  <2> QED  BY <2>1, <1>3
<1> QED  BY <1>2, <1>3

LEMMA RenderTyped ==
    ASSUME ui \in Page, NEW m \in Memory, Render(m) \/ RenderAfresh(m)
    PROVE  /\ ui' \in Page
           /\ ui'.panel = "pending" => m.reconciled /\ ~m.halted
<1>1. ui.prechecked \in BOOLEAN /\ ui.connect \in BOOLEAN
  BY DEF Page
<1>2. /\ Rendered(m) \in {"blank", "halted", "done", "pending", "step"}
      /\ Rendered(m) = "pending" => m.reconciled /\ ~m.halted
  BY RenderedPanel
<1>3. \E a \in BOOLEAN, b \in BOOLEAN : ui' = Panel(Rendered(m), a, b)
  BY <1>1 DEF Render, RenderAfresh
<1>4. ui' \in Page /\ ui'.panel = Rendered(m)
  BY <1>2, <1>3, PanelTyped
<1> QED  BY <1>2, <1>4

LEMMA RenderHaltedTyped ==
    ASSUME ui \in Page, RenderHalted
    PROVE  ui' \in Page /\ ui'.panel = "halted"
<1>1. ui.prechecked \in BOOLEAN /\ ui.connect \in BOOLEAN
  BY DEF Page
<1> QED  BY <1>1, PanelTyped DEF RenderHalted
-----------------------------------------------------------------------------
(* Steps that leave the records, the memory and the world alone *)

(* Another handler runs only when this one does not. *)
OthersIdle(t) == \A u \in Tasks : u # t => tasks[u] = Idle

LEMMA RunsAlone ==
    ASSUME OperatorInv, NEW t \in Tasks, tasks[t].pc # "idle"
    PROVE  OthersIdle(t) /\ tasks[t] # Idle /\ ~mem.halted
BY BlankTypes DEF OperatorInv, TasksRight, TaskRight, OthersIdle

LEMMA ClickedAlone ==
    ASSUME ~Overlap, NEW t \in Tasks, Clicked(t)
    PROVE  OthersIdle(t) /\ tasks[t] = Idle
BY DEF Clicked, OthersIdle

LEMMA WorldKept ==
    ASSUME OperatorInv, UNCHANGED <<requests, mined>>
    PROVE  /\ OneOpen' /\ InPacketOrder'
           /\ \A r : Open(r)' = Open(r)
           /\ \A j : JournalTrue(j)' = JournalTrue(j)
BY DEF OperatorInv, OneOpen, InPacketOrder, Open, JournalTrue

LEMMA DiskKept ==
    ASSUME OperatorInv, UNCHANGED <<disk, requests, mined>>
    PROVE  DiskRight'
<1>1. /\ \A r : Open(r)' = Open(r)
      /\ JournalTrue(disk.journal)'
  BY WorldKept DEF OperatorInv, DiskRight, JournalTrue
<1> QED  BY <1>1 DEF OperatorInv, DiskRight

LEMMA TasksKept ==
    ASSUME OperatorInv, NEW t \in Tasks, OthersIdle(t),
           \A u \in Tasks : u # t => tasks'[u] = tasks[u],
           TaskRight(t)'
    PROVE  TasksRight'
<1>1. \A u \in Tasks : u # t => tasks'[u] = Idle
  BY DEF OthersIdle
<1>2. \A u \in Tasks : u # t => TaskRight(u)'
  BY <1>1, BlankTypes DEF TaskRight
<1> QED  BY <1>1, <1>2 DEF TasksRight

(* A handler moves on, or a button is clicked, and nothing else happens. *)
LEMMA QuietKeeps ==
    ASSUME OperatorInv, OperatorTypeOK', NEW t \in Tasks, OthersIdle(t),
           tasks[t].pc # "asked",
           UNCHANGED <<disk, mem, requests, mined>>,
           \A u \in Tasks : u # t => tasks'[u] = tasks[u],
           TaskRight(t)',
           ui'.panel = "pending" => ui.panel = "pending" \/ mem.reconciled
    PROVE  OperatorInv'
<1>1. DiskRight' /\ OneOpen' /\ InPacketOrder' /\ TasksRight'
  BY DiskKept, WorldKept, TasksKept
<1>2. /\ \A r : Open(r)' = Open(r)
      /\ JournalTrue(mem.journal)'
  BY WorldKept DEF OperatorInv, MemoryRight, JournalTrue
<1>3. HeldBack => HeldBack'
  <2>1. \A u \in Tasks : tasks[u].pc # "asked"
    BY BlankTypes DEF OthersIdle
  <2> QED  BY <2>1 DEF HeldBack
<1>4. MemoryRight'
  BY <1>2, <1>3 DEF OperatorInv, MemoryRight
<1> QED  BY <1>1, <1>4 DEF OperatorInv

LEMMA TypeQuiet ==
    ASSUME OperatorTypeOK, UNCHANGED <<disk, mem, requests, mined, reloads>>,
           faults' \in Nat, ui' \in Page,
           NEW t \in Tasks, NEW task \in Handler, Becomes(t, task)
    PROVE  /\ OperatorTypeOK'
           /\ \A u \in Tasks : u # t => tasks'[u] = tasks[u]
           /\ tasks'[t] = task
BY DEF OperatorTypeOK, Becomes

LEMMA IdleRight ==
    ASSUME NEW t \in Tasks, tasks'[t] = Idle
    PROVE  TaskRight(t)'
BY BlankTypes DEF TaskRight

LEMMA AtTyped ==
    ASSUME NEW pc \in Places, NEW s \in Nat, NEW x \in Nat,
           NEW v \in {"button", "connect", "send"}
    PROVE  /\ At(pc, s, x, v) \in Handler
           /\ At(pc, s, x, v).pc = pc /\ At(pc, s, x, v).step = s
           /\ At(pc, s, x, v).tx = x /\ At(pc, s, x, v).via = v
BY DEF At, Handler

(* verifyAfterHash may start on the memory m when its step is the one after *)
(* the journal.                                                             *)
LEMMA VerifyStarts ==
    ASSUME ui \in Page, NEW m \in Memory, NEW t \in Tasks, tasks \in [Tasks -> Handler],
           NEW v \in {"button", "connect", "send"}, StartVerify(t, m, v)
    PROVE  /\ tasks' \in [Tasks -> Handler]
           /\ ui' \in Page
           /\ \A u \in Tasks : u # t => tasks'[u] = tasks[u]
           /\ \/ tasks'[t] = Idle
              \/ /\ ~m.halted
                 /\ tasks'[t].pc = "verify" /\ tasks'[t].step = m.current
           /\ ui'.panel = "pending" => ui.panel = "pending" \/ m.reconciled
<1>1. /\ ui.panel \in {"blank", "halted", "done", "pending", "step"}
      /\ ui.prechecked \in BOOLEAN /\ ui.connect \in BOOLEAN
  BY DEF Page
<1>2. m.current \in Nat /\ m.pending.tx \in Nat /\ m.halted \in BOOLEAN
  BY DEF Memory, Record
<1>3. CASE m.halted
  <2>1. tasks' = [tasks EXCEPT ![t] = Idle] /\ RenderHalted
    BY <1>3 DEF StartVerify, Returns, Becomes
  <2>2. ui' \in Page /\ ui'.panel = "halted"
    BY <2>1, RenderHaltedTyped
  <2> QED  BY <2>1, <2>2, BlankTypes
<1>4. CASE ~m.halted
  <2> DEFINE task == At("verify", m.current, m.pending.tx, v)
             p == IF v = "send" THEN Rendered(m) ELSE ui.panel
  <2>1. tasks' = [tasks EXCEPT ![t] = task]
        /\ ui' = Panel(p, ui.prechecked, ui.connect)
    BY <1>4 DEF StartVerify, Becomes
  <2>2. task \in Handler /\ task.pc = "verify" /\ task.step = m.current
    <3>1. "verify" \in Places
      BY DEF Places
    <3> QED  BY <1>2, <3>1 DEF At, Handler
  <2>3. /\ p \in {"blank", "halted", "done", "pending", "step"}
        /\ p = "pending" => ui.panel = "pending" \/ m.reconciled
    BY <1>1, RenderedPanel
  <2> HIDE DEF task, p
  <2>4. ui' \in Page /\ ui'.panel = p
    BY <2>1, <2>3, <1>1, PanelTyped
  <2> QED  BY <2>1, <2>2, <2>3, <2>4, <1>4
<1> QED  BY <1>3, <1>4

LEMMA ResumeKeeps ==
    ASSUME OperatorInv, ~Overlap, NEW t \in Tasks,
           PendingFound(t) \/ ResumeVerify(t)
    PROVE  OperatorInv'
<1>1. /\ UNCHANGED <<disk, mem, requests, mined, reloads, faults>>
      /\ StartVerify(t, mem, "connect") \/ StartVerify(t, mem, "button")
  BY DEF PendingFound, ResumeVerify, Unsent
<1>2. OthersIdle(t) /\ tasks[t].pc # "asked"
  <2>1. CASE PendingFound(t)
    BY <2>1, RunsAlone DEF PendingFound
  <2>2. CASE ResumeVerify(t)
    BY <2>2, ClickedAlone, BlankTypes DEF ResumeVerify
  <2> QED  BY <2>1, <2>2
<1>3. mem.halted \/ mem.current = Len(mem.journal) + 1
  <2>1. CASE PendingFound(t)
    BY <2>1 DEF PendingFound, OperatorInv, TasksRight, TaskRight
  <2>2. CASE ResumeVerify(t)
    BY <2>2 DEF ResumeVerify, OperatorInv, MemoryRight
  <2> QED  BY <2>1, <2>2
<1>4. /\ ui \in Page /\ mem \in Memory /\ tasks \in [Tasks -> Handler]
  BY DEF OperatorInv, OperatorTypeOK
<1>5. /\ tasks' \in [Tasks -> Handler]
      /\ ui' \in Page
      /\ \A u \in Tasks : u # t => tasks'[u] = tasks[u]
      /\ \/ tasks'[t] = Idle
         \/ /\ ~mem.halted
            /\ tasks'[t].pc = "verify" /\ tasks'[t].step = mem.current
      /\ ui'.panel = "pending" => ui.panel = "pending" \/ mem.reconciled
  BY <1>1, <1>4, VerifyStarts
<1>6. OperatorTypeOK'
  BY <1>1, <1>5 DEF OperatorInv, OperatorTypeOK
<1>7. TaskRight(t)'
  <2>1. CASE tasks'[t] = Idle
    BY <2>1, IdleRight
  <2>2. CASE ~mem.halted /\ tasks'[t].pc = "verify" /\ tasks'[t].step = mem.current
    BY <2>2, <1>1, <1>3 DEF TaskRight
  <2> QED  BY <1>5, <2>1, <2>2
<1> QED  BY <1>1, <1>2, <1>5, <1>6, <1>7, QuietKeeps

LEMMA ReturnKeeps ==
    ASSUME OperatorInv, ~Overlap, NEW t \in Tasks,
           ProviderThrows(t) \/ PrecheckPasses(t) \/ WrongAccount(t)
    PROVE  OperatorInv'
<1>1. /\ UNCHANGED <<disk, mem, requests, mined, reloads, faults>>
      /\ Returns(t)
  BY DEF ProviderThrows, PrecheckPasses, WrongAccount, Unsent
<1>2. OthersIdle(t) /\ tasks[t].pc # "asked"
  <2>1. tasks[t].pc # "idle" /\ tasks[t].pc # "asked"
    BY DEF ProviderThrows, PrecheckPasses, WrongAccount
  <2> QED  BY <2>1, RunsAlone
<1>3. ui \in Page /\ mem \in Memory
  BY DEF OperatorInv, OperatorTypeOK
<1>4. /\ ui' \in Page
      /\ ui'.panel = "pending" => ui.panel = "pending" \/ mem.reconciled
  <2>1. CASE ProviderThrows(t)
    BY <2>1, <1>3 DEF ProviderThrows
  <2>2. CASE PrecheckPasses(t)
    BY <2>2, <1>3 DEF PrecheckPasses, Page
  <2>3. CASE WrongAccount(t)
    BY <2>3, <1>3, RenderTyped DEF WrongAccount
  <2> QED  BY <2>1, <2>2, <2>3
<1>5. /\ OperatorTypeOK'
      /\ \A u \in Tasks : u # t => tasks'[u] = tasks[u]
      /\ tasks'[t] = Idle
  BY <1>1, <1>4, BlankTypes, TypeQuiet DEF OperatorInv, OperatorTypeOK, Returns
<1> QED  BY <1>1, <1>2, <1>4, <1>5, IdleRight, QuietKeeps

LEMMA ReadyMeans ==
    ASSUME OperatorInv, Ready
    PROVE  /\ ~mem.halted /\ mem.pending = NoPending
           /\ mem.current \in Steps /\ mem.current = Len(mem.journal) + 1
BY DEF Ready, OperatorInv, MemoryRight

LEMMA ButtonKeeps ==
    ASSUME OperatorInv, ~Overlap, NEW t \in Tasks, Precheck(t) \/ Send(t)
    PROVE  OperatorInv'
<1>1. /\ UNCHANGED <<disk, mem, requests, mined, reloads, faults>>
      /\ OthersIdle(t) /\ tasks[t].pc # "asked"
  BY ClickedAlone, BlankTypes DEF Precheck, Send, Unsent
<1>2. /\ ui \in Page /\ ui.connect \in BOOLEAN /\ mem \in Memory /\ mem.current \in Nat
  BY DEF OperatorInv, OperatorTypeOK, Page, Memory
<1>3. CASE Ready
  <2>1. PICK pc \in {"precheck", "gates"} : Becomes(t, At(pc, mem.current, 0, "button"))
    BY <1>3 DEF Precheck, Send
  <2>2. /\ ui' \in Page
        /\ ui'.panel = "pending" => ui.panel = "pending"
    <3>1. CASE Precheck(t)
      BY <3>1, <1>3, <1>2, PanelTyped DEF Precheck
    <3>2. CASE Send(t)
      BY <3>2, <1>3, <1>2 DEF Send, Page
    <3> QED  BY <3>1, <3>2
  <2>3. /\ At(pc, mem.current, 0, "button") \in Handler
        /\ At(pc, mem.current, 0, "button").pc = pc
    BY <1>2, AtTyped DEF Places
  <2>4. /\ OperatorTypeOK'
        /\ \A u \in Tasks : u # t => tasks'[u] = tasks[u]
        /\ tasks'[t].pc = pc
    BY <1>1, <2>1, <2>2, <2>3, TypeQuiet DEF OperatorInv, OperatorTypeOK
  <2>5. TaskRight(t)'
    BY <1>1, <1>3, <2>4, ReadyMeans DEF TaskRight
  <2> QED  BY <1>1, <2>2, <2>4, <2>5, QuietKeeps
<1>4. CASE ~Ready
  <2>1. Returns(t)
    BY <1>4 DEF Precheck, Send
  <2>2. /\ ui' \in Page
        /\ ui'.panel = "pending" => mem.reconciled
    <3>1. CASE Precheck(t)
      BY <3>1, <1>4, <1>2, PanelTyped DEF Precheck
    <3>2. CASE Send(t)
      BY <3>2, <1>4, <1>2, RenderTyped DEF Send
    <3> QED  BY <3>1, <3>2
  <2>3. /\ OperatorTypeOK'
        /\ \A u \in Tasks : u # t => tasks'[u] = tasks[u]
        /\ tasks'[t] = Idle
    BY <1>1, <2>1, <2>2, BlankTypes, TypeQuiet DEF OperatorInv, OperatorTypeOK, Returns
  <2> QED  BY <1>1, <2>2, <2>3, IdleRight, QuietKeeps
<1> QED  BY <1>3, <1>4

LEMMA SendGatesPassKeeps ==
    ASSUME OperatorInv, ~Overlap, NEW t \in Tasks, SendGatesPass(t)
    PROVE  OperatorInv'
<1>1. /\ UNCHANGED <<disk, mem, ui, requests, mined, reloads, faults>>
      /\ tasks[t].pc = "gates"
      /\ Becomes(t, At("gated", NoStep, 0, "button"))
  BY DEF SendGatesPass, Unsent
<1>2. OthersIdle(t) /\ ~mem.halted
  BY <1>1, RunsAlone
<1>3. /\ At("gated", NoStep, 0, "button") \in Handler
      /\ At("gated", NoStep, 0, "button").pc = "gated"
  BY AtTyped, BlankTypes DEF Places
<1>4. /\ OperatorTypeOK'
      /\ \A u \in Tasks : u # t => tasks'[u] = tasks[u]
      /\ tasks'[t].pc = "gated"
  BY <1>1, <1>3, TypeQuiet DEF OperatorInv, OperatorTypeOK
<1>5. TaskRight(t)'
  <2>1. mem.current = Len(mem.journal) + 1 /\ mem.pending = NoPending
    BY <1>1 DEF OperatorInv, TasksRight, TaskRight
  <2> QED  BY <1>1, <1>2, <1>4, <2>1 DEF TaskRight
<1> QED  BY <1>1, <1>2, <1>4, <1>5, QuietKeeps

LEMMA ConfirmKeeps ==
    ASSUME OperatorInv, Confirm
    PROVE  OperatorInv'
<1>1. /\ UNCHANGED <<disk, mem, tasks, requests, mined, reloads, faults>>
      /\ ui.panel = "step" /\ ui' = [ui EXCEPT !.send = TRUE]
  BY DEF Confirm, Unsent
<1>2. OperatorTypeOK' /\ ui'.panel = "step"
  BY <1>1 DEF OperatorInv, OperatorTypeOK, Page
<1>3. /\ DiskRight' /\ OneOpen' /\ InPacketOrder'
      /\ \A r : Open(r)' = Open(r)
      /\ JournalTrue(mem.journal)'
  BY <1>1, DiskKept, WorldKept DEF OperatorInv, MemoryRight, JournalTrue
<1>4. MemoryRight'
  BY <1>1, <1>2, <1>3 DEF OperatorInv, MemoryRight, HeldBack
<1>5. TasksRight'
  BY <1>1, <1>3 DEF OperatorInv, TasksRight, TaskRight
<1> QED  BY <1>2, <1>3, <1>4, <1>5 DEF OperatorInv

-----------------------------------------------------------------------------
(* Halting *)

(* A halt, about no step or about the intended one, keeps the invariant     *)
(* whatever becomes of its durable record; d is the disk before that record *)
(* is written.                                                              *)
LEMMA HaltKeeps ==
    ASSUME OperatorInv, NEW t \in Tasks, OthersIdle(t), ~mem.halted,
           NEW d \in Disk, NEW x \in Nat, NEW o \in Outcomes,
           PersistHalt(mem, d, x, o), Returns(t), RenderHalted, Unsent,
           faults' \in Nat,
           d.journal = disk.journal, d.halt = disk.halt,
           d.intent \in {disk.intent, NoStep},
           \A r \in DOMAIN requests :
               Open(r) => \/ requests[r].step <= Len(disk.journal)
                          \/ requests[r].step = d.intent,
           x # NoStep => /\ x = Len(mem.journal) + 1
                         /\ mem.intent = x /\ disk.intent = x
    PROVE  OperatorInv'
<1>1. /\ UNCHANGED <<requests, mined, reloads>>
      /\ disk.halt.on \in BOOLEAN /\ disk.halt.uncertain \in Nat
      /\ disk.intent \in Nat /\ Len(disk.journal) \in Nat
      /\ Len(mem.journal) \in Nat
      /\ mem \in Memory /\ ui \in Page
  BY DEF Unsent, OperatorInv, OperatorTypeOK, Disk, Memory
<1>2. /\ disk' \in Disk
      /\ disk'.journal = disk.journal
      /\ disk'.intent = d.intent
      /\ disk'.halt = IF o = "dropped" THEN disk.halt
                                       ELSE [on |-> TRUE, uncertain |-> x]
  <2> DEFINE h == [on |-> TRUE, uncertain |-> x]
  <2>1. h \in [on : BOOLEAN, uncertain : Nat]
    OBVIOUS
  <2>2. disk' = Put(d, "halt", h, o)
    BY DEF PersistHalt
  <2> HIDE DEF h
  <2>3. /\ disk' \in Disk
        /\ disk'.journal = d.journal
        /\ disk'.intent = d.intent
        /\ disk'.halt = IF o = "dropped" THEN d.halt ELSE h
    BY <2>1, <2>2, PutHalt
  <2> QED  BY <2>3 DEF h
<1>3. /\ mem' \in Memory
      /\ mem'.halted /\ mem'.uncertain = x
      /\ mem'.journal = mem.journal /\ mem'.pending = mem.pending
      /\ mem'.intent = mem.intent /\ mem'.current = mem.current
      /\ mem'.reconciled = mem.reconciled
  BY <1>1 DEF PersistHalt, Memory
<1>4. /\ tasks' = [tasks EXCEPT ![t] = Idle]
      /\ ui' \in Page
  BY <1>1, RenderHaltedTyped DEF Returns, Becomes
<1>5. OperatorTypeOK'
  BY <1>1, <1>2, <1>3, <1>4, BlankTypes DEF OperatorInv, OperatorTypeOK
<1>6. \A u \in Tasks : tasks'[u] = Idle
  BY <1>4 DEF OthersIdle, OperatorInv, OperatorTypeOK
<1>7. TasksRight'
  BY <1>6, IdleRight DEF TasksRight
<1>8. /\ OneOpen' /\ InPacketOrder'
      /\ \A r : Open(r)' = Open(r)
      /\ JournalTrue(disk.journal)' /\ JournalTrue(mem.journal)'
  <2>1. JournalTrue(disk.journal) /\ JournalTrue(mem.journal)
    BY DEF OperatorInv, DiskRight, MemoryRight
  <2>2. OneOpen' /\ InPacketOrder' /\ \A r : Open(r)' = Open(r)
    BY <1>1, WorldKept
  <2>3. JournalTrue(disk.journal)' /\ JournalTrue(mem.journal)'
    <3>1. /\ mined' = mined
          /\ disk'.journal = disk.journal /\ mem'.journal = mem.journal
      BY <1>1, <1>2, <1>3
    <3> QED  BY <2>1, <3>1 DEF JournalTrue
  <2> QED  BY <2>2, <2>3
<1>9. Len(mem.journal) <= Len(disk.journal) /\ ~disk.halt.on
  BY <1>1 DEF OperatorInv, MemoryRight
<1>10. DiskRight'
  <2>1. disk.intent <= Len(disk.journal) + 1 /\ disk.halt.uncertain = NoStep
    BY <1>9 DEF OperatorInv, DiskRight
  <2>2. disk'.intent <= Len(disk'.journal) + 1
    BY <2>1, <1>1, <1>2, BlankTypes
  <2>3. disk'.halt.uncertain # NoStep =>
           /\ disk'.halt.on
           /\ disk'.halt.uncertain <= Len(disk'.journal) + 1
           /\ disk'.intent \in {NoStep, disk'.halt.uncertain}
    BY <2>1, <1>1, <1>2, <1>9
  <2>4. \A r \in DOMAIN requests' :
           Open(r)' => \/ requests'[r].step <= Len(disk'.journal)
                       \/ requests'[r].step = disk'.intent
    BY <1>1, <1>2, <1>8
  <2> QED  BY <1>8, <2>2, <2>3, <2>4 DEF DiskRight
<1>11. MemoryRight'
  <2>1. HeldBack'
    BY <1>3 DEF HeldBack
  <2>2. mem'.uncertain # NoStep =>
           /\ mem'.uncertain <= Len(mem'.journal) + 1
           /\ mem'.intent \in {NoStep, mem'.uncertain}
           /\ ~(mem'.uncertain <= Len(mem'.journal))
    BY <1>1, <1>3
  <2>3. \A r \in DOMAIN requests' :
           Open(r)' => \/ requests'[r].step <= Len(mem'.journal)
                       \/ requests'[r].step = mem'.intent /\ HeldBack'
    BY <1>1, <1>3, <1>8, <2>1 DEF OperatorInv, MemoryRight
  <2>4. /\ Len(disk'.journal) \in {Len(mem'.journal), Len(mem'.journal) + 1}
        /\ mem'.intent <= Len(mem'.journal) + 1
    BY <1>2, <1>3 DEF OperatorInv, MemoryRight
  <2> QED  BY <1>3, <1>8, <2>2, <2>3, <2>4 DEF MemoryRight
<1> QED  BY <1>5, <1>7, <1>8, <1>10, <1>11 DEF OperatorInv

(* Without a halt of its own the page is not uncertain. *)
LEMMA CertainWhenLive ==
    ASSUME OperatorInv, ~mem.halted
    PROVE  mem.uncertain = NoStep
BY DEF OperatorInv, MemoryRight

LEMMA FailureKeeps ==
    ASSUME OperatorInv, NEW t \in Tasks, VerifyFails(t) \/ GateFails(t)
    PROVE  OperatorInv'
<1>1. /\ tasks[t].pc # "idle"
      /\ Returns(t) /\ RenderHalted /\ Unsent
  BY DEF VerifyFails, GateFails
<1>2. PICK o \in Outcomes : Halt(o) /\ Faulty(Fault(o))
  BY DEF VerifyFails, GateFails
<1>3. OthersIdle(t) /\ ~mem.halted /\ mem.uncertain = NoStep
  BY <1>1, RunsAlone, CertainWhenLive
<1>4. disk \in Disk /\ faults \in Nat
  BY DEF OperatorInv, OperatorTypeOK
<1>5. faults' \in Nat
  BY <1>2, <1>4, FaultIsNat, FaultsTyped
<1>6. PersistHalt(mem, disk, NoStep, o) /\ NoStep \in Nat
  BY <1>2, <1>3, BlankTypes DEF Halt
<1>7. \A r \in DOMAIN requests :
          Open(r) => \/ requests[r].step <= Len(disk.journal)
                     \/ requests[r].step = disk.intent
  BY DEF OperatorInv, DiskRight
<1> QED  BY <1>1, <1>3, <1>4, <1>5, <1>6, <1>7, HaltKeeps

(* What a handler that asked the wallet knows *)
LEMMA AskedFacts ==
    ASSUME OperatorInv, NEW t \in Tasks, tasks[t].pc = "asked"
    PROVE  /\ OthersIdle(t) /\ ~mem.halted /\ mem.uncertain = NoStep
           /\ mem.current = Len(mem.journal) + 1 /\ mem.current \in Steps
           /\ tasks[t].step = mem.current /\ mem.pending = NoPending
           /\ mem.intent = mem.current /\ disk.intent = mem.current
           /\ tasks[t].tx \in DOMAIN requests
           /\ requests[tasks[t].tx].step = tasks[t].step
           /\ \A q \in DOMAIN requests :
                  q # tasks[t].tx /\ requests[q].step = tasks[t].step => ~Open(q)
<1>1. OthersIdle(t) /\ ~mem.halted
  BY RunsAlone
<1>2. TaskRight(t) /\ mem.uncertain = NoStep
  BY <1>1, CertainWhenLive DEF OperatorInv, TasksRight
<1> QED  BY <1>1, <1>2 DEF TaskRight

LEMMA UncertainKeeps ==
    ASSUME OperatorInv, NEW t \in Tasks, OnUncertain(t)
    PROVE  OperatorInv'
<1>1. /\ tasks[t].pc = "asked"
      /\ Returns(t) /\ RenderHalted /\ Unsent
  BY DEF OnUncertain, Answer
<1>2. PICK o \in Outcomes :
          PersistHalt(mem, disk, tasks[t].step, o) /\ Faulty(Fault(o))
  BY DEF OnUncertain
<1>3. disk \in Disk /\ faults \in Nat
  BY DEF OperatorInv, OperatorTypeOK
<1>4. faults' \in Nat
  BY <1>2, <1>3, FaultIsNat, FaultsTyped
<1>5. \A r \in DOMAIN requests :
          Open(r) => \/ requests[r].step <= Len(disk.journal)
                     \/ requests[r].step = disk.intent
  BY DEF OperatorInv, DiskRight
<1>6. tasks[t].step \in Nat
  BY <1>1, AskedFacts, StepsNatural
<1>7. /\ OthersIdle(t) /\ ~mem.halted
      /\ tasks[t].step = Len(mem.journal) + 1
      /\ mem.intent = tasks[t].step /\ disk.intent = tasks[t].step
  BY <1>1, AskedFacts
<1> QED  BY <1>1, <1>2, <1>3, <1>4, <1>5, <1>6, <1>7, HaltKeeps

-----------------------------------------------------------------------------
(* The intent *)

(* Before the wallet is asked, and after its user refused, every open       *)
(* request is of a journaled step.                                          *)
OpenJournaled ==
    \A r \in DOMAIN requests : Open(r) => requests[r].step <= Len(mem.journal)

LEMMA RequestSteps ==
    ASSUME OperatorInv, NEW r \in DOMAIN requests
    PROVE  /\ requests[r] \in Request
           /\ requests[r].step \in Steps /\ requests[r].step \in Nat
           /\ requests[r].step # 0
<1>1. requests[r] \in Request
  BY DEF OperatorInv, OperatorTypeOK
<1>2. requests[r].step \in Steps
  BY <1>1 DEF Request
<1> QED  BY <1>1, <1>2, StepsNatural

LEMMA NothingOpenBefore ==
    ASSUME OperatorInv, NEW t \in Tasks, tasks[t].pc \in {"gated", "intended"}
    PROVE  OpenJournaled
<1>1. OthersIdle(t) /\ ~mem.halted /\ mem.pending = NoPending
  BY RunsAlone DEF OperatorInv, TasksRight, TaskRight
<1>2. \A u \in Tasks : tasks[u].pc # "asked"
  BY <1>1, BlankTypes DEF OthersIdle
<1>3. HeldBack => mem.intent = 0
  BY <1>1, <1>2, BlankTypes DEF HeldBack
<1> QED  BY <1>3, RequestSteps DEF OpenJournaled, OperatorInv, MemoryRight

LEMMA NothingOpenAfterRefusal ==
    ASSUME OperatorInv, NEW t \in Tasks, Answer(t) = "rejected"
    PROVE  tasks[t].pc = "asked" /\ OpenJournaled
<1>1. tasks[t].pc = "asked" /\ ~Open(tasks[t].tx)
  BY DEF Answer, Open
<1>2. \A q \in DOMAIN requests : requests[q].step = mem.intent => ~Open(q)
  BY <1>1, AskedFacts
<1> QED  BY <1>1, <1>2 DEF OpenJournaled, OperatorInv, MemoryRight

LEMMA JournalsKept ==
    ASSUME JournalTrue(disk.journal), JournalTrue(mem.journal), UNCHANGED mined,
           disk'.journal = disk.journal, mem'.journal = mem.journal
    PROVE  JournalTrue(disk.journal)' /\ JournalTrue(mem.journal)'
BY DEF JournalTrue

(* A handler of a page that is not halted changes anything but the journal. *)
LEMMA LiveKeeps ==
    ASSUME OperatorInv, OperatorTypeOK', NEW t \in Tasks, OthersIdle(t), ~mem.halted,
           UNCHANGED <<requests, mined>>,
           \A u \in Tasks : u # t => tasks'[u] = tasks[u],
           TaskRight(t)',
           disk'.journal = disk.journal, disk'.halt = disk.halt,
           disk'.intent <= Len(disk.journal) + 1,
           \A r \in DOMAIN requests :
               Open(r) => \/ requests[r].step <= Len(disk.journal)
                          \/ requests[r].step = disk'.intent,
           mem'.journal = mem.journal, mem'.halted = mem.halted,
           mem'.uncertain = mem.uncertain,
           mem'.intent <= Len(mem.journal) + 1,
           \A r \in DOMAIN requests :
               Open(r) => \/ requests[r].step <= Len(mem.journal)
                          \/ requests[r].step = mem'.intent /\ HeldBack',
           mem'.reconciled \/ ui'.panel = "pending" =>
               mem'.current = Len(mem.journal) + 1
    PROVE  OperatorInv'
<1>1. /\ mem.uncertain = NoStep /\ ~disk.halt.on /\ disk.halt.uncertain = NoStep
      /\ Len(disk.journal) \in {Len(mem.journal), Len(mem.journal) + 1}
      /\ JournalTrue(disk.journal) /\ JournalTrue(mem.journal)
  BY CertainWhenLive DEF OperatorInv, MemoryRight, DiskRight
<1>2. /\ mined' = mined /\ requests' = requests
      /\ JournalTrue(disk.journal)' /\ JournalTrue(mem.journal)'
  BY <1>1, JournalsKept
<1>3. OneOpen' /\ InPacketOrder' /\ \A r : Open(r)' = Open(r)
  BY WorldKept
<1>4. TasksRight'
  BY TasksKept
<1>5. DiskRight'
  BY <1>1, <1>2, <1>3 DEF DiskRight
<1>6. MemoryRight'
  BY <1>1, <1>2, <1>3 DEF MemoryRight
<1> QED  BY <1>3, <1>4, <1>5, <1>6 DEF OperatorInv

LEMMA ForgetKeeps ==
    ASSUME OperatorInv, NEW t \in Tasks, OthersIdle(t), ~mem.halted,
           NEW o \in Outcomes, disk' = Put(disk, "intent", NoStep, o),
           mem' = [mem EXCEPT !.intent = NoStep], OpenJournaled,
           Returns(t), Unsent, faults' \in Nat, Render(mem') \/ RenderAfresh(mem')
    PROVE  OperatorInv'
<1>1. /\ UNCHANGED <<requests, mined, reloads>>
      /\ disk \in Disk /\ disk.intent \in Nat /\ Len(disk.journal) \in Nat
      /\ Len(mem.journal) \in Nat /\ mem.uncertain = NoStep
      /\ mem \in Memory /\ ui \in Page /\ NoStep \in Nat
  BY BlankTypes, CertainWhenLive DEF Unsent, OperatorInv, OperatorTypeOK, Disk, Memory
<1>2. /\ disk' \in Disk
      /\ disk'.journal = disk.journal /\ disk'.halt = disk.halt
      /\ disk'.intent \in {disk.intent, NoStep}
  BY <1>1, PutIntent
<1>3. /\ mem' \in Memory
      /\ ~mem'.halted /\ mem'.uncertain = NoStep
      /\ mem'.journal = mem.journal /\ mem'.intent = NoStep
      /\ mem'.current = mem.current /\ mem'.reconciled = mem.reconciled
  BY <1>1 DEF Memory
<1>4. /\ tasks' = [tasks EXCEPT ![t] = Idle]
      /\ ui' \in Page
      /\ ui'.panel = "pending" => mem.reconciled
  BY <1>1, <1>3, RenderTyped DEF Returns, Becomes
<1>5. OperatorTypeOK'
  BY <1>1, <1>2, <1>3, <1>4, BlankTypes DEF OperatorInv, OperatorTypeOK
<1>6. tasks'[t] = Idle /\ \A u \in Tasks : u # t => tasks'[u] = tasks[u]
  BY <1>4 DEF OperatorInv, OperatorTypeOK
<1>7. Len(disk.journal) \in {Len(mem.journal), Len(mem.journal) + 1}
  BY DEF OperatorInv, MemoryRight
<1>8. \A r \in DOMAIN requests : Open(r) => requests[r].step <= Len(disk.journal)
  <2> SUFFICES ASSUME NEW r \in DOMAIN requests, Open(r)
               PROVE  requests[r].step <= Len(disk.journal)
    OBVIOUS
  <2>1. requests[r].step \in Nat /\ requests[r].step <= Len(mem.journal)
    BY RequestSteps DEF OpenJournaled
  <2> QED  BY <2>1, <1>1, <1>7
<1>9. disk'.intent <= Len(disk.journal) + 1 /\ mem'.intent <= Len(mem.journal) + 1
  <2>1. disk.intent <= Len(disk.journal) + 1
    BY DEF OperatorInv, DiskRight
  <2> QED  BY <2>1, <1>1, <1>2, <1>3, BlankTypes
<1>10. mem'.reconciled \/ ui'.panel = "pending" => mem'.current = Len(mem.journal) + 1
  BY <1>3, <1>4 DEF OperatorInv, MemoryRight
<1>11. TaskRight(t)'
  BY <1>6, IdleRight
<1>12. \A r \in DOMAIN requests : Open(r) => requests[r].step <= Len(mem.journal)
  BY DEF OpenJournaled
<1>13. mem'.halted = mem.halted /\ mem'.uncertain = mem.uncertain
  BY <1>1, <1>3
<1> QED  BY <1>1, <1>2, <1>3, <1>5, <1>6, <1>8, <1>9, <1>10, <1>11, <1>12, <1>13, LiveKeeps

LEMMA RejectedKeeps ==
    ASSUME OperatorInv, NEW t \in Tasks, OnRejected(t)
    PROVE  OperatorInv'
<1>1. tasks[t].pc = "asked" /\ OpenJournaled
  BY NothingOpenAfterRefusal DEF OnRejected
<1>2. Returns(t) /\ Unsent /\ OthersIdle(t) /\ ~mem.halted
  BY <1>1, AskedFacts DEF OnRejected
<1>3. /\ disk \in Disk /\ faults \in Nat /\ disk.journal \in Seq(Record)
      /\ mem.journal \in Seq(Record) /\ NoStep \in Nat
  BY BlankTypes DEF OperatorInv, OperatorTypeOK, Disk, Memory
<1>4. PICK o1 \in Outcomes, o2 \in Outcomes :
        LET d == Put(disk, "intent", NoStep, o1) IN
        IF RoundTrips(o1)
           THEN /\ o2 = "ok" /\ faults' = faults
                /\ disk' = d /\ mem' = [mem EXCEPT !.intent = NoStep]
                /\ RenderAfresh(mem')
           ELSE /\ Faulty(1 + Fault(o2))
                /\ PersistHalt(mem, d, tasks[t].step, o2)
                /\ RenderHalted
  BY DEF OnRejected
<1>5. CASE RoundTrips(o1)
  BY <1>1, <1>2, <1>3, <1>4, <1>5, ForgetKeeps
<1>6. CASE ~RoundTrips(o1)
  <2> DEFINE d == Put(disk, "intent", NoStep, o1)
  <2>1. /\ d \in Disk /\ d.journal = disk.journal /\ d.halt = disk.halt
        /\ d.intent \in {disk.intent, NoStep}
    <3>1. o1 \in Outcomes /\ disk \in Disk /\ NoStep \in Nat
      BY <1>3
    <3>2. /\ d \in Disk /\ d.journal = disk.journal /\ d.halt = disk.halt
          /\ d.intent = IF o1 = "dropped" THEN disk.intent ELSE NoStep
      BY <3>1, PutIntent
    <3> QED  BY <3>2
  <2>2. PersistHalt(mem, d, tasks[t].step, o2) /\ RenderHalted /\ Faulty(1 + Fault(o2))
    BY <1>4, <1>6
  <2> HIDE DEF d
  <2>3. faults' \in Nat
    <3>1. Fault(o2) \in Nat
      BY FaultIsNat
    <3> QED  BY <3>1, <2>2, <1>3 DEF Faulty
  <2>4. \A r \in DOMAIN requests : Open(r) => requests[r].step <= Len(disk.journal)
    <3> SUFFICES ASSUME NEW r \in DOMAIN requests, Open(r)
                 PROVE  requests[r].step <= Len(disk.journal)
      OBVIOUS
    <3>1. /\ Len(disk.journal) \in {Len(mem.journal), Len(mem.journal) + 1}
          /\ Len(mem.journal) \in Nat
      BY <1>3 DEF OperatorInv, MemoryRight
    <3>2. requests[r].step \in Nat /\ requests[r].step <= Len(mem.journal)
      BY <1>1, RequestSteps DEF OpenJournaled
    <3> QED  BY <3>1, <3>2
  <2>5. /\ tasks[t].step \in Nat
        /\ tasks[t].step = Len(mem.journal) + 1
        /\ mem.intent = tasks[t].step /\ disk.intent = tasks[t].step
    BY <1>1, AskedFacts, StepsNatural
  <2> QED  BY <1>2, <2>1, <2>2, <2>3, <2>4, <2>5, HaltKeeps
<1> QED  BY <1>5, <1>6

LEMMA RefusedKeeps ==
    ASSUME OperatorInv, NEW t \in Tasks, ChainRefused(t)
    PROVE  OperatorInv'
<1>1. /\ Returns(t) /\ Unsent /\ tasks[t].pc \in {"gated", "intended"}
      /\ UNCHANGED <<requests, mined, reloads>>
  BY DEF ChainRefused, Unsent
<1>2. OthersIdle(t) /\ ~mem.halted /\ OpenJournaled /\ tasks[t].pc # "asked"
  BY <1>1, RunsAlone, NothingOpenBefore
<1>3. faults \in Nat /\ ui \in Page /\ mem \in Memory
  BY DEF OperatorInv, OperatorTypeOK
<1>4. CASE tasks[t].pc = "gated"
  <2>1. UNCHANGED <<disk, mem, faults>> /\ Render(mem)
    BY <1>4 DEF ChainRefused
  <2>2. ui' \in Page /\ (ui'.panel = "pending" => mem.reconciled)
    BY <2>1, <1>3, RenderTyped
  <2>3. /\ OperatorTypeOK'
        /\ \A u \in Tasks : u # t => tasks'[u] = tasks[u]
        /\ tasks'[t] = Idle
    BY <1>1, <1>3, <2>1, <2>2, BlankTypes, TypeQuiet
       DEF OperatorInv, OperatorTypeOK, Returns
  <2> QED  BY <1>1, <1>2, <2>1, <2>2, <2>3, IdleRight, QuietKeeps
<1>5. CASE tasks[t].pc = "intended"
  <2>1. PICK o \in Outcomes :
            disk' = Put(disk, "intent", NoStep, o) /\ Faulty(Fault(o))
    BY <1>5 DEF ChainRefused
  <2>2. mem' = [mem EXCEPT !.intent = NoStep] /\ Render(mem')
    BY <1>5 DEF ChainRefused
  <2>3. faults' \in Nat
    BY <2>1, <1>3, FaultIsNat, FaultsTyped
  <2> QED  BY <1>1, <1>2, <2>1, <2>2, <2>3, ForgetKeeps
<1> QED  BY <1>1, <1>4, <1>5

-----------------------------------------------------------------------------
(* Connecting and reconciling *)

LEMMA LiveFacts ==
    ASSUME OperatorInv
    PROVE  /\ disk \in Disk /\ disk.intent \in Nat /\ Len(disk.journal) \in Nat
           /\ mem \in Memory /\ mem.intent \in Nat /\ Len(mem.journal) \in Nat
           /\ mem.journal \in Seq(Record) /\ mem.pending \in Record
           /\ mem.pending.step \in Nat /\ mem.pending.tx \in Nat
           /\ mem.current \in Nat /\ mem.halted \in BOOLEAN
           /\ ui \in Page /\ faults \in Nat /\ tasks \in [Tasks -> Handler]
           /\ disk.intent <= Len(disk.journal) + 1
           /\ mem.intent <= Len(mem.journal) + 1
           /\ Len(disk.journal) \in {Len(mem.journal), Len(mem.journal) + 1}
           /\ \A r \in DOMAIN requests :
                  Open(r) => \/ requests[r].step <= Len(disk.journal)
                             \/ requests[r].step = disk.intent
<1>1. disk \in Disk /\ mem \in Memory /\ ui \in Page /\ faults \in Nat
      /\ tasks \in [Tasks -> Handler]
  BY DEF OperatorInv, OperatorTypeOK
<1>2. /\ disk.intent \in Nat /\ Len(disk.journal) \in Nat
      /\ mem.intent \in Nat /\ Len(mem.journal) \in Nat
      /\ mem.journal \in Seq(Record) /\ mem.pending \in Record
      /\ mem.pending.step \in Nat /\ mem.pending.tx \in Nat
      /\ mem.current \in Nat /\ mem.halted \in BOOLEAN
  BY <1>1 DEF Disk, Memory, Record
<1> QED  BY <1>1, <1>2 DEF OperatorInv, DiskRight, MemoryRight

(* A pending record holds its step back, unless the journal has it. *)
LEMMA HeldKept ==
    ASSUME OperatorInv, NEW t \in Tasks, OthersIdle(t), ~mem.halted,
           tasks[t].pc # "asked", mem'.intent = mem.intent,
           mem'.pending = mem.pending \/ mem.pending.step <= Len(mem.journal)
    PROVE  \A r \in DOMAIN requests :
               Open(r) => \/ requests[r].step <= Len(mem.journal)
                          \/ requests[r].step = mem'.intent /\ HeldBack'
<1>1. \A u \in Tasks : tasks[u].pc # "asked"
  BY BlankTypes DEF OthersIdle
<1>2. HeldBack => mem.pending.step = mem.intent
  BY <1>1 DEF HeldBack
<1>3. mem'.pending = mem.pending /\ HeldBack => HeldBack'
  BY <1>2 DEF HeldBack
<1> QED  BY <1>2, <1>3 DEF OperatorInv, MemoryRight

LEMMA ConnectKeeps ==
    ASSUME OperatorInv, ~Overlap, NEW t \in Tasks, Connect(t)
    PROVE  OperatorInv'
<1>1. /\ UNCHANGED <<disk, ui, requests, mined, reloads, faults>>
      /\ OthersIdle(t) /\ tasks[t].pc # "asked" /\ ~mem.halted
      /\ mem' = [mem EXCEPT !.connected = TRUE]
      /\ Becomes(t, At("journal", NoStep, 0, "connect"))
  BY ClickedAlone, BlankTypes DEF Connect, Unsent
<1>2. /\ mem' \in Memory /\ mem'.halted = mem.halted
      /\ mem'.uncertain = mem.uncertain /\ mem'.journal = mem.journal
      /\ mem'.pending = mem.pending /\ mem'.intent = mem.intent
      /\ mem'.reconciled = mem.reconciled /\ mem'.current = mem.current
  BY <1>1, LiveFacts DEF Memory
<1>3. /\ At("journal", NoStep, 0, "connect") \in Handler
      /\ At("journal", NoStep, 0, "connect").pc = "journal"
  BY BlankTypes DEF At, Handler, Places
<1>4. /\ OperatorTypeOK'
      /\ \A u \in Tasks : u # t => tasks'[u] = tasks[u]
      /\ tasks'[t].pc = "journal"
  BY <1>1, <1>2, <1>3 DEF OperatorInv, OperatorTypeOK, Becomes
<1>5. TaskRight(t)'
  BY <1>1, <1>2, <1>4 DEF TaskRight
<1>6. mem'.reconciled \/ ui'.panel = "pending" => mem'.current = Len(mem.journal) + 1
  BY <1>1, <1>2 DEF OperatorInv, MemoryRight
<1>7. \A r \in DOMAIN requests :
          Open(r) => \/ requests[r].step <= Len(mem.journal)
                     \/ requests[r].step = mem'.intent /\ HeldBack'
  BY <1>1, <1>2, HeldKept
<1>8. /\ UNCHANGED <<requests, mined>>
      /\ disk' = disk
  BY <1>1
<1> QED  BY <1>1, <1>2, <1>4, <1>5, <1>6, <1>7, <1>8, LiveFacts, LiveKeeps

LEMMA UnresolvedKeeps ==
    ASSUME OperatorInv, NEW t \in Tasks, PendingUnresolved(t)
    PROVE  OperatorInv'
<1>1. /\ UNCHANGED <<disk, requests, mined, reloads, faults>>
      /\ tasks[t].pc = "lookup"
      /\ mem' = [mem EXCEPT !.reconciled = FALSE]
      /\ Returns(t) /\ Render(mem')
  BY DEF PendingUnresolved, Unsent
<1>2. /\ mem' \in Memory /\ mem'.halted = mem.halted
      /\ mem'.uncertain = mem.uncertain /\ mem'.journal = mem.journal
      /\ mem'.pending = mem.pending /\ mem'.intent = mem.intent
      /\ ~mem'.reconciled /\ mem'.current = mem.current
  BY <1>1, LiveFacts DEF Memory
<1>3. ui' \in Page /\ (ui'.panel = "pending" => mem'.reconciled)
  BY <1>1, <1>2, LiveFacts, RenderTyped
<1>4. /\ OperatorTypeOK'
      /\ \A u \in Tasks : u # t => tasks'[u] = tasks[u]
      /\ tasks'[t] = Idle
  BY <1>1, <1>2, <1>3, BlankTypes DEF OperatorInv, OperatorTypeOK, Returns, Becomes
<1>5. OthersIdle(t) /\ ~mem.halted
  BY <1>1, RunsAlone
<1>6. \A r \in DOMAIN requests :
          Open(r) => \/ requests[r].step <= Len(mem.journal)
                     \/ requests[r].step = mem'.intent /\ HeldBack'
  BY <1>1, <1>2, <1>5, HeldKept
<1>7. UNCHANGED <<requests, mined>> /\ disk' = disk /\ TaskRight(t)'
  BY <1>1, <1>4, IdleRight
<1> QED  BY <1>2, <1>3, <1>4, <1>5, <1>6, <1>7, LiveFacts, LiveKeeps

LEMMA ReconcileKeeps ==
    ASSUME OperatorInv, NEW t \in Tasks, ReconcileJournal(t)
    PROVE  OperatorInv'
<1> DEFINE stale == mem.pending # NoPending /\ mem.pending.step <= Len(mem.journal)
           pending == IF stale THEN NoPending ELSE mem.pending
           m == [mem EXCEPT !.current = Len(mem.journal) + 1, !.reconciled = TRUE,
                            !.pending = pending]
<1>1. /\ UNCHANGED <<requests, mined, reloads>>
      /\ tasks[t].pc = "journal"
      /\ mem' = m
      /\ IF m.pending = NoPending
            THEN Returns(t) /\ Render(m)
            ELSE Becomes(t, At("lookup", NoStep, 0, "connect")) /\ UNCHANGED ui
  BY DEF ReconcileJournal, Unsent
<1>2. PICK o \in Outcomes :
          /\ disk' = IF stale THEN Put(disk, "pending", NoPending, o) ELSE disk
          /\ Faulty(Fault(o))
  BY DEF ReconcileJournal
<1>3. OthersIdle(t) /\ ~mem.halted
  BY <1>1, RunsAlone
<1>4. /\ pending \in Record
      /\ pending = mem.pending \/ mem.pending.step <= Len(mem.journal)
  BY LiveFacts, BlankTypes
<1>5. /\ disk' \in Disk /\ disk'.journal = disk.journal
      /\ disk'.intent = disk.intent /\ disk'.halt = disk.halt
  <2>1. CASE stale
    <3>1. disk' = Put(disk, "pending", NoPending, o)
      BY <2>1, <1>2
    <3> QED  BY <3>1, LiveFacts, BlankTypes, PutPending
  <2>2. CASE ~stale
    BY <2>2, <1>2, LiveFacts
  <2> QED  BY <2>1, <2>2
<1> HIDE DEF pending, stale
<1>6. /\ m \in Memory /\ m.halted = mem.halted
      /\ m.uncertain = mem.uncertain /\ m.journal = mem.journal
      /\ m.pending = pending /\ m.intent = mem.intent
      /\ m.reconciled /\ m.current = Len(mem.journal) + 1
  <2>1. mem \in Memory /\ Len(mem.journal) + 1 \in Nat
    BY LiveFacts
  <2> DEFINE n == Len(mem.journal) + 1
  <2> HIDE DEF n
  <2>2. n \in Nat /\ m = [mem EXCEPT !.current = n, !.reconciled = TRUE,
                                     !.pending = pending]
    BY <2>1 DEF n
  <2>3. /\ m \in Memory /\ m.halted = mem.halted
        /\ m.uncertain = mem.uncertain /\ m.journal = mem.journal
        /\ m.pending = pending /\ m.intent = mem.intent
        /\ m.reconciled /\ m.current = n
    BY <1>4, <2>1, <2>2 DEF Memory
  <2> QED  BY <2>3 DEF n
<1> HIDE DEF m
<1>7. faults' \in Nat
  BY <1>2, LiveFacts, FaultIsNat, FaultsTyped
<1>8. /\ ui' \in Page /\ tasks' \in [Tasks -> Handler]
      /\ \A u \in Tasks : u # t => tasks'[u] = tasks[u]
      /\ tasks'[t] = Idle \/ tasks'[t].pc = "lookup"
  <2>1. CASE m.pending = NoPending
    <3>1. Returns(t) /\ Render(m)
      BY <2>1, <1>1
    <3> QED  BY <3>1, <1>6, LiveFacts, BlankTypes, RenderTyped DEF Returns, Becomes
  <2>2. CASE m.pending # NoPending
    <3>1. Becomes(t, At("lookup", NoStep, 0, "connect")) /\ ui' = ui
      BY <2>2, <1>1
    <3>2. /\ At("lookup", NoStep, 0, "connect") \in Handler
          /\ At("lookup", NoStep, 0, "connect").pc = "lookup"
      BY BlankTypes DEF At, Handler, Places
    <3> QED  BY <3>1, <3>2, LiveFacts DEF Becomes
  <2> QED  BY <2>1, <2>2
<1>9. OperatorTypeOK'
  BY <1>1, <1>5, <1>6, <1>7, <1>8 DEF OperatorInv, OperatorTypeOK
<1>10. TaskRight(t)'
  <2>1. CASE tasks'[t] = Idle
    BY <2>1, IdleRight
  <2>2. CASE tasks'[t].pc = "lookup"
    BY <2>2, <1>1, <1>3, <1>6 DEF TaskRight
  <2> QED  BY <1>8, <2>1, <2>2
<1>11. \A r \in DOMAIN requests :
          Open(r) => \/ requests[r].step <= Len(mem.journal)
                     \/ requests[r].step = mem'.intent /\ HeldBack'
  <2>1. /\ mem'.intent = mem.intent
        /\ mem'.pending = mem.pending \/ mem.pending.step <= Len(mem.journal)
        /\ tasks[t].pc # "asked"
    BY <1>1, <1>4, <1>6
  <2> QED  BY <1>3, <2>1, HeldKept
<1>12. /\ mem'.journal = mem.journal /\ mem'.halted = mem.halted
       /\ mem'.uncertain = mem.uncertain /\ mem'.intent <= Len(mem.journal) + 1
       /\ mem'.current = Len(mem.journal) + 1
  BY <1>1, <1>6, LiveFacts
<1>13. /\ UNCHANGED <<requests, mined>>
       /\ disk'.intent <= Len(disk.journal) + 1
       /\ \A r \in DOMAIN requests :
              Open(r) => \/ requests[r].step <= Len(disk.journal)
                         \/ requests[r].step = disk'.intent
  BY <1>1, <1>5, LiveFacts
<1> QED
  BY <1>3, <1>5, <1>8, <1>9, <1>10, <1>11, <1>12, <1>13, LiveKeeps

-----------------------------------------------------------------------------
(* Sending *)

LEMMA DiskCovers ==
    ASSUME OperatorInv, OpenJournaled
    PROVE  \A r \in DOMAIN requests : Open(r) => requests[r].step <= Len(disk.journal)
<1> SUFFICES ASSUME NEW r \in DOMAIN requests, Open(r)
             PROVE  requests[r].step <= Len(disk.journal)
  OBVIOUS
<1>1. requests[r].step \in Nat /\ requests[r].step <= Len(mem.journal)
  BY RequestSteps DEF OpenJournaled
<1> QED  BY <1>1, LiveFacts

LEMMA IntentKeeps ==
    ASSUME OperatorInv, NEW t \in Tasks, PersistIntent(t)
    PROVE  OperatorInv'
<1>1. /\ UNCHANGED <<requests, mined, reloads>>
      /\ tasks[t].pc = "gated" /\ mem.current \in Steps
  BY DEF PersistIntent, Unsent
<1>2. PICK o \in Outcomes :
          /\ disk' = Put(disk, "intent", mem.current, o)
          /\ Faulty(Fault(o))
          /\ IF RoundTrips(o)
                THEN /\ mem' = [mem EXCEPT !.intent = mem.current]
                     /\ Becomes(t, At("intended", mem.current, 0, "button"))
                     /\ UNCHANGED ui
                ELSE mem' = mem /\ Returns(t) /\ Render(mem)
  BY DEF PersistIntent
<1>3. /\ OthersIdle(t) /\ ~mem.halted /\ OpenJournaled
      /\ mem.current = Len(mem.journal) + 1 /\ mem.pending = NoPending
  BY <1>1, RunsAlone, NothingOpenBefore DEF OperatorInv, TasksRight, TaskRight
<1>4. /\ disk' \in Disk /\ disk'.journal = disk.journal /\ disk'.halt = disk.halt
      /\ disk'.intent = IF o = "dropped" THEN disk.intent ELSE mem.current
  <2>1. disk \in Disk /\ mem.current \in Nat
    BY LiveFacts
  <2> QED  BY <1>2, <2>1, PutIntent
<1>5. /\ mem' \in Memory /\ mem'.halted = mem.halted
      /\ mem'.uncertain = mem.uncertain /\ mem'.journal = mem.journal
      /\ mem'.pending = mem.pending
      /\ mem'.intent = IF RoundTrips(o) THEN mem.current ELSE mem.intent
      /\ mem'.reconciled = mem.reconciled /\ mem'.current = mem.current
  <2>1. CASE RoundTrips(o)
    BY <2>1, <1>2, LiveFacts DEF Memory
  <2>2. CASE ~RoundTrips(o)
    BY <2>2, <1>2, LiveFacts
  <2> QED  BY <2>1, <2>2
<1>6. /\ ui' \in Page /\ tasks' \in [Tasks -> Handler]
      /\ \A u \in Tasks : u # t => tasks'[u] = tasks[u]
      /\ \/ tasks'[t] = Idle
         \/ /\ RoundTrips(o)
            /\ tasks'[t].pc = "intended" /\ tasks'[t].step = mem.current
      /\ ui'.panel = "pending" => ui.panel = "pending" \/ mem.reconciled
  <2>1. CASE RoundTrips(o)
    <3>1. Becomes(t, At("intended", mem.current, 0, "button")) /\ ui' = ui
      BY <2>1, <1>2
    <3>2. /\ At("intended", mem.current, 0, "button") \in Handler
          /\ At("intended", mem.current, 0, "button").pc = "intended"
          /\ At("intended", mem.current, 0, "button").step = mem.current
      BY LiveFacts DEF At, Handler, Places
    <3> QED  BY <2>1, <3>1, <3>2, LiveFacts DEF Becomes
  <2>2. CASE ~RoundTrips(o)
    <3>1. Returns(t) /\ Render(mem)
      BY <2>2, <1>2
    <3> QED  BY <3>1, LiveFacts, BlankTypes, RenderTyped DEF Returns, Becomes
  <2> QED  BY <2>1, <2>2
<1>7. faults' \in Nat
  BY <1>2, LiveFacts, FaultIsNat, FaultsTyped
<1>8. OperatorTypeOK'
  BY <1>1, <1>4, <1>5, <1>6, <1>7 DEF OperatorInv, OperatorTypeOK
<1>9. TaskRight(t)'
  <2>1. CASE tasks'[t] = Idle
    BY <2>1, IdleRight
  <2>2. CASE /\ RoundTrips(o)
             /\ tasks'[t].pc = "intended" /\ tasks'[t].step = mem.current
    <3>1. disk'.intent = mem.current /\ mem'.intent = mem.current
      BY <2>2, <1>4, <1>5 DEF RoundTrips
    <3> QED  BY <2>2, <3>1, <1>1, <1>3, <1>5 DEF TaskRight
  <2> QED  BY <1>6, <2>1, <2>2
<1>10. /\ disk'.intent <= Len(disk.journal) + 1
       /\ mem'.intent <= Len(mem.journal) + 1
  BY <1>3, <1>4, <1>5, LiveFacts
<1>11. mem'.reconciled \/ ui'.panel = "pending" => mem'.current = Len(mem.journal) + 1
  BY <1>3, <1>5
<1>12. /\ \A r \in DOMAIN requests : Open(r) => requests[r].step <= Len(disk.journal)
       /\ \A r \in DOMAIN requests : Open(r) => requests[r].step <= Len(mem.journal)
  BY <1>3, DiskCovers DEF OpenJournaled
<1>13. UNCHANGED <<requests, mined>>
  BY <1>1
<1> QED
  BY <1>3, <1>4, <1>5, <1>6, <1>8, <1>9, <1>10, <1>11, <1>12, <1>13, LiveKeeps

LEMMA HashKeeps ==
    ASSUME OperatorInv, NEW t \in Tasks, OnHash(t)
    PROVE  OperatorInv'
<1> DEFINE entry == [step |-> mem.current, tx |-> tasks[t].tx]
           m == [mem EXCEPT !.pending = entry]
<1>1. /\ UNCHANGED <<requests, mined, reloads>> /\ Unsent
      /\ tasks[t].pc = "asked"
  BY DEF OnHash, Unsent, Answer
<1>2. PICK o1 \in Outcomes, o2 \in Outcomes :
        IF RoundTrips(o1)
           THEN /\ o2 = "ok" /\ faults' = faults
                /\ disk' = Put(disk, "pending", entry, o1) /\ mem' = m
                /\ StartVerify(t, m, "send")
           ELSE /\ Faulty(1 + Fault(o2))
                /\ PersistHalt(mem, Put(disk, "pending", entry, o1), tasks[t].step, o2)
                /\ Returns(t) /\ RenderHalted
  BY DEF OnHash
<1>3. /\ OthersIdle(t) /\ ~mem.halted /\ mem.current = Len(mem.journal) + 1
      /\ tasks[t].step = mem.current /\ mem.pending = NoPending
      /\ mem.intent = mem.current /\ disk.intent = mem.current
      /\ mem.current \in Nat /\ mem.current # NoStep
  BY <1>1, AskedFacts, StepsNatural, BlankTypes
<1>4. entry \in Record /\ entry.step = mem.current
  BY <1>3, LiveFacts DEF Handler, Record
<1> HIDE DEF entry
<1>5. CASE RoundTrips(o1)
  <2>1. /\ disk' = Put(disk, "pending", entry, o1) /\ mem' = m
        /\ StartVerify(t, m, "send") /\ faults' = faults
    BY <1>2, <1>5
  <2>2. /\ disk' \in Disk /\ disk'.journal = disk.journal /\ disk'.halt = disk.halt
        /\ disk'.intent = disk.intent
    <3>1. disk \in Disk
      BY LiveFacts
    <3> QED  BY <1>4, <2>1, <3>1, PutPending
  <2>3. /\ m \in Memory /\ m.halted = mem.halted
        /\ m.uncertain = mem.uncertain /\ m.journal = mem.journal
        /\ m.pending = entry /\ m.intent = mem.intent
        /\ m.reconciled = mem.reconciled /\ m.current = mem.current
    BY <1>4, LiveFacts DEF Memory
  <2> HIDE DEF m
  <2>4. /\ tasks' \in [Tasks -> Handler]
        /\ ui' \in Page
        /\ \A u \in Tasks : u # t => tasks'[u] = tasks[u]
        /\ \/ tasks'[t] = Idle
           \/ tasks'[t].pc = "verify" /\ tasks'[t].step = m.current
    BY <2>1, <2>3, LiveFacts, VerifyStarts
  <2>5. OperatorTypeOK'
    BY <1>1, <2>1, <2>2, <2>3, <2>4 DEF OperatorInv, OperatorTypeOK
  <2>6. TaskRight(t)'
    <3>1. CASE tasks'[t] = Idle
      BY <3>1, IdleRight
    <3>2. CASE tasks'[t].pc = "verify" /\ tasks'[t].step = m.current
      BY <3>2, <1>3, <2>1, <2>3 DEF TaskRight
    <3> QED  BY <2>4, <3>1, <3>2
  <2>7. HeldBack'
    BY <1>3, <1>4, <2>1, <2>3 DEF HeldBack
  <2>8. \A r \in DOMAIN requests :
            Open(r) => \/ requests[r].step <= Len(mem.journal)
                       \/ requests[r].step = mem'.intent /\ HeldBack'
    BY <2>1, <2>3, <2>7 DEF OperatorInv, MemoryRight
  <2>9. /\ mem'.journal = mem.journal /\ mem'.halted = mem.halted
        /\ mem'.uncertain = mem.uncertain /\ mem'.intent <= Len(mem.journal) + 1
        /\ mem'.current = Len(mem.journal) + 1
    BY <1>3, <2>1, <2>3, LiveFacts
  <2>10. /\ UNCHANGED <<requests, mined>>
         /\ disk'.intent <= Len(disk.journal) + 1
         /\ \A r \in DOMAIN requests :
                Open(r) => \/ requests[r].step <= Len(disk.journal)
                           \/ requests[r].step = disk'.intent
    BY <1>1, <2>2, LiveFacts
  <2> QED
    BY <1>3, <2>2, <2>4, <2>5, <2>6, <2>8, <2>9, <2>10, LiveKeeps
<1>6. CASE ~RoundTrips(o1)
  <2> DEFINE d == Put(disk, "pending", entry, o1)
  <2>1. /\ d \in Disk /\ d.journal = disk.journal /\ d.halt = disk.halt
        /\ d.intent = disk.intent
    BY <1>4, LiveFacts, PutPending
  <2>2. /\ PersistHalt(mem, d, tasks[t].step, o2) /\ Faulty(1 + Fault(o2))
        /\ Returns(t) /\ RenderHalted
    BY <1>2, <1>6
  <2> HIDE DEF d
  <2>3. faults' \in Nat
    <3>1. Fault(o2) \in Nat /\ faults \in Nat
      BY FaultIsNat, LiveFacts
    <3> QED  BY <3>1, <2>2 DEF Faulty
  <2>4. \A r \in DOMAIN requests :
            Open(r) => \/ requests[r].step <= Len(disk.journal)
                       \/ requests[r].step = d.intent
    BY <2>1, LiveFacts
  <2>5. /\ tasks[t].step \in Nat
        /\ tasks[t].step = Len(mem.journal) + 1
        /\ mem.intent = tasks[t].step /\ disk.intent = tasks[t].step
    BY <1>3
  <2> QED  BY <1>1, <1>3, <2>1, <2>2, <2>3, <2>4, <2>5, HaltKeeps
<1> QED  BY <1>5, <1>6

-----------------------------------------------------------------------------
(* The journal *)

(* Writing a journal that is true, while no handler runs *)
LEMMA JournalKeeps ==
    ASSUME OperatorInv, OperatorTypeOK', UNCHANGED <<requests, mined>>,
           \A t \in Tasks : tasks'[t] = Idle,
           NEW j \in Seq(Record), JournalTrue(j),
           disk'.journal \in {disk.journal, j}, mem'.journal \in {mem.journal, j},
           disk'.intent <= Len(disk'.journal) + 1,
           disk'.halt.uncertain # NoStep =>
               /\ disk'.halt.on
               /\ disk'.halt.uncertain <= Len(disk'.journal) + 1
               /\ disk'.intent \in {NoStep, disk'.halt.uncertain},
           \A r \in DOMAIN requests :
               Open(r) => \/ requests[r].step <= Len(disk'.journal)
                          \/ requests[r].step = disk'.intent,
           Len(disk'.journal) \in {Len(mem'.journal), Len(mem'.journal) + 1},
           mem'.intent <= Len(mem'.journal) + 1,
           disk'.halt.on => mem'.halted,
           mem'.uncertain # NoStep =>
               /\ mem'.halted
               /\ mem'.uncertain <= Len(mem'.journal) + 1
               /\ mem'.intent \in {NoStep, mem'.uncertain}
               /\ mem'.uncertain <= Len(mem'.journal) =>
                      Len(disk'.journal) = Len(mem'.journal),
           \A r \in DOMAIN requests :
               Open(r) => \/ requests[r].step <= Len(mem'.journal)
                          \/ requests[r].step = mem'.intent /\ HeldBack',
           mem'.reconciled \/ ui'.panel = "pending" =>
               mem'.halted \/ mem'.current = Len(mem'.journal) + 1
    PROVE  OperatorInv'
<1>1. /\ JournalTrue(disk.journal) /\ JournalTrue(mem.journal)
      /\ mined' = mined /\ requests' = requests
  BY DEF OperatorInv, DiskRight, MemoryRight
<1>2. JournalTrue(disk.journal)' /\ JournalTrue(mem.journal)'
  <2>1. CASE disk'.journal = disk.journal /\ mem'.journal = mem.journal
    BY <1>1, <2>1 DEF JournalTrue
  <2>2. CASE disk'.journal = disk.journal /\ mem'.journal = j
    BY <1>1, <2>2 DEF JournalTrue
  <2>3. CASE disk'.journal = j /\ mem'.journal = mem.journal
    BY <1>1, <2>3 DEF JournalTrue
  <2>4. CASE disk'.journal = j /\ mem'.journal = j
    BY <1>1, <2>4 DEF JournalTrue
  <2> QED  BY <2>1, <2>2, <2>3, <2>4
<1>3. OneOpen' /\ InPacketOrder' /\ \A r : Open(r)' = Open(r)
  BY WorldKept
<1>4. TasksRight'
  BY IdleRight DEF TasksRight
<1>5. DiskRight'
  BY <1>1, <1>2, <1>3 DEF DiskRight
<1>6. MemoryRight'
  BY <1>1, <1>2, <1>3 DEF MemoryRight
<1> QED  BY <1>3, <1>4, <1>5, <1>6 DEF OperatorInv

LEMMA JournalExtends ==
    ASSUME OperatorInv, NEW x \in Nat, Verified(x, Len(mem.journal) + 1)
    PROVE  LET n == Len(mem.journal)
               j == Append(mem.journal, [step |-> n + 1, tx |-> x])
           IN j \in Seq(Record) /\ Len(j) = n + 1 /\ JournalTrue(j)
<1> DEFINE n == Len(mem.journal)
           e == [step |-> n + 1, tx |-> x]
           j == Append(mem.journal, e)
<1>1. mem.journal \in Seq(Record) /\ n \in Nat /\ e \in Record
  BY LiveFacts DEF Record
<1>2. /\ JournalTrue(mem.journal)
      /\ e.step = n + 1 /\ e.tx = x /\ x # 0 /\ n + 1 \in Steps
      /\ mined[n + 1] = [tx |-> x, ok |-> TRUE]
  BY DEF Verified, OperatorInv, MemoryRight
<1> HIDE DEF e
<1>3. /\ j \in Seq(Record) /\ Len(j) = n + 1
      /\ j[n + 1] = e
      /\ \A k \in 1..n : j[k] = mem.journal[k]
  BY <1>1
<1> HIDE DEF j, n
<1>4. JournalTrue(j)
  <2> SUFFICES ASSUME NEW k \in 1..Len(j)
               PROVE  /\ k \in Steps
                      /\ j[k].step = k /\ j[k].tx # 0
                      /\ mined[k] = [tx |-> j[k].tx, ok |-> TRUE]
    BY DEF JournalTrue
  <2>1. CASE k = n + 1
    BY <2>1, <1>2, <1>3
  <2>2. CASE k # n + 1
    <3>1. k \in 1..n
      BY <2>2, <1>1, <1>3
    <3> QED  BY <3>1, <1>2, <1>3 DEF JournalTrue, n
  <2> QED  BY <2>1, <2>2
<1> QED  BY <1>3, <1>4 DEF j, e, n

LEMMA JournalStepKeeps ==
    ASSUME OperatorInv, NEW t \in Tasks, JournalStep(t)
    PROVE  OperatorInv'
<1> DEFINE n == Len(mem.journal)
           next == Append(mem.journal, [step |-> tasks[t].step, tx |-> tasks[t].tx])
<1>1. /\ UNCHANGED <<requests, mined, reloads>>
      /\ tasks[t].pc = "verify" /\ Returns(t)
      /\ Verified(tasks[t].tx, tasks[t].step)
  BY DEF JournalStep, Unsent
<1>2. PICK o1 \in Outcomes, o2 \in Outcomes, o3 \in Outcomes :
        LET d1 == Put(disk, "journal", next, o1)
            d2 == Put(d1, "pending", NoPending, o2)
            d3 == Put(d2, "intent", NoStep, o3)
            m == [mem EXCEPT !.journal = next, !.pending = NoPending, !.intent = NoStep,
                             !.current = @ + 1,
                             !.reconciled = @ \/ tasks[t].via = "connect"]
        IN \/ /\ RoundTrips(o1)
              /\ Faulty(Fault(o2) + Fault(o3))
              /\ disk' = d3 /\ mem' = m
              /\ IF tasks[t].via = "connect" THEN Render(m) ELSE RenderAfresh(m)
           \/ /\ ~RoundTrips(o1) /\ o2 = "ok" /\ o3 = "ok"
              /\ Faulty(1)
              /\ disk' = d1 /\ mem' = mem
              /\ RenderHalted
  BY DEF JournalStep
<1>3. /\ OthersIdle(t) /\ ~mem.halted /\ mem.uncertain = NoStep
      /\ mem.current = n + 1 /\ tasks[t].step = n + 1
  <2>1. OthersIdle(t) /\ ~mem.halted
    BY <1>1, RunsAlone
  <2> QED  BY <1>1, <2>1, CertainWhenLive DEF OperatorInv, TasksRight, TaskRight
<1>4. tasks[t].tx \in Nat
  BY LiveFacts DEF Handler
<1>5. next \in Seq(Record) /\ Len(next) = n + 1 /\ JournalTrue(next)
  BY <1>1, <1>3, <1>4, JournalExtends
<1>6. /\ n \in Nat /\ Len(disk.journal) \in {n, n + 1}
      /\ disk \in Disk /\ mem \in Memory /\ ui \in Page /\ faults \in Nat
      /\ disk.intent \in Nat /\ disk.intent <= Len(disk.journal) + 1
      /\ mem.intent \in Nat /\ mem.intent <= n + 1 /\ mem.current \in Nat
      /\ NoStep = 0 /\ NoStep \in Nat /\ NoPending \in Record
      /\ mem.reconciled \in BOOLEAN
  BY LiveFacts, BlankTypes DEF Memory
<1>7. ~disk.halt.on /\ disk.halt.uncertain = NoStep
  BY <1>3 DEF OperatorInv, MemoryRight, DiskRight
<1>8. \A r \in DOMAIN requests : Open(r) => requests[r].step <= n + 1
  <2> SUFFICES ASSUME NEW r \in DOMAIN requests, Open(r)
               PROVE  requests[r].step <= n + 1
    OBVIOUS
  <2>1. requests[r].step \in Nat
    BY RequestSteps
  <2>2. requests[r].step <= n \/ requests[r].step = mem.intent
    BY DEF OperatorInv, MemoryRight
  <2> QED  BY <2>1, <2>2, <1>6
<1>9. /\ tasks' \in [Tasks -> Handler]
      /\ \A u \in Tasks : tasks'[u] = Idle
  BY <1>1, <1>3, BlankTypes DEF Returns, Becomes, OthersIdle, OperatorInv, OperatorTypeOK
<1>10. Fault(o2) \in Nat /\ Fault(o3) \in Nat /\ 1 \in Nat
  BY FaultIsNat
<1> HIDE DEF next, n
<1>11. CASE RoundTrips(o1)
  <2> DEFINE d1 == Put(disk, "journal", next, o1)
             d2 == Put(d1, "pending", NoPending, o2)
             d3 == Put(d2, "intent", NoStep, o3)
             c == mem.current + 1
             b == mem.reconciled \/ tasks[t].via = "connect"
             m == [mem EXCEPT !.journal = next, !.pending = NoPending,
                              !.intent = NoStep, !.current = c, !.reconciled = b]
  <2>1. /\ Faulty(Fault(o2) + Fault(o3))
        /\ disk' = d3 /\ mem' = m
        /\ Render(m) \/ RenderAfresh(m)
    BY <1>2, <1>11
  <2>2. d1 \in Disk /\ d1.journal = next /\ d1.intent = disk.intent /\ d1.halt = disk.halt
    BY <1>5, <1>6, <1>11, PutJournal DEF RoundTrips
  <2> HIDE DEF d1
  <2>3. d2 \in Disk /\ d2.journal = next /\ d2.intent = disk.intent /\ d2.halt = disk.halt
    BY <1>6, <2>2, PutPending
  <2> HIDE DEF d2
  <2>4. /\ d3 \in Disk /\ d3.journal = next /\ d3.halt = disk.halt
        /\ d3.intent = IF o3 = "dropped" THEN disk.intent ELSE NoStep
    <3>1. d2 \in Disk /\ o3 \in Outcomes /\ NoStep \in Nat
      BY <1>6, <2>3
    <3>2. /\ d3 \in Disk /\ d3.journal = d2.journal /\ d3.halt = d2.halt
          /\ d3.intent = IF o3 = "dropped" THEN d2.intent ELSE NoStep
      BY <3>1, PutIntent
    <3> HIDE DEF d3
    <3> QED  BY <2>3, <3>2
  <2> HIDE DEF d3
  <2>5. b \in BOOLEAN /\ c \in Nat /\ c = Len(next) + 1
    BY <1>3, <1>5, <1>6
  <2> HIDE DEF b, c
  <2>6. /\ m \in Memory /\ m.journal = next /\ m.intent = NoStep
        /\ m.halted = mem.halted /\ m.uncertain = mem.uncertain /\ m.current = c
    BY <1>5, <1>6, <2>5 DEF Memory
  <2> HIDE DEF m
  <2>7. faults' \in Nat
    BY <1>6, <1>10, <2>1 DEF Faulty
  <2>8. ui' \in Page
    BY <1>6, <2>1, <2>6, RenderTyped
  <2>9. OperatorTypeOK'
    BY <1>1, <1>9, <2>1, <2>4, <2>6, <2>7, <2>8 DEF OperatorInv, OperatorTypeOK
  <2>10. /\ disk'.intent <= Len(disk'.journal) + 1
         /\ mem'.intent <= Len(mem'.journal) + 1
    BY <1>5, <1>6, <2>1, <2>4, <2>6
  <2>11. /\ disk'.journal = next /\ mem'.journal = next
         /\ disk'.halt.uncertain = NoStep /\ ~disk'.halt.on
         /\ mem'.uncertain = NoStep /\ mem'.current = Len(mem'.journal) + 1
         /\ Len(disk'.journal) \in {Len(mem'.journal), Len(mem'.journal) + 1}
    BY <1>3, <1>7, <2>1, <2>4, <2>5, <2>6
  <2>12. /\ \A r \in DOMAIN requests : Open(r) => requests[r].step <= Len(disk'.journal)
         /\ \A r \in DOMAIN requests : Open(r) => requests[r].step <= Len(mem'.journal)
    BY <1>5, <1>8, <2>11
  <2> QED  BY <1>1, <1>5, <1>9, <2>9, <2>10, <2>11, <2>12, JournalKeeps
<1>12. CASE ~RoundTrips(o1)
  <2>1. /\ Faulty(1)
        /\ disk' = Put(disk, "journal", next, o1) /\ mem' = mem
        /\ RenderHalted
    BY <1>2, <1>12
  <2>2. /\ disk' \in Disk /\ disk'.journal \in {disk.journal, next}
        /\ disk'.intent = disk.intent /\ disk'.halt = disk.halt
    BY <1>5, <1>6, <2>1, PutJournal
  <2>3. faults' \in Nat /\ ui' \in Page /\ ui'.panel = "halted"
    BY <1>6, <1>10, <2>1, RenderHaltedTyped DEF Faulty
  <2>4. OperatorTypeOK'
    BY <1>1, <1>6, <1>9, <2>1, <2>2, <2>3 DEF OperatorInv, OperatorTypeOK
  <2>5. /\ Len(disk'.journal) \in {n, n + 1}
        /\ Len(disk.journal) <= Len(disk'.journal)
        /\ Len(disk'.journal) \in Nat
    BY <1>5, <1>6, <2>2
  <2>6. /\ disk'.intent <= Len(disk'.journal) + 1
        /\ mem'.intent <= Len(mem'.journal) + 1
        /\ Len(disk'.journal) \in {Len(mem'.journal), Len(mem'.journal) + 1}
    BY <1>6, <2>1, <2>2, <2>5 DEF n
  <2>7. \A r \in DOMAIN requests :
            Open(r) => \/ requests[r].step <= Len(disk'.journal)
                       \/ requests[r].step = disk'.intent
    <3> SUFFICES ASSUME NEW r \in DOMAIN requests, Open(r)
                 PROVE  \/ requests[r].step <= Len(disk'.journal)
                        \/ requests[r].step = disk'.intent
      OBVIOUS
    <3>1. requests[r].step \in Nat /\ Len(disk.journal) \in Nat
      BY RequestSteps, LiveFacts
    <3>2. \/ requests[r].step <= Len(disk.journal)
          \/ requests[r].step = disk.intent
      BY LiveFacts
    <3> QED  BY <3>1, <3>2, <2>2, <2>5
  <2>8. \A r \in DOMAIN requests :
            Open(r) => requests[r].step <= Len(mem'.journal)
                         \/ (requests[r].step = mem'.intent /\ HeldBack')
    <3>1. HeldBack => mem.pending.step = mem.intent
      <4>1. \A u \in Tasks : tasks[u].pc # "asked"
        BY <1>1, <1>3, BlankTypes DEF OthersIdle
      <4> QED  BY <1>3, <4>1 DEF HeldBack
    <3>2. HeldBack => HeldBack'
      BY <2>1, <3>1 DEF HeldBack
    <3> QED  BY <2>1, <3>2 DEF OperatorInv, MemoryRight
  <2>9. /\ mem'.journal = mem.journal /\ disk'.halt.uncertain = NoStep
        /\ ~disk'.halt.on /\ mem'.uncertain = NoStep
        /\ mem'.reconciled \/ ui'.panel = "pending" =>
               mem'.current = Len(mem'.journal) + 1
    BY <1>3, <1>7, <2>1, <2>2, <2>3 DEF n
  <2> QED  BY <1>1, <1>5, <1>9, <2>2, <2>4, <2>6, <2>7, <2>8, <2>9, JournalKeeps
<1> QED  BY <1>11, <1>12

(* The journal that resolveUncertainSend writes *)
Resolved(x, s) ==
    [k \in 1..(IF s > Len(mem.journal) THEN s ELSE Len(mem.journal)) |->
        CASE k = s -> [step |-> s, tx |-> x]
          [] k # s /\ k <= Len(mem.journal) -> mem.journal[k]
          [] OTHER -> NoPending]

LEMMA JournalResolved ==
    ASSUME OperatorInv, NEW x \in Nat, NEW s \in Nat, Verified(x, s),
           s <= Len(mem.journal) + 1
    PROVE  /\ Resolved(x, s) \in Seq(Record) /\ JournalTrue(Resolved(x, s))
           /\ Len(Resolved(x, s)) = IF s > Len(mem.journal) THEN Len(mem.journal) + 1
                                    ELSE Len(mem.journal)
<1> DEFINE N == Len(mem.journal)
           j == Resolved(x, s)
           M == IF s > N THEN s ELSE N
           e == [step |-> s, tx |-> x]
<1>1. /\ mem.journal \in Seq(Record) /\ N \in Nat /\ e \in Record
      /\ \A k \in 1..N : mem.journal[k] \in Record
  <2>1. mem.journal \in Seq(Record)
    BY LiveFacts
  <2>2. e \in Record
    BY DEF Record
  <2>3. N \in Nat /\ \A k \in 1..N : mem.journal[k] \in Record
    BY <2>1
  <2> QED  BY <2>1, <2>2, <2>3
<1>2. M \in Nat /\ M = IF s > N THEN N + 1 ELSE N
  BY <1>1
<1>3. /\ s \in Steps /\ x # 0 /\ mined[s] = [tx |-> x, ok |-> TRUE]
      /\ e.step = s /\ e.tx = x
  BY DEF Verified
<1> HIDE DEF e
<1>4. ASSUME NEW k \in 1..M
      PROVE  (CASE k = s -> e
                [] k # s /\ k <= N -> mem.journal[k]
                [] OTHER -> NoPending)
             = IF k = s THEN e ELSE mem.journal[k]
  <2>1. CASE k = s
    BY <2>1
  <2>2. CASE k # s
    <3>1. k <= N
      BY <2>2, <1>1, <1>2
    <3> QED  BY <2>2, <3>1
  <2> QED  BY <2>1, <2>2
<1>5. j = [k \in 1..M |-> IF k = s THEN e ELSE mem.journal[k]]
  BY <1>4 DEF e, Resolved
<1>6. \A k \in 1..M : k = s \/ k \in 1..N
  BY <1>1, <1>2
<1> HIDE DEF M, j, N
<1>7. \A k \in 1..M : j[k] = IF k = s THEN e ELSE mem.journal[k]
  BY <1>5
<1>8. \A k \in 1..M : j[k] \in Record
  BY <1>1, <1>6, <1>7
<1>9. j \in Seq(Record) /\ Len(j) = M
  <2>1. j \in [1..M -> Record]
    BY <1>5, <1>8
  <2>2. j \in Seq(Record)
    BY <1>2, <2>1
  <2> QED  BY <1>2, <2>1, <2>2
<1>10. JournalTrue(j)
  <2> SUFFICES ASSUME NEW k \in 1..M
               PROVE  /\ k \in Steps
                      /\ j[k].step = k /\ j[k].tx # 0
                      /\ mined[k] = [tx |-> j[k].tx, ok |-> TRUE]
    BY <1>9 DEF JournalTrue
  <2>1. CASE k = s
    BY <2>1, <1>3, <1>7
  <2>2. CASE k # s
    <3>1. k \in 1..Len(mem.journal) /\ j[k] = mem.journal[k]
      BY <2>2, <1>6, <1>7 DEF N
    <3>2. JournalTrue(mem.journal)
      BY DEF OperatorInv, MemoryRight
    <3> QED  BY <3>1, <3>2 DEF JournalTrue
  <2> QED  BY <2>1, <2>2
<1> QED  BY <1>2, <1>9, <1>10 DEF N, j

LEMMA ResolveKeeps ==
    ASSUME OperatorInv, NEW r \in DOMAIN requests, ResolveUncertainSend(r)
    PROVE  OperatorInv'
<1> DEFINE s == mem.uncertain
           n == Len(mem.journal)
           next == [k \in 1..(IF s > Len(mem.journal) THEN s ELSE Len(mem.journal)) |->
                       CASE k = s -> [step |-> s, tx |-> r]
                         [] k # s /\ k <= Len(mem.journal) -> mem.journal[k]
                         [] OTHER -> NoPending]
<1>1. /\ UNCHANGED <<ui, tasks, requests, mined, reloads>>
      /\ s # NoStep /\ Verified(r, s)
  BY DEF ResolveUncertainSend, Unsent
<1>2. PICK o1 \in Outcomes, o2 \in Outcomes, o3 \in Outcomes :
        LET d1 == Put(disk, "journal", next, o1)
            d3 == Put(Put(d1, "intent", NoStep, o2), "halt", NoHalt, o3)
            m == [mem EXCEPT !.journal = next]
        IN /\ Faulty(Fault(o1) + Fault(o2) + Fault(o3))
           /\ IF RoundTrips(o1)
                 THEN /\ disk' = d3
                      /\ mem' = IF RoundTrips(o2) /\ RoundTrips(o3)
                                   THEN [m EXCEPT !.uncertain = NoStep, !.intent = NoStep,
                                                  !.halted = FALSE,
                                                  !.current = Len(next) + 1]
                                   ELSE m
                 ELSE /\ o2 = "ok" /\ o3 = "ok"
                      /\ disk' = d1 /\ mem' = mem
  BY DEF ResolveUncertainSend
<1>3. /\ mem.halted /\ s <= n + 1 /\ mem.intent \in {NoStep, s}
      /\ s <= n => Len(disk.journal) = n
  BY <1>1 DEF OperatorInv, MemoryRight
<1>4. /\ n \in Nat /\ s \in Nat /\ Len(disk.journal) \in {n, n + 1}
      /\ disk \in Disk /\ mem \in Memory /\ faults \in Nat
      /\ disk.intent \in Nat /\ disk.intent <= Len(disk.journal) + 1
      /\ mem.intent \in Nat /\ NoStep = 0
      /\ disk.halt.uncertain \in Nat
  BY LiveFacts, BlankTypes DEF Memory, Disk
<1>5. r \in Nat
  BY DEF OperatorInv, OperatorTypeOK
<1>6. /\ next \in Seq(Record) /\ JournalTrue(next)
      /\ Len(next) = IF s > n THEN n + 1 ELSE n
  <2> HIDE DEF s, n
  <2>1. next = Resolved(r, s)
    BY DEF Resolved, s
  <2> HIDE DEF next
  <2>2. s <= Len(mem.journal) + 1
    BY <1>3 DEF n
  <2>3. /\ Resolved(r, s) \in Seq(Record) /\ JournalTrue(Resolved(r, s))
        /\ Len(Resolved(r, s)) = IF s > Len(mem.journal) THEN Len(mem.journal) + 1
                                 ELSE Len(mem.journal)
    BY <1>1, <1>4, <1>5, <2>2, JournalResolved
  <2> QED  BY <2>1, <2>3 DEF n
<1>7. \A t \in Tasks : tasks'[t] = Idle
  BY <1>1, <1>3 DEF OperatorInv, TasksRight, TaskRight
<1> HIDE DEF next, s, n
<1>8. /\ Len(next) \in Nat /\ Len(disk.journal) <= Len(next) /\ s <= Len(next)
      /\ Len(next) \in {n, n + 1} /\ (s <= n => Len(next) = n)
  BY <1>3, <1>4, <1>6
<1>9. \A q \in DOMAIN requests : Open(q) => requests[q].step <= Len(next)
  <2> SUFFICES ASSUME NEW q \in DOMAIN requests, Open(q)
               PROVE  requests[q].step <= Len(next)
    OBVIOUS
  <2>1. requests[q].step \in Nat
    BY RequestSteps
  <2>2. requests[q].step <= n \/ requests[q].step = mem.intent
    BY DEF OperatorInv, MemoryRight, n
  <2> QED  BY <2>1, <2>2, <1>3, <1>4, <1>8
<1>10. disk.halt.uncertain # NoStep =>
           /\ disk.halt.on
           /\ disk.halt.uncertain <= Len(disk.journal) + 1
           /\ disk.intent \in {NoStep, disk.halt.uncertain}
  BY DEF OperatorInv, DiskRight
<1>11. faults' \in Nat
  <2>1. Fault(o1) \in Nat /\ Fault(o2) \in Nat /\ Fault(o3) \in Nat
    BY FaultIsNat
  <2>2. Faulty(Fault(o1) + Fault(o2) + Fault(o3))
    BY <1>2
  <2> QED  BY <1>4, <2>1, <2>2 DEF Faulty
<1>12. CASE RoundTrips(o1)
  <2> DEFINE d1 == Put(disk, "journal", next, o1)
             d2 == Put(d1, "intent", NoStep, o2)
             d3 == Put(d2, "halt", NoHalt, o3)
  <2>1. disk' = d3
    BY <1>2, <1>12
  <2>2. d1 \in Disk /\ d1.journal = next /\ d1.intent = disk.intent /\ d1.halt = disk.halt
    BY <1>4, <1>6, <1>12, PutJournal DEF RoundTrips
  <2> HIDE DEF d1
  <2>3. /\ d2 \in Disk /\ d2.journal = next /\ d2.halt = disk.halt
        /\ d2.intent = IF o2 = "dropped" THEN disk.intent ELSE NoStep
    <3>1. d1 \in Disk /\ o2 \in Outcomes /\ NoStep \in Nat
      BY <2>2, <1>4
    <3>2. /\ d2 \in Disk /\ d2.journal = d1.journal /\ d2.halt = d1.halt
          /\ d2.intent = IF o2 = "dropped" THEN d1.intent ELSE NoStep
      BY <2>2, <3>1, PutIntent
    <3> HIDE DEF d2
    <3> QED  BY <2>2, <3>2
  <2> HIDE DEF d2
  <2>4. /\ d3 \in Disk /\ d3.journal = next /\ d3.intent = d2.intent
        /\ d3.halt = IF o3 = "dropped" THEN disk.halt ELSE NoHalt
    <3>1. d2 \in Disk /\ o3 \in Outcomes
      BY <2>3
    <3> QED  BY <2>3, <3>1, BlankTypes, PutHalt
  <2> HIDE DEF d3
  <2>5. /\ disk' \in Disk /\ disk'.journal = next
        /\ disk'.intent \in {disk.intent, NoStep}
        /\ disk'.intent <= Len(disk'.journal) + 1
    BY <1>4, <1>8, <2>1, <2>3, <2>4
  <2>6. disk'.halt.uncertain # NoStep =>
            /\ disk'.halt.on
            /\ disk'.halt.uncertain <= Len(disk'.journal) + 1
            /\ disk'.intent \in {NoStep, disk'.halt.uncertain}
    <3>1. CASE disk'.halt = disk.halt
      BY <3>1, <1>4, <1>8, <1>10, <2>5
    <3>2. CASE disk'.halt = NoHalt
      BY <3>2, BlankTypes
    <3> QED  BY <3>1, <3>2, <2>1, <2>4
  <2>7. /\ mem' \in Memory /\ mem'.journal = next
        /\ \/ /\ mem'.halted /\ mem'.uncertain = s /\ mem'.intent = mem.intent
           \/ /\ ~disk'.halt.on
              /\ mem'.uncertain = NoStep /\ mem'.intent = NoStep
              /\ mem'.current = Len(next) + 1
    <3>1. CASE RoundTrips(o2) /\ RoundTrips(o3)
      <4> DEFINE c == Len(next) + 1
      <4>1. c \in Nat
        BY <1>8
      <4> HIDE DEF c
      <4>2. mem' = [[mem EXCEPT !.journal = next] EXCEPT !.uncertain = NoStep,
                       !.intent = NoStep, !.halted = FALSE, !.current = c]
        BY <1>2, <1>12, <3>1 DEF c
      <4>3. /\ mem' \in Memory /\ mem'.journal = next
            /\ mem'.uncertain = NoStep /\ mem'.intent = NoStep /\ mem'.current = c
        BY <1>4, <1>6, <4>1, <4>2 DEF Memory
      <4>4. ~disk'.halt.on
        BY <3>1, <2>1, <2>4, BlankTypes DEF RoundTrips
      <4> QED  BY <4>3, <4>4 DEF c
    <3>2. CASE ~(RoundTrips(o2) /\ RoundTrips(o3))
      <4>1. mem' = [mem EXCEPT !.journal = next]
        BY <1>2, <1>12, <3>2
      <4> QED  BY <1>3, <1>4, <1>6, <4>1 DEF Memory, s
    <3> QED  BY <3>1, <3>2
  <2>8. OperatorTypeOK'
    BY <1>1, <1>11, <2>5, <2>7 DEF OperatorInv, OperatorTypeOK
  <2>9. /\ mem'.intent <= Len(mem'.journal) + 1
        /\ disk'.halt.on => mem'.halted
        /\ mem'.uncertain # NoStep =>
               /\ mem'.halted
               /\ mem'.uncertain <= Len(mem'.journal) + 1
               /\ mem'.intent \in {NoStep, mem'.uncertain}
        /\ mem'.halted \/ mem'.current = Len(mem'.journal) + 1
    BY <1>3, <1>4, <1>8, <2>7
  <2>10. /\ \A q \in DOMAIN requests : Open(q) => requests[q].step <= Len(disk'.journal)
         /\ \A q \in DOMAIN requests : Open(q) => requests[q].step <= Len(mem'.journal)
         /\ Len(disk'.journal) = Len(mem'.journal)
    BY <1>9, <2>5, <2>7
  <2>11. UNCHANGED <<requests, mined>>
    BY <1>1
  <2> QED
    BY <1>6, <1>7, <2>5, <2>6, <2>7, <2>8, <2>9, <2>10, <2>11, JournalKeeps
<1>13. CASE ~RoundTrips(o1)
  <2>1. disk' = Put(disk, "journal", next, o1) /\ mem' = mem
    BY <1>2, <1>13
  <2>2. /\ disk' \in Disk /\ disk'.journal \in {disk.journal, next}
        /\ disk'.intent = disk.intent /\ disk'.halt = disk.halt
    BY <1>4, <1>6, <2>1, PutJournal
  <2>3. OperatorTypeOK'
    BY <1>1, <1>11, <2>1, <2>2 DEF OperatorInv, OperatorTypeOK
  <2>4. /\ Len(disk'.journal) \in {n, n + 1}
        /\ Len(disk.journal) <= Len(disk'.journal)
        /\ Len(disk'.journal) \in Nat
        /\ s <= n => Len(disk'.journal) = n
    BY <1>3, <1>4, <1>8, <2>2
  <2>5. /\ disk'.intent <= Len(disk'.journal) + 1
        /\ Len(disk'.journal) \in {Len(mem'.journal), Len(mem'.journal) + 1}
        /\ mem'.intent <= Len(mem'.journal) + 1
    <3>1. disk'.intent <= Len(disk'.journal) + 1
      BY <1>3, <1>4, <2>2, <2>4
    <3>2. Len(disk'.journal) \in {Len(mem'.journal), Len(mem'.journal) + 1}
      BY <1>3, <1>4, <2>1, <2>4 DEF n
    <3>3. mem'.intent <= Len(mem'.journal) + 1
      BY <1>3, <1>4, <2>1 DEF n
    <3> QED  BY <3>1, <3>2, <3>3
  <2>6. disk'.halt.uncertain # NoStep =>
            /\ disk'.halt.on
            /\ disk'.halt.uncertain <= Len(disk'.journal) + 1
            /\ disk'.intent \in {NoStep, disk'.halt.uncertain}
    BY <1>4, <1>10, <2>2, <2>4
  <2>7. \A q \in DOMAIN requests :
            Open(q) => \/ requests[q].step <= Len(disk'.journal)
                       \/ requests[q].step = disk'.intent
    <3> SUFFICES ASSUME NEW q \in DOMAIN requests, Open(q)
                 PROVE  \/ requests[q].step <= Len(disk'.journal)
                        \/ requests[q].step = disk'.intent
      OBVIOUS
    <3>1. requests[q].step \in Nat /\ Len(disk.journal) \in Nat
      BY RequestSteps, LiveFacts
    <3>2. \/ requests[q].step <= Len(disk.journal)
          \/ requests[q].step = disk.intent
      BY LiveFacts
    <3> QED  BY <3>1, <3>2, <2>2, <2>4
  <2>8. HeldBack'
    BY <1>3, <2>1 DEF HeldBack
  <2>9. \A q \in DOMAIN requests :
            Open(q) => \/ requests[q].step <= Len(mem'.journal)
                       \/ requests[q].step = mem'.intent /\ HeldBack'
    BY <2>1, <2>8 DEF OperatorInv, MemoryRight
  <2>10. /\ mem'.journal = mem.journal /\ mem'.halted /\ mem'.uncertain = s
         /\ mem'.uncertain <= Len(mem'.journal) + 1
         /\ mem'.intent \in {NoStep, mem'.uncertain}
         /\ mem'.uncertain <= Len(mem'.journal) =>
                Len(disk'.journal) = Len(mem'.journal)
    BY <1>3, <2>1, <2>4 DEF n, s
  <2>11. UNCHANGED <<requests, mined>>
    BY <1>1
  <2> QED
    BY <1>6, <1>7, <2>2, <2>3, <2>5, <2>6, <2>7, <2>9, <2>10, <2>11, JournalKeeps
<1> QED  BY <1>12, <1>13

(* eth_sendTransaction: the request for the intended step is the only open  *)
(* one, and the journal before it is mined.                                 *)
LEMMA AskKeeps ==
    ASSUME OperatorInv, NEW t \in Tasks, AskWallet(t)
    PROVE  OperatorInv'
<1> DEFINE n == Len(requests)
           s == tasks[t].step
           new == [step |-> s, answer |-> "none", broadcast |-> FALSE, reviewed |-> FALSE]
<1>1. /\ UNCHANGED <<disk, mem, ui, mined, reloads, faults>>
      /\ tasks[t].pc = "intended"
      /\ requests' = Append(requests, new)
      /\ tasks' = [tasks EXCEPT ![t] = At("asked", s, n + 1, "button")]
  BY DEF AskWallet, Becomes
<1>2. /\ mem.current = Len(mem.journal) + 1 /\ s = mem.current /\ s \in Steps
      /\ mem.pending = NoPending /\ mem.intent = s /\ disk.intent = s
  BY <1>1 DEF OperatorInv, TasksRight, TaskRight
<1>3. OthersIdle(t) /\ ~mem.halted /\ OpenJournaled
  BY <1>1, RunsAlone, NothingOpenBefore
<1>4. new \in Request /\ new.step = s /\ new.answer = "none"
  BY <1>2 DEF Request
<1> HIDE DEF new
<1>5. requests \in Seq(Request) /\ n \in Nat /\ DOMAIN requests = 1..n
  BY DEF OperatorInv, OperatorTypeOK
<1>6. /\ requests' \in Seq(Request) /\ DOMAIN requests' = 1..(n + 1)
      /\ \A r \in 1..n : requests'[r] = requests[r]
      /\ requests'[n + 1] = new
  BY <1>1, <1>4, <1>5
<1>7. s \in Nat /\ Len(mem.journal) \in Nat /\ s = Len(mem.journal) + 1
  BY <1>2, LiveFacts, StepsNatural
<1>8. /\ tasks' \in [Tasks -> Handler]
      /\ tasks'[t].pc = "asked" /\ tasks'[t].step = s /\ tasks'[t].tx = n + 1
      /\ \A u \in Tasks : u # t => tasks'[u] = tasks[u]
  <2> DEFINE task == At("asked", s, n + 1, "button")
  <2>1. task \in Handler /\ task.pc = "asked" /\ task.step = s /\ task.tx = n + 1
    <3>1. n + 1 \in Nat /\ s \in Nat
      BY <1>5, <1>7
    <3>2. "asked" \in Places
      BY DEF Places
    <3> HIDE DEF n, s
    <3> QED  BY <3>1, <3>2, AtTyped
  <2> HIDE DEF task
  <2>2. tasks' = [tasks EXCEPT ![t] = task] /\ tasks \in [Tasks -> Handler]
    BY <1>1, LiveFacts DEF task
  <2> QED  BY <2>1, <2>2
<1> HIDE DEF n, s
<1>9. OperatorTypeOK'
  BY <1>1, <1>6, <1>8 DEF OperatorInv, OperatorTypeOK
<1>10. \A r \in DOMAIN requests' :
          \/ /\ r \in DOMAIN requests /\ requests'[r] = requests[r]
             /\ Open(r)' = Open(r)
          \/ r = n + 1 /\ requests'[r].step = s
  BY <1>4, <1>5, <1>6 DEF Open
<1>11. DiskRight'
  <2>1. \A r \in DOMAIN requests' :
            Open(r)' => \/ requests'[r].step <= Len(disk.journal)
                        \/ requests'[r].step = disk.intent
    BY <1>2, <1>10, LiveFacts
  <2>2. \A j : JournalTrue(j)' = JournalTrue(j)
    BY <1>1 DEF JournalTrue
  <2> QED  BY <1>1, <2>1, <2>2 DEF OperatorInv, DiskRight
<1>12. MemoryRight'
  <2>1. HeldBack'
    BY <1>8 DEF HeldBack
  <2>2. \A r \in DOMAIN requests' :
            Open(r)' => \/ requests'[r].step <= Len(mem.journal)
                        \/ requests'[r].step = mem.intent /\ HeldBack'
    BY <1>2, <1>3, <1>10, <2>1 DEF OpenJournaled
  <2>3. \A j : JournalTrue(j)' = JournalTrue(j)
    BY <1>1 DEF JournalTrue
  <2> QED  BY <1>1, <2>2, <2>3 DEF OperatorInv, MemoryRight
<1>13. TasksRight'
  <2>1. \A u \in Tasks : u # t => tasks'[u] = Idle
    BY <1>3, <1>8 DEF OthersIdle
  <2>2. \A q \in DOMAIN requests' :
            q # n + 1 /\ requests'[q].step = s => ~Open(q)'
    <3> SUFFICES ASSUME NEW q \in DOMAIN requests', q # n + 1,
                        requests'[q].step = s, Open(q)'
                 PROVE  FALSE
      OBVIOUS
    <3>1. q \in DOMAIN requests /\ requests[q].step = s /\ Open(q)
      BY <1>10
    <3>2. requests[q].step <= Len(mem.journal)
      BY <1>3, <3>1 DEF OpenJournaled
    <3> QED  BY <1>7, <3>1, <3>2
  <2>3. TaskRight(t)'
    <3>1. n + 1 \in DOMAIN requests' /\ requests'[n + 1].step = s
      BY <1>4, <1>5, <1>6
    <3> QED  BY <1>1, <1>2, <1>3, <1>8, <2>2, <3>1 DEF TaskRight
  <2>4. \A u \in Tasks : u # t => TaskRight(u)'
    BY <2>1, IdleRight
  <2> QED  BY <2>1, <2>3, <2>4 DEF TasksRight
<1>14. OneOpen'
  <2> SUFFICES ASSUME NEW q \in DOMAIN requests', NEW r \in DOMAIN requests',
                      Open(q)', Open(r)', requests'[q].step = requests'[r].step
               PROVE  q = r
    BY DEF OneOpen
  <2>1. ASSUME NEW x \in DOMAIN requests, Open(x), requests[x].step = s
        PROVE  FALSE
    <3>1. requests[x].step <= Len(mem.journal)
      BY <1>3, <2>1 DEF OpenJournaled
    <3> QED  BY <1>7, <2>1, <3>1
  <2> QED  BY <1>10, <2>1 DEF OperatorInv, OneOpen
<1>15. InPacketOrder'
  <2> SUFFICES ASSUME NEW r \in DOMAIN requests', NEW p \in 1..(requests'[r].step - 1)
               PROVE  mined[p].ok
    BY <1>1 DEF InPacketOrder
  <2>1. CASE r \in DOMAIN requests /\ requests'[r] = requests[r]
    BY <2>1 DEF OperatorInv, InPacketOrder
  <2>2. CASE requests'[r].step = s
    <3>1. p \in 1..Len(mem.journal)
      BY <1>7, <2>2
    <3>2. JournalTrue(mem.journal)
      BY DEF OperatorInv, MemoryRight
    <3>3. mined[p] = [tx |-> mem.journal[p].tx, ok |-> TRUE]
      BY <3>1, <3>2 DEF JournalTrue
    <3> QED  BY <3>3
  <2> QED  BY <1>10, <2>1, <2>2
<1> QED  BY <1>9, <1>11, <1>12, <1>13, <1>14, <1>15 DEF OperatorInv

(* The wallet answers a request: an open one may be rejected, and no other *)
(* becomes open.                                                           *)
LEMMA AnswerKeeps ==
    ASSUME OperatorInv, NEW r \in DOMAIN requests,
           WalletApproves(r) \/ WalletRejects(r) \/ WalletFails(r)
    PROVE  OperatorInv'
<1>1. UNCHANGED <<disk, mem, ui, tasks, mined, reloads, faults>>
  BY DEF WalletApproves, WalletRejects, WalletFails
<1>2. PICK a \in {"hash", "rejected", "error"}, b \in BOOLEAN, c \in BOOLEAN :
        requests' = [requests EXCEPT ![r] =
                        [requests[r] EXCEPT !.answer = a, !.broadcast = b, !.reviewed = c]]
  <2>1. requests \in Seq(Request) /\ requests[r] \in Request
    BY RequestSteps DEF OperatorInv, OperatorTypeOK
  <2>2. CASE WalletApproves(r)
    <3>1. PICK c \in BOOLEAN :
            requests' = [requests EXCEPT ![r].answer = "hash", ![r].broadcast = TRUE,
                                         ![r].reviewed = c]
      BY <2>2 DEF WalletApproves
    <3> QED  BY <3>1, <2>1
  <2>3. CASE WalletRejects(r)
    <3>1. requests' = [requests EXCEPT ![r].answer = "rejected"]
      BY <2>3 DEF WalletRejects
    <3>2. /\ requests[r].broadcast \in BOOLEAN /\ requests[r].reviewed \in BOOLEAN
          /\ [requests[r] EXCEPT !.answer = "rejected"] =
             [requests[r] EXCEPT !.answer = "rejected", !.broadcast = requests[r].broadcast,
                                 !.reviewed = requests[r].reviewed]
      BY <2>1 DEF Request
    <3> QED  BY <3>1, <3>2
  <2>4. CASE WalletFails(r)
    <3>1. PICK b \in BOOLEAN :
            requests' = [requests EXCEPT ![r].answer = "error", ![r].broadcast = b]
      BY <2>4 DEF WalletFails
    <3> DEFINE x == [requests[r] EXCEPT !.answer = "error", !.broadcast = b]
               v == requests[r].reviewed
    <3>2. v \in BOOLEAN
      BY <2>1 DEF Request
    <3>3. x = [requests[r] EXCEPT !.answer = "error", !.broadcast = b, !.reviewed = v]
      BY <2>1 DEF Request
    <3>4. requests' = [requests EXCEPT ![r] = x]
      BY <2>1, <3>1
    <3> HIDE DEF x, v
    <3> QED  BY <3>2, <3>3, <3>4
  <2> QED  BY <2>2, <2>3, <2>4
<1>3. /\ requests \in Seq(Request) /\ requests[r] \in Request
      /\ requests[r].answer = "none"
  BY RequestSteps DEF OperatorInv, OperatorTypeOK, WalletApproves, WalletRejects, WalletFails
<1>4. /\ requests' \in Seq(Request) /\ DOMAIN requests' = DOMAIN requests
      /\ \A q \in DOMAIN requests :
             requests'[q].step = requests[q].step /\ (Open(q)' => Open(q))
  <2> DEFINE new == [requests[r] EXCEPT !.answer = a, !.broadcast = b, !.reviewed = c]
  <2>1. new \in Request /\ new.step = requests[r].step
    BY <1>3 DEF Request
  <2> HIDE DEF new
  <2>2. requests' = [requests EXCEPT ![r] = new]
    BY <1>2 DEF new
  <2> QED  BY <1>3, <2>1, <2>2 DEF Open
<1>5. \A j : JournalTrue(j)' = JournalTrue(j)
  BY <1>1 DEF JournalTrue
<1>6. HeldBack' = HeldBack
  BY <1>1 DEF HeldBack
<1>7. OperatorTypeOK'
  BY <1>1, <1>4 DEF OperatorInv, OperatorTypeOK
<1>8. DiskRight'
  BY <1>1, <1>4, <1>5 DEF OperatorInv, DiskRight
<1>9. MemoryRight'
  BY <1>1, <1>4, <1>5, <1>6 DEF OperatorInv, MemoryRight
<1>10. TasksRight'
  <2>1. \A t \in Tasks : TaskRight(t)'
    <3> SUFFICES ASSUME NEW t \in Tasks
                 PROVE  TaskRight(t)'
      OBVIOUS
    <3>1. TaskRight(t)
      BY DEF OperatorInv, TasksRight
    <3> QED  BY <1>1, <1>4, <3>1 DEF TaskRight
  <2> QED  BY <1>1, <2>1 DEF OperatorInv, TasksRight
<1>11. OneOpen' /\ InPacketOrder'
  BY <1>1, <1>4 DEF OperatorInv, OneOpen, InPacketOrder
<1> QED  BY <1>7, <1>8, <1>9, <1>10, <1>11 DEF OperatorInv

(* A success is of a transaction. *)
MinedRight == \A s \in Steps : mined[s].ok => mined[s].tx # 0

(* A block takes a transaction of a step that had none: what was mined      *)
(* stays.                                                                   *)
LEMMA MineKeeps ==
    ASSUME OperatorInv, MinedRight, NEW r \in DOMAIN requests, Mine(r)
    PROVE  OperatorInv' /\ MinedRight'
<1> DEFINE s == requests[r].step
<1>1. /\ UNCHANGED <<disk, mem, ui, tasks, requests, reloads, faults>>
      /\ mined[s].tx = 0
  BY DEF Mine
<1>2. PICK ok \in BOOLEAN : mined' = [mined EXCEPT ![s] = [tx |-> r, ok |-> ok]]
  BY DEF Mine
<1>3. /\ mined \in [Steps -> [tx : Nat, ok : BOOLEAN]] /\ s \in Steps
      /\ r \in Nat /\ r # 0
  BY RequestSteps DEF OperatorInv, OperatorTypeOK
<1> HIDE DEF s
<1>4. /\ mined' \in [Steps -> [tx : Nat, ok : BOOLEAN]]
      /\ mined'[s].tx # 0
      /\ \A k \in Steps : mined[k].tx # 0 => mined'[k] = mined[k]
      /\ \A k \in Steps : k # s => mined'[k] = mined[k]
  BY <1>1, <1>2, <1>3
<1>5. MinedRight'
  BY <1>4 DEF MinedRight
<1>6. \A j : JournalTrue(j) => JournalTrue(j)'
  BY <1>4 DEF JournalTrue
<1>7. \A q : Open(q)' = Open(q)
  BY <1>1 DEF Open
<1>8. InPacketOrder'
  <2> SUFFICES ASSUME NEW q \in DOMAIN requests, NEW p \in 1..(requests[q].step - 1)
               PROVE  mined'[p].ok
    BY <1>1 DEF InPacketOrder
  <2>1. p \in Steps
    BY RequestSteps, StepsNatural DEF Steps
  <2>2. mined[p].ok
    BY DEF OperatorInv, InPacketOrder
  <2> QED  BY <1>4, <2>1, <2>2 DEF MinedRight
<1>9. OperatorTypeOK' /\ DiskRight' /\ MemoryRight'
  <2>1. OperatorTypeOK'
    BY <1>1, <1>4 DEF OperatorInv, OperatorTypeOK
  <2>2. DiskRight'
    BY <1>1, <1>6, <1>7 DEF OperatorInv, DiskRight
  <2>3. HeldBack' = HeldBack
    BY <1>1 DEF HeldBack
  <2>4. MemoryRight'
    BY <1>1, <1>6, <1>7, <2>3 DEF OperatorInv, MemoryRight
  <2> QED  BY <2>1, <2>2, <2>4
<1>10. TasksRight' /\ OneOpen'
  BY <1>1, <1>7 DEF OperatorInv, TasksRight, TaskRight, OneOpen
<1> QED  BY <1>5, <1>8, <1>9, <1>10 DEF OperatorInv

-----------------------------------------------------------------------------
(* A reload, at any point: what the disk holds is enough.                   *)
LEMMA ReloadKeeps ==
    ASSUME OperatorInv, Reload
    PROVE  OperatorInv'
<1> DEFINE m == Restored(disk)
<1>1. /\ UNCHANGED <<requests, mined>>
      /\ reloads' = reloads + 1
      /\ tasks' = [t \in Tasks |-> Idle]
  BY DEF Reload
<1>2. /\ disk \in Disk /\ ui \in Page /\ disk.intent \in Nat /\ disk.pending \in Record
      /\ disk.journal \in Seq(Record) /\ Len(disk.journal) \in Nat
      /\ disk.halt.uncertain \in Nat /\ faults \in Nat
  BY LiveFacts DEF Disk
<1>3. /\ m \in Memory /\ m.journal = disk.journal /\ m.pending = disk.pending
      /\ m.intent = disk.intent /\ ~m.reconciled
      /\ disk.halt.on => m.halted
      /\ m.uncertain # disk.halt.uncertain => m.uncertain = disk.intent /\ m.halted
      /\ \/ m.halted \/ disk.intent = NoStep \/ disk.halt.uncertain # NoStep
         \/ \E k \in DOMAIN disk.journal : disk.journal[k].step = disk.intent
         \/ disk.pending.step = disk.intent
  BY <1>2, RestoredFields
<1> HIDE DEF m
<1>4. \E o \in Outcomes :
        \/ /\ mem' = m /\ disk' = disk /\ faults' = faults
           /\ ui' = Panel(IF m.halted THEN "halted" ELSE "blank", FALSE, ~m.halted)
        \/ /\ mem' = [m EXCEPT !.halted = TRUE, !.uncertain = m.uncertain]
           /\ disk' = Put(disk, "halt", [on |-> TRUE, uncertain |-> m.uncertain], o)
           /\ Faulty(Fault(o))
           /\ ui' = Panel("blank", FALSE, FALSE)
  BY DEF Reload, PersistHalt, m, Outcomes
<1>5. PICK o \in Outcomes :
        \/ /\ mem' = m /\ disk' = disk /\ faults' = faults
           /\ ui' = Panel(IF m.halted THEN "halted" ELSE "blank", FALSE, ~m.halted)
        \/ /\ mem' = [m EXCEPT !.halted = TRUE, !.uncertain = m.uncertain]
           /\ disk' = Put(disk, "halt", [on |-> TRUE, uncertain |-> m.uncertain], o)
           /\ Faulty(Fault(o))
           /\ ui' = Panel("blank", FALSE, FALSE)
  BY <1>4
<1>6. m.uncertain \in Nat /\ m.halted \in BOOLEAN
  BY <1>3 DEF Memory
<1>7. /\ mem' \in Memory /\ mem'.journal = m.journal /\ mem'.pending = m.pending
      /\ mem'.intent = m.intent /\ ~mem'.reconciled /\ mem'.uncertain = m.uncertain
      /\ m.halted => mem'.halted
      /\ disk'.halt # disk.halt => mem'.halted
  <2>1. CASE mem' = m /\ disk' = disk
    BY <2>1, <1>3
  <2>2. CASE mem' = [m EXCEPT !.halted = TRUE, !.uncertain = m.uncertain]
    BY <2>2, <1>3, <1>6 DEF Memory
  <2> QED  BY <1>5, <2>1, <2>2
<1>8. /\ disk' \in Disk /\ disk'.journal = disk.journal /\ disk'.intent = disk.intent
      /\ \/ disk'.halt = disk.halt
         \/ disk'.halt = [on |-> TRUE, uncertain |-> m.uncertain]
  <2>1. CASE disk' = disk
    BY <2>1, <1>2
  <2>2. CASE disk' = Put(disk, "halt", [on |-> TRUE, uncertain |-> m.uncertain], o)
    <3> DEFINE v == [on |-> TRUE, uncertain |-> m.uncertain]
    <3>1. v \in [on : BOOLEAN, uncertain : Nat]
      BY <1>6
    <3> HIDE DEF v
    <3>2. disk' = Put(disk, "halt", v, o)
      BY <2>2 DEF v
    <3>3. /\ disk' \in Disk /\ disk'.journal = disk.journal /\ disk'.intent = disk.intent
          /\ disk'.halt = IF o = "dropped" THEN disk.halt ELSE v
      BY <1>2, <3>1, <3>2, PutHalt
    <3> QED  BY <3>3 DEF v
  <2> QED  BY <1>5, <2>1, <2>2
<1>9. ui' \in Page /\ ui'.panel # "pending"
  <2> DEFINE p == IF m.halted THEN "halted" ELSE "blank"
             c == ~m.halted
  <2>1. p \in {"blank", "halted"}
    OBVIOUS
  <2>2. c \in BOOLEAN
    OBVIOUS
  <2> HIDE DEF p, c
  <2>3. ui' = Panel(p, FALSE, c) \/ ui' = Panel("blank", FALSE, FALSE)
    BY <1>5 DEF p, c
  <2>4. Panel(p, FALSE, c) \in Page /\ Panel(p, FALSE, c).panel = p
    BY <1>2, <2>1, <2>2, PanelTyped
  <2>5. /\ Panel("blank", FALSE, FALSE) \in Page
        /\ Panel("blank", FALSE, FALSE).panel = "blank"
    BY <1>2, PanelTyped
  <2> QED  BY <2>1, <2>3, <2>4, <2>5
<1>10. faults' \in Nat
  BY <1>2, <1>5, FaultIsNat, FaultsTyped
<1>11. OperatorTypeOK'
  <2>1. tasks' \in [Tasks -> Handler]
    BY <1>1, BlankTypes
  <2> QED  BY <1>1, <1>7, <1>8, <1>9, <1>10, <2>1 DEF OperatorInv, OperatorTypeOK
<1>12. /\ JournalTrue(disk.journal)
       /\ disk.intent <= Len(disk.journal) + 1
       /\ disk.halt.uncertain # NoStep =>
            /\ disk.halt.on
            /\ disk.halt.uncertain <= Len(disk.journal) + 1
            /\ disk.intent \in {NoStep, disk.halt.uncertain}
       /\ \A r \in DOMAIN requests :
            Open(r) => \/ requests[r].step <= Len(disk.journal)
                       \/ requests[r].step = disk.intent
  BY DEF OperatorInv, DiskRight
<1>13. m.uncertain # NoStep =>
          /\ m.halted
          /\ m.uncertain <= Len(disk.journal) + 1
          /\ disk.intent \in {NoStep, m.uncertain}
  BY <1>3, <1>12
<1>14. disk'.halt.uncertain # NoStep =>
          /\ disk'.halt.on
          /\ disk'.halt.uncertain <= Len(disk.journal) + 1
          /\ disk.intent \in {NoStep, disk'.halt.uncertain}
  <2>1. CASE disk'.halt = disk.halt
    BY <2>1, <1>12
  <2>2. CASE disk'.halt = [on |-> TRUE, uncertain |-> m.uncertain]
    <3>1. disk'.halt.on /\ disk'.halt.uncertain = m.uncertain
      BY <2>2
    <3> QED  BY <3>1, <1>13
  <2> QED  BY <1>8, <2>1, <2>2
<1>15. \A r \in DOMAIN requests :
          Open(r) => \/ requests[r].step <= Len(disk.journal)
                     \/ requests[r].step = disk.intent /\ HeldBack'
  <2> SUFFICES ASSUME NEW r \in DOMAIN requests, Open(r),
                      requests[r].step = disk.intent
               PROVE  requests[r].step <= Len(disk.journal) \/ HeldBack'
    BY <1>12
  <2>1. disk.intent # NoStep
    BY RequestSteps, BlankTypes
  <2>2. CASE m.halted \/ disk.halt.uncertain # NoStep
    BY <2>2, <1>3, <1>7, <1>12 DEF HeldBack
  <2>3. CASE disk.pending.step = disk.intent
    BY <2>3, <1>3, <1>7 DEF HeldBack
  <2>4. ASSUME NEW k \in DOMAIN disk.journal, disk.journal[k].step = disk.intent
        PROVE  requests[r].step <= Len(disk.journal)
    <3>1. k \in 1..Len(disk.journal)
      BY <1>2
    <3>2. disk.journal[k].step = k
      BY <1>12, <3>1 DEF JournalTrue
    <3> QED  BY <2>4, <3>1, <3>2
  <2> QED  BY <1>3, <2>1, <2>2, <2>3, <2>4
<1>16. disk'.halt.on => mem'.halted
  BY <1>3, <1>7
<1>17. \A t \in Tasks : tasks'[t] = Idle
  BY <1>1
<1>18. /\ disk'.journal = disk.journal /\ mem'.journal = disk.journal
       /\ disk'.intent = disk.intent /\ mem'.intent = disk.intent
  BY <1>3, <1>7, <1>8
<1>19. mem'.uncertain # NoStep =>
          /\ mem'.halted
          /\ mem'.uncertain <= Len(disk.journal) + 1
          /\ disk.intent \in {NoStep, mem'.uncertain}
  BY <1>7, <1>13
<1> QED
  BY <1>1, <1>2, <1>7, <1>9, <1>11, <1>12, <1>14, <1>15, <1>16, <1>17, <1>18, <1>19,
     JournalKeeps

LEMMA InitRight == OpInit => OperatorInv /\ MinedRight
<1> SUFFICES ASSUME OpInit
             PROVE  OperatorInv /\ MinedRight
  OBVIOUS
<1>1. /\ disk = [journal |-> <<>>, pending |-> NoPending, intent |-> NoStep,
                 halt |-> NoHalt]
      /\ mem = Restored(disk)
      /\ ui = Panel("blank", FALSE, TRUE)
      /\ tasks = [t \in Tasks |-> Idle]
      /\ requests = <<>>
      /\ mined = [s \in Steps |-> [tx |-> 0, ok |-> FALSE]]
      /\ reloads = 0 /\ faults = 0
  BY DEF OpInit
<1>2. /\ disk \in Disk /\ disk.journal = <<>> /\ disk.intent = 0
      /\ ~disk.halt.on /\ disk.halt.uncertain = 0
  BY <1>1, BlankTypes DEF Disk
<1>3. /\ mem \in Memory /\ mem.journal = <<>> /\ mem.intent = 0 /\ ~mem.reconciled
      /\ mem.uncertain = 0
  BY <1>1, <1>2, RestoredFields
<1>4. ui \in Page /\ ui.panel = "blank"
  BY <1>1 DEF Panel, Page
<1>5. DOMAIN requests = {} /\ requests \in Seq(Request)
  BY <1>1
<1>6. JournalTrue(<<>>)
  BY DEF JournalTrue
<1>7. OperatorTypeOK
  BY <1>1, <1>2, <1>3, <1>4, <1>5, BlankTypes DEF OperatorTypeOK
<1>8. DiskRight
  BY <1>2, <1>5, <1>6, BlankTypes DEF DiskRight
<1>9. MemoryRight
  BY <1>2, <1>3, <1>4, <1>5, <1>6, BlankTypes DEF MemoryRight
<1>10. TasksRight
  BY <1>1, BlankTypes DEF TasksRight, TaskRight
<1>11. OneOpen /\ InPacketOrder /\ MinedRight
  BY <1>1, <1>5 DEF OneOpen, InPacketOrder, MinedRight
<1> QED  BY <1>7, <1>8, <1>9, <1>10, <1>11 DEF OperatorInv

LEMMA StutterKeeps ==
    ASSUME OperatorInv, UNCHANGED opVars
    PROVE  OperatorInv'
BY DEF OperatorInv, OperatorTypeOK, DiskRight, JournalTrue, MemoryRight, HeldBack,
       TasksRight, TaskRight, OneOpen, Open, InPacketOrder, opVars

-----------------------------------------------------------------------------
(* Only a block changes what is mined. *)
LEMMA MinedKept ==
    ASSUME MinedRight, UNCHANGED mined
    PROVE  MinedRight'
BY DEF MinedRight

LEMMA StepKeeps ==
    ASSUME OperatorInv, MinedRight, ~Overlap, OpNext
    PROVE  OperatorInv' /\ MinedRight'
<1>1. CASE Reload
  BY <1>1, ReloadKeeps, MinedKept DEF Reload
<1>2. CASE Confirm
  BY <1>2, ConfirmKeeps, MinedKept DEF Confirm, Unsent
<1>3. ASSUME NEW r \in DOMAIN requests,
             \/ WalletApproves(r) \/ WalletRejects(r) \/ WalletFails(r)
             \/ Mine(r) \/ ResolveUncertainSend(r)
      PROVE  OperatorInv' /\ MinedRight'
  <2>1. CASE WalletApproves(r) \/ WalletRejects(r) \/ WalletFails(r)
    <3>1. UNCHANGED mined
      BY <2>1 DEF WalletApproves, WalletRejects, WalletFails
    <3> QED  BY <2>1, <3>1, AnswerKeeps, MinedKept
  <2>2. CASE Mine(r)
    BY <2>2, MineKeeps
  <2>3. CASE ResolveUncertainSend(r)
    <3>1. UNCHANGED mined
      BY <2>3 DEF ResolveUncertainSend, Unsent
    <3> QED  BY <2>3, <3>1, ResolveKeeps, MinedKept
  <2> QED  BY <1>3, <2>1, <2>2, <2>3
<1>4. ASSUME NEW t \in Tasks,
             \/ Connect(t) \/ ReconcileJournal(t) \/ PendingUnresolved(t)
             \/ PendingFound(t) \/ ResumeVerify(t) \/ JournalStep(t)
             \/ VerifyFails(t) \/ ProviderThrows(t)
      PROVE  OperatorInv' /\ MinedRight'
  <2>1. UNCHANGED mined
    BY <1>4 DEF Connect, ReconcileJournal, PendingUnresolved, PendingFound, ResumeVerify,
                JournalStep, VerifyFails, ProviderThrows, Unsent
  <2> SUFFICES OperatorInv'
    BY <2>1, MinedKept
  <2>2. CASE Connect(t)
    BY <2>2, ConnectKeeps
  <2>3. CASE ReconcileJournal(t)
    BY <2>3, ReconcileKeeps
  <2>4. CASE PendingUnresolved(t)
    BY <2>4, UnresolvedKeeps
  <2>5. CASE PendingFound(t) \/ ResumeVerify(t)
    BY <2>5, ResumeKeeps
  <2>6. CASE JournalStep(t)
    BY <2>6, JournalStepKeeps
  <2>7. CASE VerifyFails(t)
    BY <2>7, FailureKeeps
  <2>8. CASE ProviderThrows(t)
    BY <2>8, ReturnKeeps
  <2> QED  BY <1>4, <2>2, <2>3, <2>4, <2>5, <2>6, <2>7, <2>8
<1>5. ASSUME NEW t \in Tasks,
             \/ Precheck(t) \/ PrecheckPasses(t) \/ GateFails(t) \/ WrongAccount(t)
             \/ Send(t) \/ SendGatesPass(t) \/ PersistIntent(t) \/ ChainRefused(t)
             \/ AskWallet(t) \/ OnRejected(t) \/ OnUncertain(t) \/ OnHash(t)
      PROVE  OperatorInv' /\ MinedRight'
  <2>1. UNCHANGED mined
    BY <1>5 DEF Precheck, PrecheckPasses, GateFails, WrongAccount, Send, SendGatesPass,
                PersistIntent, ChainRefused, AskWallet, OnRejected, OnUncertain, OnHash,
                Unsent
  <2> SUFFICES OperatorInv'
    BY <2>1, MinedKept
  <2>2. CASE Precheck(t) \/ Send(t)
    BY <2>2, ButtonKeeps
  <2>3. CASE PrecheckPasses(t) \/ WrongAccount(t)
    BY <2>3, ReturnKeeps
  <2>4. CASE GateFails(t)
    BY <2>4, FailureKeeps
  <2>5. CASE SendGatesPass(t)
    BY <2>5, SendGatesPassKeeps
  <2>6. CASE PersistIntent(t)
    BY <2>6, IntentKeeps
  <2>7. CASE ChainRefused(t)
    BY <2>7, RefusedKeeps
  <2>8. CASE AskWallet(t)
    BY <2>8, AskKeeps
  <2>9. CASE OnRejected(t)
    BY <2>9, RejectedKeeps
  <2>10. CASE OnUncertain(t)
    BY <2>10, UncertainKeeps
  <2>11. CASE OnHash(t)
    BY <2>11, HashKeeps
  <2> QED  BY <1>5, <2>2, <2>3, <2>4, <2>5, <2>6, <2>7, <2>8, <2>9, <2>10, <2>11
<1> QED  BY <1>1, <1>2, <1>3, <1>4, <1>5 DEF OpNext

(* The inductive invariant holds in every state of the operator: what the   *)
(* disk, the page and the one running handler know of each request, whoever *)
(* reloads the page and whichever durable write fails.                      *)
THEOREM OperatorInvariant ==
    ASSUME ~Overlap
    PROVE  OpSpec => [](OperatorInv /\ MinedRight)
<1>1. OpInit => OperatorInv /\ MinedRight
  BY InitRight
<1>2. OperatorInv /\ MinedRight /\ [OpNext]_opVars => (OperatorInv /\ MinedRight)'
  <2> SUFFICES ASSUME OperatorInv, MinedRight, [OpNext]_opVars
               PROVE  OperatorInv' /\ MinedRight'
    OBVIOUS
  <2>1. CASE OpNext
    BY <2>1, StepKeeps
  <2>2. CASE UNCHANGED opVars
    <3>1. UNCHANGED mined
      BY <2>2 DEF opVars
    <3> QED  BY <2>2, <3>1, StutterKeeps, MinedKept
  <2> QED  BY <2>1, <2>2
<1> QED  BY <1>1, <1>2, PTL DEF OpSpec

(* At most one open request for each step, counted *)
LEMMA OneOpenCounted ==
    ASSUME OperatorInv
    PROVE  NeverBlindRetry
<1> SUFFICES ASSUME NEW s \in Steps
             PROVE  Cardinality({r \in DOMAIN requests :
                        requests[r].step = s /\ requests[r].answer # "rejected"}) <= 1
  BY DEF NeverBlindRetry
<1> DEFINE S == {r \in DOMAIN requests :
                    requests[r].step = s /\ requests[r].answer # "rejected"}
<1>1. \A q, r \in S : q = r
  BY DEF OperatorInv, OneOpen, Open
<1>2. CASE S = {}
  <2>1. Cardinality(S) = 0
    BY <1>2, FS_EmptySet
  <2> QED  BY <2>1
<1>3. CASE S # {}
  <2>1. PICK r : r \in S
    BY <1>3
  <2>2. S = {r}
    BY <1>1, <2>1
  <2>3. Cardinality(S) = 1
    BY <2>2, FS_Singleton
  <2> QED  BY <2>3
<1> QED  BY <1>2, <1>3

(* "Never a blind retry" (recovery-core.mjs): for a user who waits for each *)
(* handler, whatever is reloaded, answered or not written, the wallet is    *)
(* never asked for a step whose earlier request may have moved value.       *)
THEOREM NoBlindRetry ==
    ASSUME ~Overlap
    PROVE  OpSpec => []NeverBlindRetry
<1>1. OpSpec => [](OperatorInv /\ MinedRight)
  BY OperatorInvariant
<1>2. OperatorInv /\ MinedRight => NeverBlindRetry
  BY OneOpenCounted
<1> QED  BY <1>1, <1>2, PTL

(* sendCurrent asks for a transaction only when every earlier one of the    *)
(* packet was mined and succeeded.                                          *)
THEOREM PacketOrderKept ==
    ASSUME ~Overlap
    PROVE  OpSpec => []InPacketOrder
<1>1. OpSpec => [](OperatorInv /\ MinedRight)
  BY OperatorInvariant
<1>2. OperatorInv /\ MinedRight => InPacketOrder
  BY DEF OperatorInv
<1> QED  BY <1>1, <1>2, PTL

-----------------------------------------------------------------------------
(* The packet tools: types.                                                 *)

BlockName == Nat \X Nat
ChainBlock == [id : BlockName, at : Nat, deployer : Nat, code : Code]
SnapshotFile == [number : Nat, id : BlockName, at : Nat, deployer : Nat, code : Code]
PolicyBlock == [number : Nat, id : BlockName, at : Nat]
Observation == [price : Quotes, at : Nat]
PriceFile == [sources : Observation \X Observation, at : Nat, selected : Quotes]
Authorization == [block : PolicyBlock, startNonce : Nat, snapshotNonce : Nat,
                  code : Code, gas : Nat, aggregate : Nat, generated : Nat,
                  expires : Nat]
PolicyFile == [block : PolicyBlock \cup {None}, deployer : Nat,
               anchor : Authorization \cup {None}]
Packet == [block : PolicyBlock, deployer : Nat, price : PriceFile, gas : Nat,
           aggregate : Nat, generated : Nat, expires : Nat, ranOn : Code,
           anchor : Authorization \cup {None}]
Files == [snapshot : SnapshotFile \cup {None}, price : PriceFile \cup {None},
          packaged : Authorization \cup {None}, packet : Packet \cup {None},
          manifest : Nat \cup {None}, policy : PolicyFile]

BoundPolicy == [block : PolicyBlock, deployer : Nat,
                anchor : Authorization \cup {None}]
Reading == [pc : {"read"}, policy : BoundPolicy, price : PriceFile, generated : Nat]
Rehearsing == [pc : {"rehearsed"}, policy : BoundPolicy, packet : Packet]
WritingPacket == [pc : {"built", "policy", "packaged", "packet"}, object : Authorization,
                  policy : BoundPolicy, packet : Packet]

Pinned == [pc : {"pinned"}, number : Nat, id : BlockName, at : Nat]
FetchedOne == [pc : {"first"}, first : Observation]
FetchedBoth == [pc : {"second"}, sources : Observation \X Observation]
Asking == [pc : {"nonces", "code"}, ok : BOOLEAN, packet : Packet,
           snapshot : SnapshotFile]
Passed == [pc : {"passed"}, packet : Packet, code : Code]

ChainTyped == blocks \in Seq(ChainBlock) /\ Height >= 1 /\ reorgs \in Nat
CaptureTyped == capturing \in {Off} \cup Pinned
CollectTyped == collecting \in {Off} \cup FetchedOne \cup FetchedBoth
GenerateTyped == generating \in {Off} \cup Reading \cup Rehearsing \cup WritingPacket
CheckTyped == checking \in {Off} \cup Asking \cup Passed

PacketTypeOK ==
    /\ clock \in Nat
    /\ ChainTyped
    /\ fork \in ChainBlock \cup {None}
    /\ file \in Files
    /\ CaptureTyped
    /\ CollectTyped
    /\ GenerateTyped
    /\ CheckTyped

Alone ==
    /\ generating # Off => capturing = Off
    /\ checking.pc \in {"nonces", "code"} => capturing = Off /\ generating = Off

(* What the observations of a packet and its generation have to do with     *)
(* each other.                                                              *)
WasFresh(price, when) ==
    \A i \in 1..2 : when - price.sources[i].at <= MaxPriceAge
PricesRight ==
    /\ generating.pc = "read" => WasFresh(generating.price, generating.generated)
    /\ generating.pc \in {"rehearsed", "built", "policy", "packaged", "packet"} =>
           WasFresh(generating.packet.price, generating.packet.generated)
    /\ file.packet # None => WasFresh(file.packet.price, file.packet.generated)

(* A block that is still on the chain, at its height *)
Live(number, id) == number \in DOMAIN blocks /\ blocks[number].id = id

(* A name that was once on the chain: it may be gone, and does not come     *)
(* back.                                                                    *)
Known(number, id) == number \in DOMAIN blocks /\ id[2] <= reorgs

(* What a fork, a snapshot and a packet say of the block they name is what  *)
(* the chain says, as long as the block is there.                           *)
BlocksNamed ==
    \A h \in DOMAIN blocks : blocks[h].id[1] = h /\ blocks[h].id[2] <= reorgs

ForkRight ==
    fork # None =>
        /\ Known(fork.id[1], fork.id)
        /\ Live(fork.id[1], fork.id) => blocks[fork.id[1]].code = fork.code

PinRight ==
    capturing.pc = "pinned" =>
        /\ Known(capturing.number, capturing.id)
        /\ capturing.number <= Height - Confirmations

SnapshotRight ==
    file.snapshot # None =>
        /\ Known(file.snapshot.number, file.snapshot.id)
        /\ file.snapshot.number <= Height - Confirmations
        /\ Live(file.snapshot.number, file.snapshot.id) =>
               blocks[file.snapshot.number].code = file.snapshot.code

Rehearsed(packet) ==
    /\ Known(packet.block.number, packet.block.id)
    /\ Live(packet.block.number, packet.block.id) =>
           blocks[packet.block.number].code = packet.ranOn

SnapshotNames(packet) ==
    /\ file.snapshot # None
    /\ file.snapshot.number = packet.block.number
    /\ file.snapshot.id = packet.block.id

(* An authorization of what the packet was rehearsed on *)
Bound(packet, object) ==
    /\ object.code = packet.ranOn
    /\ object.startNonce = packet.deployer
    /\ object.gas = packet.gas
    /\ object.generated = packet.generated

(* A block pinned since the packet's was: a later one, or the same, or one  *)
(* that replaced it.                                                        *)
Later(packet, number, id) ==
    /\ number >= packet.block.number
    /\ number = packet.block.number =>
           id = packet.block.id \/ ~Live(packet.block.number, packet.block.id)

RehearsedRight ==
    generating.pc = "rehearsed" =>
        /\ Rehearsed(generating.packet)
        /\ SnapshotNames(generating.packet) =>
               file.snapshot.code = generating.packet.ranOn

WritingRight ==
    generating.pc \in {"built", "policy", "packaged", "packet"} =>
        /\ Rehearsed(generating.packet)
        /\ SnapshotNames(generating.packet)
        /\ generating.packet.anchor = generating.object
        /\ Bound(generating.packet, generating.object)

WrittenRight ==
    file.packet # None =>
        /\ Rehearsed(file.packet)
        /\ Bound(file.packet, file.packet.anchor)
        /\ file.snapshot # None
        /\ Later(file.packet, file.snapshot.number, file.snapshot.id)
        /\ capturing.pc = "pinned" => Later(file.packet, capturing.number, capturing.id)

(* What a preflight asks is of the files as they are; what it has passed    *)
(* holds of a packet whose snapshot may be captured again.                  *)
AskingRight ==
    checking.pc \in {"nonces", "code"} =>
        /\ file.packet # None /\ file.packet = checking.packet
        /\ file.snapshot # None /\ file.snapshot = checking.snapshot

PassedRight ==
    checking.pc = "passed" =>
        LET p == checking.packet
            same == checking.code = p.ranOn
        IN /\ Known(p.block.number, p.block.id)
           /\ Live(p.block.number, p.block.id) /\ Height - Confirmations <= p.block.number
                  => same
           /\ capturing.pc = "pinned" /\ capturing.number = p.block.number
                  /\ capturing.id = p.block.id => same
           /\ SnapshotNames(p) /\ file.snapshot.code = p.ranOn => same

ChainRight == BlocksNamed /\ ForkRight /\ PinRight /\ SnapshotRight
PacketsRight == RehearsedRight /\ WritingRight /\ WrittenRight
ChecksRight == AskingRight /\ PassedRight

-----------------------------------------------------------------------------
(* The amounts of a packet *)

LEMMA QuotientNatural ==
    ASSUME NEW x \in Nat, NEW p \in Nat \ {0}
    PROVE  x \div p \in Nat
OBVIOUS

LEMMA ProductNatural ==
    ASSUME NEW x \in Nat, NEW y \in Nat
    PROVE  x * y \in Nat
OBVIOUS

LEMMA GasCostNatural ==
    ASSUME NEW e \in Nat
    PROVE  GasCost(e) \in Nat
<1> DEFINE g == e * GasMultiplierPct
           q == (g + 99) \div 100
<1>1. GasMultiplierPct \in Nat /\ MaxFee \in Nat
  BY PacketAssumption
<1>2. g \in Nat
  BY <1>1, ProductNatural
<1> HIDE DEF g
<1>3. q \in Nat
  BY <1>2, QuotientNatural
<1> HIDE DEF q
<1>4. q * MaxFee \in Nat
  BY <1>1, <1>3, ProductNatural
<1> QED  BY <1>4 DEF GasCost, g, q

LEMMA PrincipalNatural ==
    ASSUME NEW price \in Quotes
    PROVE  Principal(price) \in Nat
<1>1. /\ LpUsd \in Nat /\ TradeUsd \in Nat /\ PriceUnit \in Nat
      /\ price \in Nat \ {0}
  BY PacketAssumption
<1>2. \A usd \in Nat : FloorWei(usd, price) \in Nat
  <2> SUFFICES ASSUME NEW usd \in Nat
               PROVE  FloorWei(usd, price) \in Nat
    OBVIOUS
  <2> DEFINE x == usd * PriceUnit
  <2>1. x \in Nat
    BY <1>1, ProductNatural
  <2> HIDE DEF x
  <2>2. x \div price \in Nat
    BY <1>1, <2>1, QuotientNatural
  <2> QED  BY <2>2 DEF FloorWei, x
<1>3. FloorWei(LpUsd, price) \in Nat /\ FloorWei(TradeUsd, price) \in Nat
  BY <1>1, <1>2
<1> QED  BY <1>3 DEF Principal

LEMMA AggregateNatural ==
    ASSUME NEW gas \in Nat, NEW price \in Quotes
    PROVE  AggregateWei(gas, price) \in Nat
<1>1. OtherGasEstimate \in Nat
  BY PacketAssumption
<1>2. GasCost(OtherGasEstimate) \in Nat /\ Principal(price) \in Nat
  BY <1>1, GasCostNatural, PrincipalNatural
<1> QED  BY <1>2 DEF AggregateWei

-----------------------------------------------------------------------------
(* Where the tools are *)

LEMMA CaptureStages ==
    ASSUME CaptureTyped
    PROVE  /\ capturing.pc \in {"off", "pinned"}
           /\ capturing.pc = "off" => capturing = Off
           /\ capturing # Off => capturing \in Pinned /\ capturing.pc = "pinned"
BY DEF CaptureTyped, Pinned, Off

LEMMA CollectStages ==
    ASSUME CollectTyped
    PROVE  /\ collecting.pc = "first" => collecting \in FetchedOne
           /\ collecting.pc = "second" => collecting \in FetchedBoth
BY DEF CollectTyped, FetchedOne, FetchedBoth, Off

LEMMA GenerateStages ==
    ASSUME GenerateTyped
    PROVE  /\ generating.pc \in {"off", "read", "rehearsed", "built", "policy",
                                 "packaged", "packet"}
           /\ generating.pc = "off" <=> generating = Off
           /\ generating.pc = "read" => generating \in Reading
           /\ generating.pc = "rehearsed" => generating \in Rehearsing
           /\ generating.pc \in {"built", "policy", "packaged", "packet"} =>
                  generating \in WritingPacket
BY DEF GenerateTyped, Reading, Rehearsing, WritingPacket, Off

LEMMA CheckStages ==
    ASSUME CheckTyped
    PROVE  /\ checking.pc \in {"off", "nonces", "code", "passed"}
           /\ checking.pc \in {"nonces", "code"} => checking \in Asking
           /\ checking.pc = "passed" => checking \in Passed
BY DEF CheckTyped, Asking, Passed, Off

(* A file that is written *)
LEMMA FileWrites ==
    ASSUME file \in Files
    PROVE  /\ \A v \in SnapshotFile :
                  LET f == [file EXCEPT !["snapshot"] = v] IN
                  /\ f \in Files /\ f.snapshot = v /\ f.packet = file.packet
           /\ \A v \in PriceFile :
                  LET f == [file EXCEPT !["price"] = v] IN
                  /\ f \in Files /\ f.snapshot = file.snapshot /\ f.packet = file.packet
           /\ \A v \in Authorization :
                  LET f == [file EXCEPT !["packaged"] = v] IN
                  /\ f \in Files /\ f.snapshot = file.snapshot /\ f.packet = file.packet
           /\ \A v \in Packet :
                  LET f == [file EXCEPT !["packet"] = v] IN
                  /\ f \in Files /\ f.snapshot = file.snapshot /\ f.packet = v
           /\ \A v \in Nat :
                  LET f == [file EXCEPT !["manifest"] = v] IN
                  /\ f \in Files /\ f.snapshot = file.snapshot /\ f.packet = file.packet
           /\ \A v \in PolicyFile :
                  LET f == [file EXCEPT !["policy"] = v] IN
                  /\ f \in Files /\ f.snapshot = file.snapshot /\ f.packet = file.packet
<1>1. \A v \in SnapshotFile :
          LET f == [file EXCEPT !["snapshot"] = v] IN
          /\ f \in Files /\ f.snapshot = v /\ f.packet = file.packet
  BY DEF Files
<1>2. \A v \in PriceFile :
          LET f == [file EXCEPT !["price"] = v] IN
          /\ f \in Files /\ f.snapshot = file.snapshot /\ f.packet = file.packet
  BY DEF Files
<1>3. \A v \in Authorization :
          LET f == [file EXCEPT !["packaged"] = v] IN
          /\ f \in Files /\ f.snapshot = file.snapshot /\ f.packet = file.packet
  BY DEF Files
<1>4. \A v \in Packet :
          LET f == [file EXCEPT !["packet"] = v] IN
          /\ f \in Files /\ f.snapshot = file.snapshot /\ f.packet = v
  BY DEF Files
<1>5. \A v \in Nat :
          LET f == [file EXCEPT !["manifest"] = v] IN
          /\ f \in Files /\ f.snapshot = file.snapshot /\ f.packet = file.packet
  BY DEF Files
<1>6. \A v \in PolicyFile :
          LET f == [file EXCEPT !["policy"] = v] IN
          /\ f \in Files /\ f.snapshot = file.snapshot /\ f.packet = file.packet
  BY DEF Files
<1> QED  BY <1>1, <1>2, <1>3, <1>4, <1>5, <1>6

-----------------------------------------------------------------------------
(* Types and ages, whatever runs beside what *)

PinnedOnChain == capturing.pc = "pinned" => capturing.number \in DOMAIN blocks

AgesInv == PacketTypeOK /\ PinnedOnChain /\ PricesRight

TipTyped == Tip \in ChainBlock

LEMMA TipIsBlock ==
    ASSUME ChainTyped
    PROVE  TipTyped /\ Height \in DOMAIN blocks
BY DEF ChainTyped, TipTyped, Tip, Height

LEMMA BlockChanges ==
    ASSUME NEW x \in ChainBlock, NEW i \in BlockName, NEW t \in Nat, NEW c \in Code
    PROVE  /\ [x EXCEPT !.id = i, !.at = t] \in ChainBlock
           /\ [x EXCEPT !.id = i, !.at = t].id = i
           /\ [x EXCEPT !.id = i, !.code = c] \in ChainBlock
           /\ [x EXCEPT !.id = i, !.code = c].id = i
BY DEF ChainBlock

(* The chain grows or is reorganised. *)
LEMMA GrowTyped ==
    ASSUME PacketTypeOK, NEW b \in ChainBlock, Grow(b)
    PROVE  ChainTyped' /\ DOMAIN blocks \subseteq DOMAIN blocks'
<1> DEFINE new == [b EXCEPT !.id = <<Height + 1, reorgs>>, !.at = clock]
<1>1. blocks' = Append(blocks, new) /\ reorgs' = reorgs
  BY DEF Grow
<1>2. /\ blocks \in Seq(ChainBlock) /\ Height \in Nat /\ Height >= 1 /\ reorgs \in Nat
      /\ clock \in Nat
  BY DEF PacketTypeOK, ChainTyped, Height
<1>3. new \in ChainBlock
  <2> DEFINE i == <<Height + 1, reorgs>>
  <2>1. i \in BlockName
    BY <1>2 DEF BlockName
  <2> HIDE DEF i
  <2>2. Code # {} => [b EXCEPT !.id = i, !.at = clock] \in ChainBlock
    BY <1>2, <2>1, BlockChanges
  <2>3. Code # {}
    BY DEF ChainBlock
  <2> QED  BY <2>2, <2>3 DEF i
<1> HIDE DEF new
<1>4. blocks' \in Seq(ChainBlock) /\ Len(blocks') = Len(blocks) + 1
  BY <1>1, <1>2, <1>3
<1> QED  BY <1>1, <1>2, <1>4 DEF ChainTyped, Height

LEMMA ReorgTyped ==
    ASSUME PacketTypeOK, NEW n \in DOMAIN blocks \ {1}, NEW c \in Code, ReorgFrom(n, c)
    PROVE  ChainTyped' /\ DOMAIN blocks \subseteq DOMAIN blocks'
<1> DEFINE b(h) == [blocks[h] EXCEPT !.id = <<h, reorgs + 1>>, !.code = c]
<1>1. /\ blocks' = [h \in DOMAIN blocks |-> IF h < n THEN blocks[h] ELSE b(h)]
      /\ reorgs' = reorgs + 1
  BY DEF ReorgFrom
<1>2. /\ blocks \in Seq(ChainBlock) /\ Len(blocks) \in Nat /\ reorgs \in Nat
      /\ DOMAIN blocks = 1..Len(blocks) /\ Len(blocks) >= 1
  BY DEF PacketTypeOK, ChainTyped, Height
<1>3. \A h \in 1..Len(blocks) : blocks[h] \in ChainBlock /\ b(h) \in ChainBlock
  <2> SUFFICES ASSUME NEW h \in 1..Len(blocks)
               PROVE  blocks[h] \in ChainBlock /\ b(h) \in ChainBlock
    OBVIOUS
  <2> DEFINE i == <<h, reorgs + 1>>
  <2>1. blocks[h] \in ChainBlock
    BY <1>2
  <2>2. i \in BlockName
    BY <1>2 DEF BlockName
  <2> HIDE DEF i
  <2>3. [blocks[h] EXCEPT !.id = i, !.code = c] \in ChainBlock
    BY <1>2, <2>1, <2>2, BlockChanges
  <2> QED  BY <2>1, <2>3 DEF i
<1> HIDE DEF b
<1>4. blocks' \in [1..Len(blocks) -> ChainBlock]
  BY <1>1, <1>2, <1>3
<1>5. blocks' \in Seq(ChainBlock) /\ Len(blocks') = Len(blocks)
  BY <1>2, <1>4
<1> QED  BY <1>1, <1>2, <1>5 DEF ChainTyped, Height

LEMMA ChainStepAges ==
    ASSUME AgesInv,
           \/ MineEmpty \/ DeployerSends
           \/ \E c \in Code : ExternalUpgrade(c)
           \/ \E n \in DOMAIN blocks \ {1}, c \in Code : ReorgFrom(n, c)
           \/ TimePasses
    PROVE  AgesInv'
<1>1. PacketTypeOK /\ PricesRight /\ TipTyped /\ clock \in Nat
  BY TipIsBlock DEF AgesInv, PacketTypeOK
<1>2. CASE MineEmpty \/ DeployerSends \/ \E c \in Code : ExternalUpgrade(c)
  <2>1. PICK b \in ChainBlock : Grow(b)
    <3>1. CASE MineEmpty
      BY <3>1, <1>1 DEF MineEmpty, TipTyped
    <3>2. CASE DeployerSends
      <4>1. [Tip EXCEPT !.deployer = @ + 1] \in ChainBlock
        BY <1>1 DEF TipTyped, ChainBlock
      <4> QED  BY <3>2, <4>1 DEF DeployerSends
    <3>3. ASSUME NEW c \in Code, ExternalUpgrade(c)
          PROVE  \E b \in ChainBlock : Grow(b)
      <4>1. [Tip EXCEPT !.code = c] \in ChainBlock
        BY <1>1 DEF TipTyped, ChainBlock
      <4> QED  BY <3>3, <4>1 DEF ExternalUpgrade
    <3> QED  BY <1>2, <3>1, <3>2, <3>3
  <2>2. ChainTyped' /\ DOMAIN blocks \subseteq DOMAIN blocks'
    BY <1>1, <2>1, GrowTyped
  <2>3. UNCHANGED <<clock, fork, file, capturing, collecting, generating, checking>>
    BY <2>1 DEF Grow
  <2> QED  BY <1>1, <2>2, <2>3 DEF AgesInv, PacketTypeOK, CaptureTyped, CollectTyped,
              GenerateTyped, CheckTyped, PinnedOnChain, PricesRight, WasFresh
<1>3. ASSUME NEW n \in DOMAIN blocks \ {1}, NEW c \in Code, ReorgFrom(n, c)
      PROVE  AgesInv'
  <2>1. ChainTyped' /\ DOMAIN blocks \subseteq DOMAIN blocks'
    BY <1>1, <1>3, ReorgTyped
  <2>2. UNCHANGED <<clock, fork, file, capturing, collecting, generating, checking>>
    BY <1>3 DEF ReorgFrom
  <2> QED  BY <1>1, <2>1, <2>2 DEF AgesInv, PacketTypeOK, CaptureTyped, CollectTyped,
              GenerateTyped, CheckTyped, PinnedOnChain, PricesRight, WasFresh
<1>4. CASE TimePasses
  <2>1. /\ clock' \in Nat
        /\ UNCHANGED <<blocks, reorgs, fork, file, capturing, collecting, generating,
                       checking>>
    BY <1>1, <1>4 DEF TimePasses
  <2> QED  BY <1>1, <2>1 DEF AgesInv, PacketTypeOK, ChainTyped, Height, CaptureTyped,
              CollectTyped, GenerateTyped, CheckTyped, PinnedOnChain, PricesRight,
              WasFresh
<1> QED  BY <1>2, <1>3, <1>4

(* A step of the tools leaves the chain alone; what it changes it changes   *)
(* within the types.                                                        *)
LEMMA ToolStepAges ==
    ASSUME AgesInv, UNCHANGED chainVars,
           fork' \in ChainBlock \cup {None}, file' \in Files,
           CaptureTyped', CollectTyped', GenerateTyped', CheckTyped', PricesRight',
           PinnedOnChain'
    PROVE  AgesInv'
BY DEF AgesInv, PacketTypeOK, ChainTyped, Height, chainVars

LEMMA AgesFacts ==
    ASSUME AgesInv
    PROVE  /\ clock \in Nat /\ ChainTyped /\ fork \in ChainBlock \cup {None}
           /\ file \in Files /\ CaptureTyped /\ CollectTyped /\ GenerateTyped
           /\ CheckTyped /\ PinnedOnChain /\ PricesRight
BY DEF AgesInv, PacketTypeOK

LEMMA CaptureAges ==
    ASSUME AgesInv, CaptureBlock \/ CaptureState
    PROVE  AgesInv'
<1>1. /\ UNCHANGED <<chainVars, fork, collecting, generating, checking>>
      /\ fork' \in ChainBlock \cup {None}
      /\ CollectTyped' /\ GenerateTyped' /\ CheckTyped'
  BY AgesFacts DEF CaptureBlock, CaptureState, CollectTyped, GenerateTyped, CheckTyped
<1>2. /\ Height \in Nat /\ Confirmations \in Nat /\ blocks \in Seq(ChainBlock)
      /\ DOMAIN blocks = 1..Height
  BY AgesFacts, PacketAssumption DEF ChainTyped, Height
<1>3. CASE CaptureBlock
  <2> DEFINE n == Height - Confirmations
  <2>1. n >= 1 /\ file' = file
        /\ capturing' = [pc |-> "pinned", number |-> n, id |-> blocks[n].id,
                         at |-> blocks[n].at]
    BY <1>3 DEF CaptureBlock
  <2>2. n \in Nat /\ n \in 1..Height
    BY <1>2, <2>1
  <2>3. blocks[n].id \in BlockName /\ blocks[n].at \in Nat
    <3>1. blocks[n] \in ChainBlock
      BY <1>2, <2>2
    <3> QED  BY <3>1 DEF ChainBlock
  <2> HIDE DEF n
  <2>4. CaptureTyped'
    BY <2>1, <2>2, <2>3 DEF CaptureTyped, Pinned
  <2>5. PricesRight' /\ file' \in Files
    BY <1>1, <2>1, AgesFacts DEF PricesRight, WasFresh
  <2>6. PinnedOnChain'
    BY <1>1, <1>2, <2>1, <2>2 DEF PinnedOnChain, chainVars
  <2> QED  BY <1>1, <2>4, <2>5, <2>6, ToolStepAges
<1>4. CASE CaptureState
  <2> DEFINE b == blocks[capturing.number]
             v == [number |-> capturing.number, id |-> capturing.id,
                   at |-> capturing.at, deployer |-> b.deployer, code |-> b.code]
  <2>1. capturing.pc = "pinned" /\ capturing' = Off /\ file' = [file EXCEPT !["snapshot"] = v]
    BY <1>4 DEF CaptureState
  <2>2. capturing \in Pinned /\ capturing.number \in 1..Height
    BY <1>2, <2>1, AgesFacts, CaptureStages DEF Off, PinnedOnChain
  <2>3. file' \in Files /\ file'.packet = file.packet
    <3>1. b \in ChainBlock
      BY <1>2, <2>2
    <3>2. b.deployer \in Nat /\ b.code \in Code
      BY <3>1 DEF ChainBlock
    <3> HIDE DEF b
    <3>3. v \in SnapshotFile
      BY <2>2, <3>2 DEF Pinned, SnapshotFile
    <3> HIDE DEF v
    <3> QED  BY <2>1, <3>3, AgesFacts, FileWrites
  <2>4. CaptureTyped' /\ PinnedOnChain'
    BY <2>1 DEF CaptureTyped, PinnedOnChain, Off
  <2>5. PricesRight'
    BY <1>1, <2>3, AgesFacts DEF PricesRight, WasFresh
  <2> QED  BY <1>1, <2>3, <2>4, <2>5, ToolStepAges
<1> QED  BY <1>3, <1>4

LEMMA HandAges ==
    ASSUME AgesInv, TranscribePolicy \/ StartFork
    PROVE  AgesInv'
<1>1. /\ UNCHANGED <<chainVars, capturing, collecting, generating, checking>>
      /\ CaptureTyped' /\ CollectTyped' /\ GenerateTyped' /\ CheckTyped'
      /\ PinnedOnChain'
  BY AgesFacts DEF TranscribePolicy, StartFork, CaptureTyped, CollectTyped,
                   GenerateTyped,
                   CheckTyped, PinnedOnChain, chainVars
<1>2. CASE TranscribePolicy
  <2> DEFINE p == [number |-> file.snapshot.number, id |-> file.snapshot.id,
                   at |-> file.snapshot.at]
             v == [file.policy EXCEPT !.block = p, !.deployer = file.snapshot.deployer]
  <2>1. /\ file.snapshot # None /\ fork' = fork
        /\ file' = [file EXCEPT !["policy"] = v]
    BY <1>2, AgesFacts DEF TranscribePolicy, Files, PolicyFile
  <2>2. file.snapshot \in SnapshotFile /\ file.policy \in PolicyFile
    BY <2>1, AgesFacts DEF Files
  <2>3. p \in PolicyBlock /\ file.snapshot.deployer \in Nat
    BY <2>2 DEF SnapshotFile, PolicyBlock
  <2> HIDE DEF p
  <2>4. v \in PolicyFile
    BY <2>2, <2>3 DEF PolicyFile
  <2> HIDE DEF v
  <2>5. file' \in Files /\ file'.packet = file.packet
    BY <2>1, <2>4, AgesFacts, FileWrites
  <2>6. PricesRight'
    BY <1>1, <2>5, AgesFacts DEF PricesRight, WasFresh
  <2> QED  BY <1>1, <2>1, <2>5, <2>6, AgesFacts, ToolStepAges
<1>3. CASE StartFork
  <2>1. /\ file' = file
        /\ file.policy.block.number \in DOMAIN blocks
        /\ fork' = blocks[file.policy.block.number]
    BY <1>3 DEF StartFork, AtPin
  <2>2. fork' \in ChainBlock
    BY <2>1, AgesFacts DEF ChainTyped
  <2>3. PricesRight'
    BY <1>1, <2>1, AgesFacts DEF PricesRight, WasFresh
  <2> QED  BY <1>1, <2>1, <2>2, <2>3, AgesFacts, ToolStepAges
<1> QED  BY <1>2, <1>3

LEMMA CollectAges ==
    ASSUME AgesInv,
           \/ \E q \in Quotes : FetchFirst(q) \/ FetchSecond(q)
           \/ WritePrices
    PROVE  AgesInv'
<1>1. /\ UNCHANGED <<chainVars, fork, capturing, generating, checking>>
      /\ fork' \in ChainBlock \cup {None}
      /\ CaptureTyped' /\ GenerateTyped' /\ CheckTyped' /\ PinnedOnChain'
  BY AgesFacts DEF FetchFirst, FetchSecond, WritePrices, CaptureTyped, GenerateTyped,
                   CheckTyped, PinnedOnChain, chainVars
<1>2. ASSUME NEW q \in Quotes
      PROVE  Observed(q) \in Observation
  BY AgesFacts DEF Observed, Observation
<1>3. ASSUME file' \in Files, file'.packet = file.packet
      PROVE  PricesRight'
  BY <1>1, <1>3, AgesFacts DEF PricesRight, WasFresh
<1>4. ASSUME NEW q \in Quotes, FetchFirst(q)
      PROVE  AgesInv'
  <2>1. collecting' = [pc |-> "first", first |-> Observed(q)] /\ file' = file
    BY <1>4 DEF FetchFirst
  <2>2. CollectTyped'
    BY <1>2, <2>1 DEF CollectTyped, FetchedOne
  <2> QED  BY <1>1, <1>3, <2>1, <2>2, AgesFacts, ToolStepAges
<1>5. ASSUME NEW q \in Quotes, FetchSecond(q)
      PROVE  AgesInv'
  <2>1. /\ collecting.pc = "first" /\ file' = file
        /\ collecting' = [pc |-> "second", sources |-> <<collecting.first, Observed(q)>>]
    BY <1>5 DEF FetchSecond
  <2>2. collecting.first \in Observation
    BY <2>1, AgesFacts, CollectStages DEF FetchedOne
  <2>3. CollectTyped'
    BY <1>2, <2>1, <2>2 DEF CollectTyped, FetchedBoth
  <2> QED  BY <1>1, <1>3, <2>1, <2>3, AgesFacts, ToolStepAges
<1>6. CASE WritePrices
  <2> DEFINE s == collecting.sources
             v == [sources |-> s, at |-> clock,
                   selected |-> Higher(s[1].price, s[2].price)]
  <2>1. /\ collecting.pc = "second" /\ collecting' = Off
        /\ file' = file \/ file' = [file EXCEPT !["price"] = v]
    BY <1>6 DEF WritePrices
  <2>2. s \in Observation \X Observation
    BY <2>1, AgesFacts, CollectStages DEF FetchedBoth
  <2>3. Higher(s[1].price, s[2].price) \in Quotes
    BY <2>2 DEF Higher, Observation
  <2> HIDE DEF s
  <2>4. v \in PriceFile
    BY <2>2, <2>3, AgesFacts DEF PriceFile
  <2> HIDE DEF v
  <2>5. file' \in Files /\ file'.packet = file.packet
    BY <2>1, <2>4, AgesFacts, FileWrites
  <2>6. CollectTyped'
    BY <2>1 DEF CollectTyped
  <2> QED  BY <1>1, <1>3, <2>5, <2>6, ToolStepAges
<1> QED  BY <1>4, <1>5, <1>6

LEMMA CheckAges ==
    ASSUME AgesInv,
           \/ PreflightStart \/ CheckCode
           \/ \E funded \in BOOLEAN : CheckNonces(funded)
    PROVE  AgesInv'
<1>1. /\ UNCHANGED <<chainVars, fork, file, capturing, collecting, generating>>
      /\ fork' \in ChainBlock \cup {None} /\ file' \in Files
      /\ CaptureTyped' /\ CollectTyped' /\ GenerateTyped' /\ PinnedOnChain'
      /\ PricesRight'
  BY AgesFacts DEF PreflightStart, CheckCode, CheckNonces, CaptureTyped, CollectTyped,
                   GenerateTyped, PinnedOnChain, PricesRight, WasFresh, chainVars
<1>2. CheckTyped'
  <2>1. CASE PreflightStart
    <3>1. /\ file.packet # None /\ file.snapshot # None
          /\ checking' = [pc |-> "nonces", ok |-> clock <= file.packet.expires,
                          packet |-> file.packet, snapshot |-> file.snapshot]
      BY <2>1 DEF PreflightStart
    <3>2. file.packet \in Packet /\ file.snapshot \in SnapshotFile
      BY <3>1, AgesFacts DEF Files
    <3>3. (clock <= file.packet.expires) \in BOOLEAN
      OBVIOUS
    <3> QED  BY <3>1, <3>2, <3>3 DEF CheckTyped, Asking
  <2>2. ASSUME NEW funded \in BOOLEAN, CheckNonces(funded)
        PROVE  CheckTyped'
    <3> DEFINE ok == checking.ok /\ funded /\ Tip.deployer = checking.packet.deployer
    <3>1. /\ checking.pc = "nonces"
          /\ checking' = [checking EXCEPT !.pc = "code", !.ok = ok]
      BY <2>2 DEF CheckNonces
    <3>2. checking \in Asking
      BY <3>1, AgesFacts, CheckStages
    <3>3. ok \in BOOLEAN
      OBVIOUS
    <3> HIDE DEF ok
    <3>4. checking' \in Asking
      BY <3>1, <3>2, <3>3 DEF Asking
    <3> QED  BY <3>4 DEF CheckTyped
  <2>3. CASE CheckCode
    <3>1. /\ checking.pc = "code"
          /\ \/ checking' = Off
             \/ checking' = [pc |-> "passed", packet |-> checking.packet,
                             code |-> Tip.code]
      BY <2>3 DEF CheckCode
    <3>2. checking.packet \in Packet
      BY <3>1, AgesFacts, CheckStages DEF Asking
    <3>3. Tip.code \in Code
      BY AgesFacts, TipIsBlock DEF TipTyped, ChainBlock
    <3> QED  BY <3>1, <3>2, <3>3 DEF CheckTyped, Passed
  <2> QED  BY <2>1, <2>2, <2>3
<1> QED  BY <1>1, <1>2, ToolStepAges

LEMMA GenerateAges ==
    ASSUME AgesInv,
           \/ GenerateStart \/ GenerateBuild
           \/ \E e \in GasEstimates : GenerateRehearse(e)
    PROVE  AgesInv'
<1>1. /\ UNCHANGED <<chainVars, fork, file, capturing, collecting, checking>>
      /\ fork' \in ChainBlock \cup {None} /\ file' \in Files
      /\ CaptureTyped' /\ CollectTyped' /\ CheckTyped' /\ PinnedOnChain'
  BY AgesFacts DEF GenerateStart, GenerateBuild, GenerateRehearse, CaptureTyped,
                   CollectTyped, CheckTyped, PinnedOnChain, chainVars
<1>2. file.packet # None => WasFresh(file.packet.price, file.packet.generated)
  BY AgesFacts DEF PricesRight
<1>3. CASE GenerateStart
  <2>1. /\ file.price # None /\ file.policy.block # None
        /\ PriceFresh(file.price)
        /\ generating' = [pc |-> "read", policy |-> file.policy, price |-> file.price,
                          generated |-> clock]
    BY <1>3 DEF GenerateStart
  <2>2. file.price \in PriceFile /\ file.policy \in BoundPolicy
    BY <2>1, AgesFacts DEF Files, PolicyFile, BoundPolicy
  <2>3. generating' \in Reading /\ generating'.pc = "read"
    BY <2>1, <2>2, AgesFacts DEF Reading
  <2>4. WasFresh(file.price, clock)
    BY <2>1 DEF WasFresh, PriceFresh
  <2>5. PricesRight'
    BY <1>1, <1>2, <2>1, <2>4 DEF PricesRight, WasFresh
  <2> QED  BY <1>1, <2>3, <2>5, ToolStepAges DEF GenerateTyped
<1>4. ASSUME NEW e \in GasEstimates, GenerateRehearse(e)
      PROVE  AgesInv'
  <2> DEFINE gas == GasCost(e)
             price == generating.price.selected
             packet == [block |-> generating.policy.block, deployer |-> fork.deployer,
                        price |-> generating.price, gas |-> gas,
                        aggregate |-> AggregateWei(gas, price),
                        generated |-> generating.generated,
                        expires |-> fork.at + ValidityWindow,
                        ranOn |-> fork.code, anchor |-> None]
  <2>1. /\ generating.pc = "read" /\ fork # None
        /\ generating' = [pc |-> "rehearsed", policy |-> generating.policy,
                          packet |-> packet]
    BY <1>4 DEF GenerateRehearse, ForkIsPinned
  <2>2. /\ generating \in Reading /\ generating.policy \in BoundPolicy
        /\ generating.price \in PriceFile /\ generating.generated \in Nat
    BY <2>1, AgesFacts, GenerateStages DEF Reading
  <2>3. /\ generating.policy.block \in PolicyBlock /\ price \in Quotes
        /\ e \in Nat /\ ValidityWindow \in Nat
    BY <2>2, PacketAssumption DEF BoundPolicy, PriceFile
  <2>4. fork \in ChainBlock
    BY <2>1, AgesFacts
  <2>5. fork.deployer \in Nat /\ fork.at \in Nat /\ fork.code \in Code
    BY <2>4 DEF ChainBlock
  <2>6. gas \in Nat
    BY <2>3, GasCostNatural
  <2> HIDE DEF gas
  <2>7. AggregateWei(gas, price) \in Nat
    BY <2>3, <2>6, AggregateNatural
  <2>8. fork.at + ValidityWindow \in Nat
    BY <2>3, <2>5
  <2>9. packet \in Packet
    BY <2>2, <2>3, <2>5, <2>6, <2>7, <2>8 DEF Packet
  <2>10. packet.price = generating.price /\ packet.generated = generating.generated
    OBVIOUS
  <2> HIDE DEF packet
  <2>11. generating' \in Rehearsing
    BY <2>1, <2>2, <2>9 DEF Rehearsing
  <2>12. PricesRight'
    BY <1>1, <1>2, <2>1, <2>10, AgesFacts DEF PricesRight, WasFresh
  <2> QED  BY <1>1, <2>11, <2>12, ToolStepAges DEF GenerateTyped
<1>5. CASE GenerateBuild
  <2> DEFINE object == Canonical(generating.packet, file.snapshot)
             policy == [generating.policy EXCEPT !.anchor = object]
             packet == [generating.packet EXCEPT !.anchor = object]
  <2>1. /\ generating.pc = "rehearsed" /\ file.snapshot # None
        /\ generating' = [pc |-> "built", object |-> object, policy |-> policy,
                          packet |-> packet]
    BY <1>5 DEF GenerateBuild
  <2>2. /\ generating.policy \in BoundPolicy /\ generating.packet \in Packet
        /\ file.snapshot \in SnapshotFile
    BY <2>1, AgesFacts, GenerateStages DEF Rehearsing, Files
  <2>3. object \in Authorization
    BY <2>2 DEF Canonical, Authorization, Packet, SnapshotFile
  <2> HIDE DEF object
  <2>4. policy \in BoundPolicy
    BY <2>2, <2>3 DEF BoundPolicy
  <2>5. /\ packet \in Packet /\ packet.price = generating.packet.price
        /\ packet.generated = generating.packet.generated
    BY <2>2, <2>3 DEF Packet
  <2> HIDE DEF policy, packet
  <2>6. generating' \in WritingPacket
    BY <2>1, <2>3, <2>4, <2>5 DEF WritingPacket
  <2>7. PricesRight'
    BY <1>1, <1>2, <2>1, <2>5, AgesFacts DEF PricesRight, WasFresh
  <2> QED  BY <1>1, <2>6, <2>7, ToolStepAges DEF GenerateTyped
<1> QED  BY <1>3, <1>4, <1>5

(* One write of the generator, of a value of the file's type *)
LEMMA WriteTyped ==
    ASSUME AgesInv, NEW pc \in {"built", "policy", "packaged", "packet"},
           NEW key, NEW v,
           NEW next \in {"policy", "packaged", "packet", "off"}, Writes(pc, key, v, next),
           [file EXCEPT ![key] = v] \in Files,
           LET f == [file EXCEPT ![key] = v] IN
           f.packet # None => WasFresh(f.packet.price, f.packet.generated)
    PROVE  AgesInv'
<1>1. /\ UNCHANGED <<chainVars, fork, capturing, collecting, checking>>
      /\ generating.pc = pc /\ file' = [file EXCEPT ![key] = v]
      /\ \/ generating' = Off
         \/ next # "off" /\ generating' = [generating EXCEPT !.pc = next]
      /\ fork' \in ChainBlock \cup {None}
      /\ CaptureTyped' /\ CollectTyped' /\ CheckTyped' /\ PinnedOnChain'
  BY AgesFacts DEF Writes, CaptureTyped, CollectTyped, CheckTyped, PinnedOnChain,
                   chainVars
<1>2. generating \in WritingPacket
  BY <1>1, AgesFacts, GenerateStages
<1>3. /\ generating' = Off \/ generating' \in WritingPacket
      /\ generating' # Off => generating'.packet = generating.packet
  <2>1. CASE next # "off" /\ generating' = [generating EXCEPT !.pc = next]
    BY <1>2, <2>1 DEF WritingPacket
  <2> QED  BY <1>1, <2>1
<1>4. WasFresh(generating.packet.price, generating.packet.generated)
  BY <1>1, AgesFacts DEF PricesRight
<1>5. GenerateTyped'
  BY <1>3 DEF GenerateTyped
<1>6. PricesRight'
  <2>1. generating'.pc # "read"
    BY <1>3 DEF WritingPacket, Off
  <2>2. generating'.pc \in {"rehearsed", "built", "policy", "packaged", "packet"} =>
            WasFresh(generating'.packet.price, generating'.packet.generated)
    BY <1>3, <1>4 DEF Off
  <2>3. file'.packet # None => WasFresh(file'.packet.price, file'.packet.generated)
    BY <1>1
  <2> QED  BY <2>1, <2>2, <2>3 DEF PricesRight, WasFresh
<1> QED  BY <1>1, <1>5, <1>6, ToolStepAges

LEMMA WriteAges ==
    ASSUME AgesInv,
           WritePolicy \/ WritePackaged \/ WritePacket \/ WriteManifest \/ GenerateStops
    PROVE  AgesInv'
<1>1. file.packet # None => WasFresh(file.packet.price, file.packet.generated)
  BY AgesFacts DEF PricesRight
<1>2. ASSUME generating.pc \in {"built", "policy", "packaged", "packet"}
      PROVE  /\ generating.object \in Authorization /\ generating.policy \in PolicyFile
             /\ generating.packet \in Packet /\ generating.packet.deployer \in Nat
             /\ WasFresh(generating.packet.price, generating.packet.generated)
  <2>1. generating \in WritingPacket
    BY <1>2, AgesFacts, GenerateStages
  <2>2. generating.policy \in BoundPolicy /\ generating.packet \in Packet
    BY <2>1 DEF WritingPacket
  <2>3. generating.policy \in PolicyFile
    BY <2>2 DEF BoundPolicy, PolicyFile
  <2>4. generating.packet.deployer \in Nat
    BY <2>2 DEF Packet
  <2> QED  BY <1>2, <2>1, <2>2, <2>3, <2>4, AgesFacts DEF WritingPacket, PricesRight
<1>3. CASE WritePolicy
  <2>1. generating.pc = "built"
    BY <1>3 DEF WritePolicy, Writes
  <2> DEFINE f == [file EXCEPT !["policy"] = generating.policy]
  <2>2. f \in Files /\ f.packet = file.packet
    BY <1>2, <2>1, AgesFacts, FileWrites
  <2> QED  BY <1>1, <1>3, <2>2, WriteTyped DEF WritePolicy
<1>4. CASE WritePackaged
  <2>1. generating.pc = "policy"
    BY <1>4 DEF WritePackaged, Writes
  <2> DEFINE f == [file EXCEPT !["packaged"] = generating.object]
  <2>2. f \in Files /\ f.packet = file.packet
    BY <1>2, <2>1, AgesFacts, FileWrites
  <2> QED  BY <1>1, <1>4, <2>2, WriteTyped DEF WritePackaged
<1>5. CASE WritePacket
  <2>1. generating.pc = "packaged"
    BY <1>5 DEF WritePacket, Writes
  <2> DEFINE f == [file EXCEPT !["packet"] = generating.packet]
  <2>2. f \in Files /\ f.packet = generating.packet
    BY <1>2, <2>1, AgesFacts, FileWrites
  <2> QED  BY <1>2, <1>5, <2>1, <2>2, WriteTyped DEF WritePacket
<1>6. CASE WriteManifest
  <2>1. generating.pc = "packet"
    BY <1>6 DEF WriteManifest, Writes
  <2> DEFINE f == [file EXCEPT !["manifest"] = generating.packet.deployer]
  <2>2. f \in Files /\ f.packet = file.packet
    BY <1>2, <2>1, AgesFacts, FileWrites
  <2> QED  BY <1>1, <1>6, <2>2, WriteTyped DEF WriteManifest
<1>7. CASE GenerateStops
  <2>1. /\ UNCHANGED <<chainVars, fork, file, capturing, collecting, checking>>
        /\ generating' = Off
    BY <1>7 DEF GenerateStops
  <2>2. GenerateTyped' /\ PricesRight'
    BY <1>1, <2>1 DEF GenerateTyped, PricesRight, WasFresh, Off
  <2> QED  BY <2>1, <2>2, AgesFacts, ToolStepAges
           DEF CaptureTyped, CollectTyped, CheckTyped, PinnedOnChain, chainVars
<1> QED  BY <1>3, <1>4, <1>5, <1>6, <1>7

LEMMA InitAges == PacketInit => AgesInv
<1> SUFFICES ASSUME PacketInit
             PROVE  AgesInv
  OBVIOUS
<1>1. /\ clock = 0 /\ reorgs = 0 /\ fork = None
      /\ capturing = Off /\ collecting = Off /\ generating = Off /\ checking = Off
      /\ file = [snapshot |-> None, price |-> None, packaged |-> None, packet |-> None,
                 manifest |-> None,
                 policy |-> [block |-> None, deployer |-> 0, anchor |-> None]]
  BY DEF PacketInit
<1>2. PICK c \in Code : blocks = [h \in 1..(Confirmations + 1) |->
           [id |-> <<h, 0>>, at |-> 0, deployer |-> 0, code |-> c]]
  BY DEF PacketInit
<1>3. Confirmations \in Nat
  BY PacketAssumption
<1>4. \A h \in 1..(Confirmations + 1) :
          [id |-> <<h, 0>>, at |-> 0, deployer |-> 0, code |-> c] \in ChainBlock
  BY DEF ChainBlock, BlockName
<1>5. blocks \in [1..(Confirmations + 1) -> ChainBlock]
  BY <1>2, <1>4
<1>6. ChainTyped
  <2>1. blocks \in Seq(ChainBlock) /\ Len(blocks) = Confirmations + 1
    BY <1>3, <1>5
  <2> QED  BY <1>1, <1>3, <2>1 DEF ChainTyped, Height
<1>7. file \in Files /\ file.packet = None
  <2> DEFINE policy == [block |-> None, deployer |-> 0, anchor |-> None]
  <2>1. policy \in PolicyFile
    BY DEF PolicyFile
  <2> HIDE DEF policy
  <2>2. file = [snapshot |-> None, price |-> None, packaged |-> None, packet |-> None,
                manifest |-> None, policy |-> policy]
    BY <1>1 DEF policy
  <2> QED  BY <2>1, <2>2 DEF Files
<1>8. /\ CaptureTyped /\ CollectTyped /\ GenerateTyped /\ CheckTyped
      /\ PinnedOnChain /\ PricesRight
  BY <1>1, <1>7 DEF CaptureTyped, CollectTyped, GenerateTyped, CheckTyped,
                    PinnedOnChain,
                    PricesRight, Off
<1> QED  BY <1>1, <1>6, <1>7, <1>8 DEF AgesInv, PacketTypeOK

LEMMA StepAges ==
    ASSUME AgesInv, [PacketNext]_packetVars
    PROVE  AgesInv'
<1>1. CASE \/ MineEmpty \/ DeployerSends
           \/ \E c \in Code : ExternalUpgrade(c)
           \/ \E n \in DOMAIN blocks \ {1}, c \in Code : ReorgFrom(n, c)
           \/ TimePasses
  BY <1>1, ChainStepAges
<1>2. CASE CaptureBlock \/ CaptureState
  BY <1>2, CaptureAges
<1>3. CASE TranscribePolicy \/ StartFork
  BY <1>3, HandAges
<1>4. CASE (\E q \in Quotes : FetchFirst(q) \/ FetchSecond(q)) \/ WritePrices
  BY <1>4, CollectAges
<1>5. CASE \/ GenerateStart \/ GenerateBuild
           \/ \E e \in GasEstimates : GenerateRehearse(e)
  BY <1>5, GenerateAges
<1>6. CASE WritePolicy \/ WritePackaged \/ WritePacket \/ WriteManifest \/ GenerateStops
  BY <1>6, WriteAges
<1>7. CASE \/ PreflightStart \/ CheckCode
           \/ \E funded \in BOOLEAN : CheckNonces(funded)
  BY <1>7, CheckAges
<1>8. CASE UNCHANGED packetVars
  <2>1. UNCHANGED <<chainVars, fork, file, capturing, collecting, generating, checking>>
    BY <1>8 DEF packetVars, chainVars
  <2> QED  BY <2>1, AgesFacts, ToolStepAges
           DEF CaptureTyped, CollectTyped, GenerateTyped, CheckTyped, PinnedOnChain,
               PricesRight, WasFresh, chainVars
<1> QED  BY <1>1, <1>2, <1>3, <1>4, <1>5, <1>6, <1>7, <1>8 DEF PacketNext

(* Types of the chain, the files and the tools, and the ages of the         *)
(* observations a packet was computed from.                                 *)
THEOREM PacketTyped == PacketSpec => []AgesInv
<1>1. AgesInv /\ [PacketNext]_packetVars => AgesInv'
  BY StepAges
<1> QED  BY <1>1, InitAges, PTL DEF PacketSpec

(* generate-packet.mjs: every price observation behind a packet that        *)
(* verifies was fresh when the packet was generated, in whatever order the  *)
(* tools ran and wherever one was killed.                                   *)
THEOREM PricesWereFresh == PacketSpec => []PriceWasFresh
<1>1. AgesInv => PriceWasFresh
  <2> SUFFICES ASSUME AgesInv, Verifies
               PROVE  \A i \in 1..2 :
                        file.packet.generated - file.packet.price.sources[i].at
                            <= MaxPriceAge
    BY DEF PriceWasFresh
  <2>1. file.packet # None
    BY AgesFacts DEF Verifies, AllWritten, Files
  <2>2. WasFresh(file.packet.price, file.packet.generated)
    BY <2>1, AgesFacts DEF PricesRight
  <2> QED  BY <2>2 DEF WasFresh
<1> QED  BY <1>1, PacketTyped, PTL

(* A floored conversion to dollars under the cap *)
LEMMA UnderCap ==
    ASSUME NEW w \in Nat, NEW p \in Nat, NEW u \in Nat \ {0}, NEW cap \in Nat,
           (w * p) \div u <= cap
    PROVE  w * p < (cap + 1) * u
<1> DEFINE x == w * p
<1>1. x \in Nat
  BY ProductNatural
<1> HIDE DEF x
<1>2. x \div u <= cap
  BY DEF x
<1>3. x < (x \div u + 1) * u
  BY <1>1
<1>4. x \div u \in Nat
  BY <1>1, QuotientNatural
<1> DEFINE q == x \div u
<1> HIDE DEF q
<1>5. q \in Nat /\ q <= cap /\ x < (q + 1) * u
  BY <1>2, <1>3, <1>4 DEF q
<1>6. (q + 1) * u <= (cap + 1) * u
  BY <1>5
<1>7. (q + 1) * u \in Nat /\ (cap + 1) * u \in Nat
  BY <1>5
<1> QED  BY <1>1, <1>5, <1>6, <1>7 DEF x

(* canonical.mjs and verify-packet.mjs: the exposure of a packet that       *)
(* verifies, at either source's price, is under the cap in exact            *)
(* arithmetic, although principal is floored, gas rounded up and the sum    *)
(* floored again.                                                           *)
THEOREM ExposureCapped == PacketSpec => []ExposureWithinCap
<1>1. AgesInv => ExposureWithinCap
  <2> DEFINE p == file.packet
             w == AggregateWei(p.gas, p.price.selected)
  <2> SUFFICES ASSUME AgesInv, Verifies, NEW i \in 1..2
               PROVE  w * p.price.sources[i].price < (CapUsd + 1) * PriceUnit
    BY DEF ExposureWithinCap
  <2>1. file.packet # None
    BY AgesFacts DEF Verifies, AllWritten, Files
  <2>2. p \in Packet
    BY <2>1, AgesFacts DEF Files
  <2>3. p.gas \in Nat /\ p.price \in PriceFile
    BY <2>2 DEF Packet
  <2>4. /\ p.price.sources \in Observation \X Observation
        /\ p.price.selected \in Quotes
    BY <2>3 DEF PriceFile
  <2>5. /\ p.price.sources[1] \in Observation /\ p.price.sources[2] \in Observation
        /\ p.price.selected = Higher(p.price.sources[1].price, p.price.sources[2].price)
        /\ AggregateUsd(p.gas, p.price.selected) <= CapUsd
    BY <2>4 DEF Verifies, PricesAgree, ExposureAgrees
  <2>6. /\ p.price.sources[1].price \in Nat /\ p.price.sources[2].price \in Nat
        /\ p.price.selected \in Nat
    BY <2>4, <2>5, PacketAssumption DEF Observation
  <2>7. p.price.sources[i].price \in Nat /\ p.price.sources[i].price <= p.price.selected
    <3>1. i = 1 \/ i = 2
      OBVIOUS
    <3> QED  BY <2>5, <2>6, <3>1 DEF Higher
  <2>8. w \in Nat
    BY <2>3, <2>4, AggregateNatural
  <2>9. (w * p.price.selected) \div PriceUnit <= CapUsd
    BY <2>5 DEF AggregateUsd, UsdOf
  <2>10. CapUsd \in Nat /\ PriceUnit \in Nat \ {0}
    BY PacketAssumption
  <2> DEFINE s == p.price.selected
             a == p.price.sources[i].price
             c == (CapUsd + 1) * PriceUnit
  <2> HIDE DEF w, p, s, a
  <2>11. w * s < c
    BY <2>6, <2>8, <2>9, <2>10, UnderCap DEF s
  <2>12. c \in Nat
    BY <2>10
  <2> HIDE DEF c
  <2>13. w * a <= w * s /\ w * a \in Nat /\ w * s \in Nat
    <3>1. a \in Nat /\ s \in Nat /\ a <= s
      BY <2>6, <2>7 DEF a, s
    <3> QED  BY <2>8, <3>1
  <2>14. w * a < c
    BY <2>11, <2>12, <2>13
  <2> QED  BY <2>14 DEF a, c
<1> QED  BY <1>1, PacketTyped, PTL

-----------------------------------------------------------------------------
(* Where a packet comes from, when the tools run one at a time              *)

PacketInv == AgesInv /\ Alone /\ ChainRight /\ PacketsRight /\ ChecksRight

LEMMA InvFacts ==
    ASSUME PacketInv
    PROVE  /\ AgesInv /\ Alone /\ ChainRight /\ PacketsRight /\ ChecksRight
           /\ blocks \in Seq(ChainBlock) /\ Height \in Nat /\ Height >= 1
           /\ DOMAIN blocks = 1..Height /\ reorgs \in Nat /\ Confirmations \in Nat
           /\ \A h \in DOMAIN blocks : blocks[h] \in ChainBlock
BY AgesFacts, PacketAssumption DEF PacketInv, ChainTyped, Height

(* The names a packet, a snapshot and a fork carry *)
LEMMA NamesTyped ==
    ASSUME PacketInv
    PROVE  /\ fork # None => fork.id \in BlockName
           /\ capturing.pc = "pinned" => capturing.id \in BlockName /\ capturing.number \in Nat
           /\ file.snapshot # None =>
                  file.snapshot.id \in BlockName /\ file.snapshot.number \in Nat
           /\ file.packet # None =>
                  file.packet.block.id \in BlockName /\ file.packet.block.number \in Nat
           /\ generating.pc \in {"rehearsed", "built", "policy", "packaged", "packet"} =>
                  /\ generating.packet.block.id \in BlockName
                  /\ generating.packet.block.number \in Nat
           /\ checking.pc = "passed" =>
                  /\ checking.packet.block.id \in BlockName
                  /\ checking.packet.block.number \in Nat
<1>1. AgesInv
  BY DEF PacketInv
<1>2. ASSUME NEW p \in Packet
      PROVE  p.block.id \in BlockName /\ p.block.number \in Nat
  <2>1. p.block \in PolicyBlock
    BY DEF Packet
  <2> QED  BY <2>1 DEF PolicyBlock
<1>3. fork # None => fork.id \in BlockName
  BY <1>1, AgesFacts DEF ChainBlock
<1>4. capturing.pc = "pinned" => capturing.id \in BlockName /\ capturing.number \in Nat
  BY <1>1, AgesFacts, CaptureStages DEF Pinned, Off
<1>5. file.snapshot # None =>
          file.snapshot.id \in BlockName /\ file.snapshot.number \in Nat
  <2>1. file.snapshot # None => file.snapshot \in SnapshotFile
    BY <1>1, AgesFacts DEF Files
  <2> QED  BY <2>1 DEF SnapshotFile
<1>6. file.packet # None => file.packet \in Packet
  BY <1>1, AgesFacts DEF Files
<1>7. generating.pc \in {"rehearsed", "built", "policy", "packaged", "packet"} =>
          generating.packet \in Packet
  BY <1>1, AgesFacts, GenerateStages DEF Rehearsing, WritingPacket
<1>8. checking.pc = "passed" => checking.packet \in Packet
  BY <1>1, AgesFacts, CheckStages DEF Passed
<1> QED  BY <1>2, <1>3, <1>4, <1>5, <1>6, <1>7, <1>8

(* The chain grows, or replaces blocks by blocks with new names: a name     *)
(* that is gone does not come back.                                         *)
ChainMoves ==
    /\ UNCHANGED <<fork, file, capturing, generating, checking>>
    /\ Height <= Height' /\ reorgs <= reorgs' /\ reorgs' \in Nat /\ Height' \in Nat
    /\ DOMAIN blocks \subseteq DOMAIN blocks'
    /\ \A h \in DOMAIN blocks' : blocks'[h].id[1] = h /\ blocks'[h].id[2] <= reorgs'
    /\ \A h \in DOMAIN blocks : blocks'[h] = blocks[h] \/ blocks'[h].id[2] > reorgs

LEMMA NamesKept ==
    ASSUME PacketInv, ChainMoves, NEW number, NEW id \in BlockName, Known(number, id)
    PROVE  /\ Known(number, id)'
           /\ Live(number, id)' =>
                  Live(number, id) /\ blocks'[number] = blocks[number]
<1>1. id[2] \in Nat /\ id[2] <= reorgs /\ number \in DOMAIN blocks
  BY DEF BlockName, Known
<1>2. reorgs \in Nat
  BY InvFacts
<1>3. Known(number, id)'
  BY <1>1, <1>2 DEF ChainMoves, Known
<1>4. ASSUME Live(number, id)'
      PROVE  Live(number, id) /\ blocks'[number] = blocks[number]
  <2>1. blocks'[number].id = id
    BY <1>4 DEF Live
  <2>2. blocks'[number] = blocks[number]
    BY <1>1, <1>2, <2>1 DEF ChainMoves
  <2> QED  BY <1>1, <2>1, <2>2 DEF Live
<1> QED  BY <1>3, <1>4

LEMMA RehearsedKept ==
    ASSUME PacketInv, ChainMoves, NEW p, p.block.id \in BlockName, Rehearsed(p)
    PROVE  Rehearsed(p)'
BY NamesKept DEF Rehearsed

LEMMA ChainMovesKeep ==
    ASSUME PacketInv, AgesInv', ChainMoves
    PROVE  PacketInv'
<1>1. UNCHANGED <<fork, file, capturing, generating, checking>>
  BY DEF ChainMoves
<1>2. Alone'
  BY <1>1, InvFacts DEF Alone
<1>3. \A n \in Int : n <= Height - Confirmations => n <= Height' - Confirmations
  BY InvFacts DEF ChainMoves
<1>4. ChainRight'
  <2>1. ASSUME fork # None
        PROVE  /\ Known(fork.id[1], fork.id)'
               /\ Live(fork.id[1], fork.id)' => blocks'[fork.id[1]].code = fork.code
    <3>1. fork.id \in BlockName /\ Known(fork.id[1], fork.id)
      BY <2>1, InvFacts, NamesTyped DEF ChainRight, ForkRight
    <3>2. /\ Known(fork.id[1], fork.id)'
          /\ Live(fork.id[1], fork.id)' =>
                 Live(fork.id[1], fork.id) /\ blocks'[fork.id[1]] = blocks[fork.id[1]]
      BY <1>1, <3>1, NamesKept DEF Known, Live
    <3> QED  BY <2>1, <3>2, InvFacts DEF ChainRight, ForkRight
  <2>2. ASSUME capturing.pc = "pinned"
        PROVE  /\ Known(capturing.number, capturing.id)'
               /\ capturing.number <= Height' - Confirmations
    <3>1. /\ capturing.id \in BlockName /\ capturing.number \in Nat
          /\ Known(capturing.number, capturing.id)
          /\ capturing.number <= Height - Confirmations
      BY <2>2, InvFacts, NamesTyped DEF ChainRight, PinRight
    <3>2. Known(capturing.number, capturing.id)'
      BY <1>1, <3>1, NamesKept DEF Known
    <3> QED  BY <1>3, <3>1, <3>2
  <2>3. ASSUME file.snapshot # None
        PROVE  /\ Known(file.snapshot.number, file.snapshot.id)'
               /\ file.snapshot.number <= Height' - Confirmations
               /\ Live(file.snapshot.number, file.snapshot.id)' =>
                      blocks'[file.snapshot.number].code = file.snapshot.code
    <3> DEFINE n == file.snapshot.number
               id == file.snapshot.id
    <3>1. id \in BlockName /\ n \in Nat /\ Known(n, id) /\ n <= Height - Confirmations
      BY <2>3, InvFacts, NamesTyped DEF ChainRight, SnapshotRight
    <3>2. /\ Known(n, id)'
          /\ Live(n, id)' => Live(n, id) /\ blocks'[n] = blocks[n]
      BY <1>1, <3>1, NamesKept DEF Known, Live
    <3>3. Live(n, id) => blocks[n].code = file.snapshot.code
      BY <2>3, InvFacts DEF ChainRight, SnapshotRight
    <3> QED  BY <1>3, <3>1, <3>2, <3>3
  <2>4. \A h \in DOMAIN blocks' : blocks'[h].id[1] = h /\ blocks'[h].id[2] <= reorgs'
    BY DEF ChainMoves
  <2> QED  BY <1>1, <2>1, <2>2, <2>3, <2>4
              DEF ChainRight, BlocksNamed, ForkRight, PinRight,
              SnapshotRight, Known, Live
<1>5. PacketsRight'
  <2>1. \A p : SnapshotNames(p)' = SnapshotNames(p)
    BY <1>1 DEF SnapshotNames
  <2>2. generating.pc \in {"rehearsed", "built", "policy", "packaged", "packet"} =>
            Rehearsed(generating.packet)'
    <3> SUFFICES ASSUME generating.pc \in {"rehearsed", "built", "policy", "packaged",
                                          "packet"}
                 PROVE  Rehearsed(generating.packet)'
      OBVIOUS
    <3>1. Rehearsed(generating.packet) /\ generating.packet.block.id \in BlockName
      BY InvFacts, NamesTyped DEF PacketsRight, RehearsedRight, WritingRight
    <3> QED  BY <1>1, <3>1, RehearsedKept DEF Rehearsed, Known, Live
  <2>3. file.packet # None =>
            /\ Rehearsed(file.packet)'
            /\ \A n, id : Later(file.packet, n, id) => Later(file.packet, n, id)'
    <3> SUFFICES ASSUME file.packet # None
                 PROVE  /\ Rehearsed(file.packet)'
                        /\ \A n, id : Later(file.packet, n, id) =>
                                          Later(file.packet, n, id)'
      OBVIOUS
    <3>1. Rehearsed(file.packet) /\ file.packet.block.id \in BlockName
      BY InvFacts, NamesTyped DEF PacketsRight, WrittenRight
    <3>2. Live(file.packet.block.number, file.packet.block.id)' =>
              Live(file.packet.block.number, file.packet.block.id)
      BY <1>1, <3>1, NamesKept DEF Rehearsed, Live
    <3>3. Rehearsed(file.packet)'
      BY <1>1, <3>1, RehearsedKept DEF Rehearsed, Known, Live
    <3> QED  BY <1>1, <3>2, <3>3 DEF Later, Live
  <2>4. PacketsRight
    BY InvFacts
  <2> QED  BY <1>1, <2>1, <2>2, <2>3, <2>4
           DEF PacketsRight, RehearsedRight, WritingRight, WrittenRight, Rehearsed,
               Later, Bound
<1>6. ChecksRight'
  <2> DEFINE p == checking.packet
             same == checking.code = p.ranOn
  <2>1. ChecksRight
    BY InvFacts
  <2>2. CASE checking.pc = "passed"
    <3>1. /\ Known(p.block.number, p.block.id)
          /\ p.block.id \in BlockName /\ p.block.number \in Nat
      BY <2>1, <2>2, NamesTyped DEF ChecksRight, PassedRight
    <3>2. /\ Known(p.block.number, p.block.id)'
          /\ Live(p.block.number, p.block.id)' => Live(p.block.number, p.block.id)
      <4> DEFINE n == p.block.number
                 id == p.block.id
      <4>1. Known(n, id) /\ id \in BlockName /\ UNCHANGED <<n, id>>
        BY <1>1, <3>1
      <4> HIDE DEF n, id
      <4>2. \A x, y : x = n /\ y = id => Known(x, y)' /\ (Live(x, y)' => Live(x, y))
        BY <4>1, NamesKept
      <4> QED  BY <1>1, <4>1, <4>2 DEF n, id, Known, Live
    <3>3. Height' - Confirmations <= p.block.number =>
              Height - Confirmations <= p.block.number
      BY <3>1, InvFacts DEF ChainMoves
    <3>4. Live(p.block.number, p.block.id)' /\ Height' - Confirmations <= p.block.number
              => same
      BY <2>1, <2>2, <3>2, <3>3 DEF ChecksRight, PassedRight
    <3>5. /\ capturing.pc = "pinned" /\ capturing.number = p.block.number
                 /\ capturing.id = p.block.id => same
          /\ SnapshotNames(p) /\ file.snapshot.code = p.ranOn => same
      BY <2>1, <2>2 DEF ChecksRight, PassedRight
    <3>6. SnapshotNames(p)' = SnapshotNames(p)
      BY <1>1 DEF SnapshotNames
    <3> QED  BY <1>1, <2>2, <3>2, <3>4, <3>5, <3>6
             DEF ChecksRight, AskingRight, PassedRight, SnapshotNames, Known, Live
  <2>3. CASE checking.pc # "passed"
    BY <1>1, <2>1, <2>3 DEF ChecksRight, AskingRight, PassedRight
  <2> QED  BY <2>2, <2>3
<1> QED  BY <1>2, <1>4, <1>5, <1>6 DEF PacketInv

(* A part of the invariant is kept by a step that leaves what it is about. *)
LEMMA PartsKept ==
    ASSUME PacketInv, UNCHANGED <<blocks, reorgs>>
    PROVE  /\ BlocksNamed'
           /\ UNCHANGED fork => ForkRight'
           /\ UNCHANGED capturing => PinRight'
           /\ file'.snapshot = file.snapshot => SnapshotRight'
           /\ UNCHANGED generating /\ file'.snapshot = file.snapshot =>
                  RehearsedRight' /\ WritingRight'
           /\ UNCHANGED capturing /\ file'.snapshot = file.snapshot
                  /\ file'.packet = file.packet => WrittenRight'
           /\ UNCHANGED checking /\ file'.snapshot = file.snapshot
                  /\ file'.packet = file.packet => AskingRight'
           /\ UNCHANGED <<checking, capturing>> /\ file'.snapshot = file.snapshot =>
                  PassedRight'
<1>1. /\ BlocksNamed /\ ForkRight /\ PinRight /\ SnapshotRight
      /\ RehearsedRight /\ WritingRight /\ WrittenRight /\ AskingRight /\ PassedRight
  BY InvFacts DEF ChainRight, PacketsRight, ChecksRight
<1>2. /\ \A n, id : Known(n, id)' = Known(n, id) /\ Live(n, id)' = Live(n, id)
      /\ Height' = Height
  BY DEF Known, Live, Height
<1>3. /\ BlocksNamed'
      /\ UNCHANGED fork => ForkRight'
      /\ UNCHANGED capturing => PinRight'
  BY <1>1, <1>2 DEF BlocksNamed, ForkRight, PinRight, Known, Live
<1>4. file'.snapshot = file.snapshot => SnapshotRight'
  BY <1>1, <1>2 DEF SnapshotRight, Known, Live
<1>5. UNCHANGED generating /\ file'.snapshot = file.snapshot => RehearsedRight'
  BY <1>1 DEF RehearsedRight, Rehearsed, SnapshotNames, Known, Live
<1>6. UNCHANGED generating /\ file'.snapshot = file.snapshot => WritingRight'
  BY <1>1 DEF WritingRight, Rehearsed, SnapshotNames, Bound, Known, Live
<1>7. UNCHANGED capturing /\ file'.snapshot = file.snapshot
          /\ file'.packet = file.packet => WrittenRight'
  BY <1>1 DEF WrittenRight, Rehearsed, Later, Bound, Known, Live
<1>8. UNCHANGED checking /\ file'.snapshot = file.snapshot
          /\ file'.packet = file.packet => AskingRight'
  BY <1>1 DEF AskingRight
<1>9. UNCHANGED <<checking, capturing>> /\ file'.snapshot = file.snapshot => PassedRight'
  BY <1>1, <1>2 DEF PassedRight, SnapshotNames, Known, Live
<1> QED  BY <1>3, <1>4, <1>5, <1>6, <1>7, <1>8, <1>9

(* The head grows: the new block carries its height. *)
LEMMA GrowMoves ==
    ASSUME PacketInv, NEW b \in ChainBlock, Grow(b)
    PROVE  ChainMoves
<1> DEFINE id == <<Height + 1, reorgs>>
           new == [b EXCEPT !.id = id, !.at = clock]
<1>1. /\ blocks' = Append(blocks, new) /\ reorgs' = reorgs
      /\ UNCHANGED <<fork, file, capturing, generating, checking>>
  BY DEF Grow
<1>2. /\ blocks \in Seq(ChainBlock) /\ Height \in Nat /\ reorgs \in Nat /\ clock \in Nat
      /\ DOMAIN blocks = 1..Height
  BY InvFacts, AgesFacts
<1>3. id \in BlockName /\ id[1] = Height + 1 /\ id[2] = reorgs
  BY <1>2 DEF BlockName
<1> HIDE DEF id
<1>4. new \in ChainBlock /\ new.id = id
  BY <1>2, <1>3 DEF ChainBlock
<1> HIDE DEF new
<1>5. /\ Height' = Height + 1 /\ DOMAIN blocks' = 1..(Height + 1)
      /\ \A h \in 1..Height : blocks'[h] = blocks[h]
      /\ blocks'[Height + 1] = new
  BY <1>1, <1>2, <1>4 DEF Height
<1>6. \A h \in DOMAIN blocks : blocks[h].id[1] = h /\ blocks[h].id[2] <= reorgs
  BY InvFacts DEF ChainRight, BlocksNamed
<1>7. \A h \in DOMAIN blocks' : blocks'[h].id[1] = h /\ blocks'[h].id[2] <= reorgs'
  <2> SUFFICES ASSUME NEW h \in 1..(Height + 1)
               PROVE  blocks'[h].id[1] = h /\ blocks'[h].id[2] <= reorgs'
    BY <1>5
  <2>1. CASE h \in 1..Height
    BY <1>1, <1>2, <1>5, <1>6, <2>1
  <2>2. CASE h = Height + 1
    BY <1>1, <1>2, <1>3, <1>4, <1>5, <2>2
  <2> QED  BY <1>2, <2>1, <2>2
<1> QED  BY <1>1, <1>2, <1>5, <1>7 DEF ChainMoves

(* Blocks are replaced: the new ones have names no file carries yet. *)
LEMMA ReorgMoves ==
    ASSUME PacketInv, NEW n \in DOMAIN blocks \ {1}, NEW c \in Code, ReorgFrom(n, c)
    PROVE  ChainMoves
<1> DEFINE b(h) == [blocks[h] EXCEPT !.id = <<h, reorgs + 1>>, !.code = c]
<1>1. /\ blocks' = [h \in DOMAIN blocks |-> IF h < n THEN blocks[h] ELSE b(h)]
      /\ reorgs' = reorgs + 1
      /\ UNCHANGED <<fork, file, capturing, generating, checking>>
  BY DEF ReorgFrom
<1>2. /\ DOMAIN blocks = 1..Height /\ Height \in Nat /\ reorgs \in Nat
      /\ \A h \in DOMAIN blocks : blocks[h] \in ChainBlock
  BY InvFacts
<1>3. \A h \in 1..Height : b(h).id[1] = h /\ b(h).id[2] = reorgs + 1
  <2> SUFFICES ASSUME NEW h \in 1..Height
               PROVE  b(h).id[1] = h /\ b(h).id[2] = reorgs + 1
    OBVIOUS
  <2> DEFINE i == <<h, reorgs + 1>>
  <2>1. i \in BlockName /\ i[1] = h /\ i[2] = reorgs + 1
    BY <1>2 DEF BlockName
  <2>2. blocks[h] \in ChainBlock
    BY <1>2
  <2> HIDE DEF i
  <2>3. [blocks[h] EXCEPT !.id = i, !.code = c].id = i
    BY <2>2 DEF ChainBlock
  <2> QED  BY <2>1, <2>3 DEF i
<1> HIDE DEF b
<1>4. Height' = Height /\ DOMAIN blocks' = 1..Height
  <2>1. ChainTyped'
    BY <1>2, InvFacts, AgesFacts, ReorgTyped DEF AgesInv
  <2>2. blocks' \in Seq(ChainBlock)
    BY <2>1 DEF ChainTyped
  <2> QED  BY <1>1, <1>2, <2>2 DEF Height
<1>5. \A h \in DOMAIN blocks : blocks[h].id[1] = h /\ blocks[h].id[2] <= reorgs
  BY InvFacts DEF ChainRight, BlocksNamed
<1>6. \A h \in 1..Height : blocks'[h] = blocks[h] \/ blocks'[h] = b(h)
  BY <1>1, <1>2
<1>7. \A h \in 1..Height : blocks'[h].id[1] = h /\ blocks'[h].id[2] <= reorgs'
  <2> SUFFICES ASSUME NEW h \in 1..Height
               PROVE  blocks'[h].id[1] = h /\ blocks'[h].id[2] <= reorgs'
    OBVIOUS
  <2>1. blocks[h].id \in BlockName
    <3>1. blocks[h] \in ChainBlock
      BY <1>2
    <3> QED  BY <3>1 DEF ChainBlock
  <2>2. blocks[h].id[2] \in Nat
    BY <2>1 DEF BlockName
  <2>3. CASE blocks'[h] = blocks[h]
    BY <1>1, <1>2, <1>5, <2>2, <2>3
  <2>4. CASE blocks'[h] = b(h)
    BY <1>1, <1>2, <1>3, <2>4
  <2> QED  BY <1>6, <2>3, <2>4
<1>8. \A h \in 1..Height : blocks'[h] = blocks[h] \/ blocks'[h].id[2] > reorgs
  BY <1>2, <1>3, <1>6
<1> QED  BY <1>1, <1>2, <1>4, <1>7, <1>8 DEF ChainMoves

LEMMA ChainStepRight ==
    ASSUME PacketInv, AgesInv',
           \/ MineEmpty \/ DeployerSends
           \/ \E c \in Code : ExternalUpgrade(c)
           \/ \E n \in DOMAIN blocks \ {1}, c \in Code : ReorgFrom(n, c)
           \/ TimePasses
    PROVE  PacketInv'
<1>1. Tip \in ChainBlock
  BY InvFacts, AgesFacts, TipIsBlock DEF TipTyped
<1>2. CASE MineEmpty
  BY <1>1, <1>2, GrowMoves, ChainMovesKeep DEF MineEmpty
<1>3. CASE DeployerSends
  <2>1. [Tip EXCEPT !.deployer = @ + 1] \in ChainBlock
    BY <1>1 DEF ChainBlock
  <2> QED  BY <1>3, <2>1, GrowMoves, ChainMovesKeep DEF DeployerSends
<1>4. ASSUME NEW c \in Code, ExternalUpgrade(c)
      PROVE  PacketInv'
  <2>1. [Tip EXCEPT !.code = c] \in ChainBlock
    BY <1>1 DEF ChainBlock
  <2> QED  BY <1>4, <2>1, GrowMoves, ChainMovesKeep DEF ExternalUpgrade
<1>5. ASSUME NEW n \in DOMAIN blocks \ {1}, NEW c \in Code, ReorgFrom(n, c)
      PROVE  PacketInv'
  BY <1>5, ReorgMoves, ChainMovesKeep
<1>6. CASE TimePasses
  <2>1. UNCHANGED <<blocks, reorgs, fork, file, capturing, generating, checking>>
    BY <1>6 DEF TimePasses
  <2> QED  BY <2>1, InvFacts, PartsKept
           DEF PacketInv, Alone, ChainRight, PacketsRight, ChecksRight
<1> QED  BY <1>2, <1>3, <1>4, <1>5, <1>6

(* A step that leaves the chain, the capture, the generator, the preflight  *)
(* and what the snapshot and the packet say                                 *)
LEMMA SteadyKeeps ==
    ASSUME PacketInv, AgesInv',
           UNCHANGED <<blocks, reorgs, capturing, generating, checking>>,
           file'.snapshot = file.snapshot, file'.packet = file.packet, ForkRight'
    PROVE  PacketInv'
BY InvFacts, PartsKept DEF PacketInv, Alone, ChainRight, PacketsRight, ChecksRight

LEMMA HandRight ==
    ASSUME PacketInv, AgesInv', TranscribePolicy \/ StartFork
    PROVE  PacketInv'
<1>1. CASE TranscribePolicy
  <2>1. /\ UNCHANGED <<blocks, reorgs, fork, capturing, generating, checking>>
        /\ \E v, w : file' = [file EXCEPT !.policy.block = v, !.policy.deployer = w]
    BY <1>1 DEF TranscribePolicy, chainVars
  <2>2. file'.snapshot = file.snapshot /\ file'.packet = file.packet
    BY <2>1, InvFacts, AgesFacts DEF Files
  <2> QED  BY <2>1, <2>2, PartsKept, SteadyKeeps
<1>2. CASE StartFork
  <2> DEFINE n == file.policy.block.number
  <2>1. /\ UNCHANGED <<blocks, reorgs, file, capturing, generating, checking>>
        /\ n \in DOMAIN blocks /\ fork' = blocks[n]
    BY <1>2 DEF StartFork, AtPin, chainVars
  <2> HIDE DEF n
  <2>2. blocks[n].id[1] = n /\ blocks[n].id[2] <= reorgs
    BY <2>1, InvFacts DEF ChainRight, BlocksNamed
  <2>3. ForkRight'
    BY <2>1, <2>2 DEF ForkRight, Known, Live
  <2> QED  BY <2>1, <2>3, SteadyKeeps
<1> QED  BY <1>1, <1>2

LEMMA CollectRight ==
    ASSUME PacketInv, AgesInv',
           (\E q \in Quotes : FetchFirst(q) \/ FetchSecond(q)) \/ WritePrices
    PROVE  PacketInv'
<1>1. /\ UNCHANGED <<blocks, reorgs, fork, capturing, generating, checking>>
      /\ file' = file \/ \E v : file' = [file EXCEPT !.price = v]
  BY DEF FetchFirst, FetchSecond, WritePrices, chainVars
<1>2. file'.snapshot = file.snapshot /\ file'.packet = file.packet
  BY <1>1, InvFacts, AgesFacts DEF Files
<1> QED  BY <1>1, <1>2, PartsKept, SteadyKeeps

-----------------------------------------------------------------------------
(* The capture                                                              *)

(* A tool is started only when no other is under way. *)
LEMMA StartsAlone ==
    ASSUME PacketInv, ~ToolsOverlap, NEW tool, Starts(tool)
    PROVE  capturing = Off /\ generating = Off /\ checking.pc \in {"off", "passed"}
<1>1. /\ capturing.pc \in {"off", "passed"}
      /\ generating.pc \in {"off", "passed"}
      /\ checking.pc \in {"off", "passed"}
  BY DEF Starts
<1> QED  BY <1>1, InvFacts, AgesFacts, CaptureStages, GenerateStages

LEMMA CaptureBlockRight ==
    ASSUME PacketInv, AgesInv', ~ToolsOverlap, CaptureBlock
    PROVE  PacketInv'
<1> DEFINE n == Height - Confirmations
           id == blocks[n].id
<1>1. /\ n >= 1 /\ UNCHANGED <<blocks, reorgs, fork, file, generating, checking>>
      /\ capturing'.pc = "pinned" /\ capturing'.number = n /\ capturing'.id = id
  BY DEF CaptureBlock, chainVars
<1>2. generating = Off /\ checking.pc \in {"off", "passed"}
  BY StartsAlone DEF CaptureBlock
<1>3. n \in DOMAIN blocks /\ n \in Nat /\ Confirmations \in Nat /\ Height \in Nat
  BY <1>1, InvFacts
<1>4. id[2] <= reorgs
  BY <1>3, InvFacts DEF ChainRight, BlocksNamed
<1> HIDE DEF n, id
<1>5. Alone'
  BY <1>1, <1>2 DEF Alone, Off
<1>6. ChainRight'
  <2>1. Height' = Height
    BY <1>1 DEF Height
  <2>2. n <= Height - Confirmations
    BY <1>3 DEF n
  <2>3. PinRight'
    BY <1>1, <1>3, <1>4, <2>1, <2>2 DEF PinRight, Known
  <2> QED  BY <1>1, <2>3, PartsKept DEF ChainRight
<1>7. WrittenRight'
  <2> SUFFICES ASSUME file.packet # None
               PROVE  WrittenRight'
    BY <1>1 DEF WrittenRight
  <2> DEFINE b == file.packet.block
  <2>1. /\ Rehearsed(file.packet) /\ Bound(file.packet, file.packet.anchor)
        /\ file.snapshot # None
        /\ Later(file.packet, file.snapshot.number, file.snapshot.id)
    BY InvFacts DEF PacketsRight, WrittenRight
  <2>2. n >= b.number
    <3>1. file.snapshot.number <= n
      BY <2>1, InvFacts DEF ChainRight, SnapshotRight, n
    <3> QED  BY <1>3, <2>1, <3>1, NamesTyped DEF Later
  <2>3. n = b.number => id = b.id \/ ~Live(b.number, b.id)
    BY DEF Live, id
  <2>4. Later(file.packet, n, id)
    BY <2>2, <2>3 DEF Later
  <2> QED  BY <1>1, <2>1, <2>4 DEF WrittenRight, Rehearsed, Later, Bound, Known, Live
<1>8. PassedRight'
  <2> SUFFICES ASSUME checking.pc = "passed"
               PROVE  PassedRight'
    BY <1>1 DEF PassedRight
  <2> DEFINE p == checking.packet
             same == checking.code = p.ranOn
  <2>1. /\ Known(p.block.number, p.block.id)
        /\ Live(p.block.number, p.block.id) /\ Height - Confirmations <= p.block.number
               => same
        /\ SnapshotNames(p) /\ file.snapshot.code = p.ranOn => same
    BY InvFacts DEF ChecksRight, PassedRight
  <2>2. n = p.block.number /\ id = p.block.id => same
    <3>1. n = p.block.number /\ id = p.block.id =>
              Live(p.block.number, p.block.id) /\ Height - Confirmations <= p.block.number
      BY <1>3 DEF Live, id, n
    <3> QED  BY <2>1, <3>1
  <2> HIDE DEF same
  <2>3. Height' = Height
    BY <1>1 DEF Height
  <2> QED  BY <1>1, <2>1, <2>2, <2>3 DEF PassedRight, SnapshotNames, Known, Live, same
<1>9. RehearsedRight' /\ WritingRight' /\ AskingRight'
  BY <1>1, PartsKept
<1> QED  BY <1>5, <1>6, <1>7, <1>8, <1>9 DEF PacketInv, PacketsRight, ChecksRight

LEMMA CaptureStateRight ==
    ASSUME PacketInv, AgesInv', CaptureState
    PROVE  PacketInv'
<1> DEFINE n == capturing.number
           v == [number |-> n, id |-> capturing.id, at |-> capturing.at,
                 deployer |-> blocks[n].deployer, code |-> blocks[n].code]
<1>1. /\ capturing.pc = "pinned" /\ capturing' = Off
      /\ file' = [file EXCEPT !.snapshot = v]
      /\ UNCHANGED <<blocks, reorgs, fork, generating, checking>>
  BY DEF CaptureState, chainVars
<1>2. generating = Off /\ checking.pc \notin {"nonces", "code"}
  BY <1>1, InvFacts DEF Alone, Off
<1>3. file'.snapshot = v /\ file'.packet = file.packet
  BY <1>1, InvFacts, AgesFacts DEF Files
<1>4. v.number = n /\ v.id = capturing.id /\ v.code = blocks[n].code
  OBVIOUS
<1>5. v # None
  <2>1. capturing \in Pinned /\ blocks[n] \in ChainBlock
    BY <1>1, InvFacts, AgesFacts, CaptureStages DEF PinnedOnChain, Off
  <2>2. v \in SnapshotFile
    <3>1. blocks[n].deployer \in Nat /\ blocks[n].code \in Code
      BY <2>1 DEF ChainBlock
    <3> QED  BY <2>1, <3>1 DEF Pinned, SnapshotFile
  <2> QED  BY <2>2, PacketAssumption DEF SnapshotFile, BlockName
<1> HIDE DEF v
<1>6. /\ Known(n, capturing.id) /\ n <= Height - Confirmations /\ Height' = Height
  BY <1>1, InvFacts DEF ChainRight, PinRight, Height
<1>7. Alone'
  BY <1>1, <1>2 DEF Alone
<1>8. ChainRight'
  <2>1. SnapshotRight'
    BY <1>1, <1>3, <1>4, <1>6 DEF SnapshotRight, Known, Live
  <2>2. PinRight'
    BY <1>1 DEF PinRight, Off
  <2> QED  BY <1>1, <2>1, <2>2, PartsKept DEF ChainRight
<1>9. WrittenRight'
  <2> SUFFICES ASSUME file.packet # None
               PROVE  WrittenRight'
    BY <1>3 DEF WrittenRight
  <2>1. /\ Rehearsed(file.packet) /\ Bound(file.packet, file.packet.anchor)
        /\ Later(file.packet, n, capturing.id)
    BY <1>1, InvFacts DEF PacketsRight, WrittenRight
  <2>2. capturing'.pc # "pinned"
    BY <1>1 DEF Off
  <2> QED  BY <1>1, <1>3, <1>4, <1>5, <2>1, <2>2
           DEF WrittenRight, Rehearsed, Later, Bound, Known, Live
<1>10. PassedRight'
  <2> SUFFICES ASSUME checking.pc = "passed"
               PROVE  PassedRight'
    BY <1>1 DEF PassedRight
  <2> DEFINE p == checking.packet
             same == checking.code = p.ranOn
  <2>1. /\ Known(p.block.number, p.block.id)
        /\ Live(p.block.number, p.block.id) /\ Height - Confirmations <= p.block.number
               => same
        /\ n = p.block.number /\ capturing.id = p.block.id => same
    BY <1>1, InvFacts DEF ChecksRight, PassedRight
  <2>2. file'.snapshot.number = p.block.number /\ file'.snapshot.id = p.block.id => same
    BY <1>3, <1>4, <2>1
  <2>3. capturing'.pc # "pinned"
    BY <1>1 DEF Off
  <2> HIDE DEF same
  <2> QED  BY <1>1, <1>6, <2>1, <2>2, <2>3
           DEF PassedRight, SnapshotNames, Known, Live, same
<1>11. RehearsedRight' /\ WritingRight' /\ AskingRight'
  BY <1>1, <1>2 DEF RehearsedRight, WritingRight, AskingRight, Off
<1> QED  BY <1>7, <1>8, <1>9, <1>10, <1>11 DEF PacketInv, PacketsRight, ChecksRight

-----------------------------------------------------------------------------
(* The preflight                                                            *)

LEMMA PreflightStartRight ==
    ASSUME PacketInv, AgesInv', ~ToolsOverlap, PreflightStart
    PROVE  PacketInv'
<1>1. /\ file.packet # None /\ file.snapshot # None
      /\ checking' = [pc |-> "nonces", ok |-> clock <= file.packet.expires,
                      packet |-> file.packet, snapshot |-> file.snapshot]
      /\ UNCHANGED <<blocks, reorgs, fork, file, capturing, generating>>
  BY DEF PreflightStart, chainVars
<1>2. capturing = Off /\ generating = Off
  BY StartsAlone DEF PreflightStart
<1>3. Alone'
  BY <1>1, <1>2 DEF Alone
<1>4. ChecksRight'
  BY <1>1 DEF ChecksRight, AskingRight, PassedRight
<1>5. ChainRight' /\ PacketsRight'
  BY <1>1, PartsKept DEF ChainRight, PacketsRight
<1> QED  BY <1>3, <1>4, <1>5 DEF PacketInv

LEMMA CheckNoncesRight ==
    ASSUME PacketInv, AgesInv', NEW funded, CheckNonces(funded)
    PROVE  PacketInv'
<1>1. /\ checking.pc = "nonces"
      /\ \E ok : checking' = [checking EXCEPT !.pc = "code", !.ok = ok]
      /\ UNCHANGED <<blocks, reorgs, fork, file, capturing, generating>>
  BY DEF CheckNonces, chainVars
<1>2. checking \in Asking
  BY <1>1, InvFacts, AgesFacts, CheckStages
<1>3. /\ checking'.pc = "code" /\ checking'.packet = checking.packet
      /\ checking'.snapshot = checking.snapshot
  BY <1>1, <1>2 DEF Asking
<1>4. Alone'
  BY <1>1, InvFacts DEF Alone
<1>5. ChecksRight'
  BY <1>1, <1>3, InvFacts DEF ChecksRight, AskingRight, PassedRight
<1>6. ChainRight' /\ PacketsRight'
  BY <1>1, PartsKept DEF ChainRight, PacketsRight
<1> QED  BY <1>4, <1>5, <1>6 DEF PacketInv

(* What passed is the code of the snapshot's block if that is the packet's; *)
(* with the packet's block still there and pinned by no later capture, it   *)
(* is the packet's snapshot that was asked for.                             *)
LEMMA CheckCodeRight ==
    ASSUME PacketInv, AgesInv', CheckCode
    PROVE  PacketInv'
<1>1. /\ checking.pc = "code"
      /\ \/ checking' = Off
         \/ /\ checking' = [pc |-> "passed", packet |-> checking.packet, code |-> Tip.code]
            /\ Tip.code = checking.snapshot.code
      /\ UNCHANGED <<blocks, reorgs, fork, file, capturing, generating>>
  BY DEF CheckCode, CodeUnchanged, chainVars
<1>2. /\ capturing = Off /\ generating = Off
      /\ file.packet # None /\ file.packet = checking.packet
      /\ file.snapshot # None /\ file.snapshot = checking.snapshot
  BY <1>1, InvFacts DEF Alone, ChecksRight, AskingRight
<1>3. Alone'
  BY <1>1, <1>2 DEF Alone
<1>4. ChecksRight'
  <2>1. CASE checking' = Off
    BY <2>1 DEF ChecksRight, AskingRight, PassedRight, Off
  <2>2. ASSUME checking' = [pc |-> "passed", packet |-> checking.packet,
                            code |-> Tip.code],
               Tip.code = checking.snapshot.code
        PROVE  ChecksRight'
    <3> DEFINE p == file.packet
               s == file.snapshot
               same == s.code = p.ranOn
    <3>1. /\ checking'.pc = "passed" /\ checking'.packet = p /\ checking'.code = s.code
          /\ capturing'.pc # "pinned"
      BY <1>1, <1>2, <2>2 DEF Off
    <3>2. /\ Known(p.block.number, p.block.id)
          /\ Live(p.block.number, p.block.id) =>
                 blocks[p.block.number].code = p.ranOn
          /\ Later(p, s.number, s.id)
      BY <1>2, InvFacts DEF PacketsRight, WrittenRight, Rehearsed
    <3>3. /\ s.number <= Height - Confirmations
          /\ Live(s.number, s.id) => blocks[s.number].code = s.code
      BY <1>2, InvFacts DEF ChainRight, SnapshotRight
    <3>4. Live(p.block.number, p.block.id) /\ Height - Confirmations <= p.block.number
              => same
      <4> SUFFICES ASSUME Live(p.block.number, p.block.id),
                          Height - Confirmations <= p.block.number
                   PROVE  same
        OBVIOUS
      <4>1. s.number = p.block.number
        BY <1>2, <3>2, <3>3, InvFacts, NamesTyped DEF Later
      <4>2. s.id = p.block.id
        BY <3>2, <4>1 DEF Later
      <4> QED  BY <3>2, <3>3, <4>1, <4>2
    <3> HIDE DEF p, s
    <3>5. PassedRight'
      BY <1>1, <3>1, <3>2, <3>4 DEF PassedRight, SnapshotNames, Known, Live, Height, s
    <3>6. AskingRight'
      BY <3>1 DEF AskingRight
    <3> QED  BY <3>5, <3>6 DEF ChecksRight
  <2> QED  BY <1>1, <2>1, <2>2
<1>5. ChainRight' /\ PacketsRight'
  BY <1>1, PartsKept DEF ChainRight, PacketsRight
<1> QED  BY <1>3, <1>4, <1>5 DEF PacketInv

-----------------------------------------------------------------------------
(* The generator                                                            *)

(* A step of the generator that leaves the snapshot and the packet's file   *)
LEMMA GeneratorKeeps ==
    ASSUME PacketInv, AgesInv',
           UNCHANGED <<blocks, reorgs, fork, capturing, checking>>,
           file'.snapshot = file.snapshot, file'.packet = file.packet,
           generating # Off \/ (capturing = Off /\ checking.pc \notin {"nonces", "code"}),
           RehearsedRight', WritingRight'
    PROVE  PacketInv'
<1>1. Alone'
  BY InvFacts DEF Alone
<1>2. ChainRight' /\ WrittenRight' /\ ChecksRight'
  BY PartsKept DEF ChainRight, ChecksRight
<1> QED  BY <1>1, <1>2 DEF PacketInv, PacketsRight

LEMMA GenerateStartRight ==
    ASSUME PacketInv, AgesInv', ~ToolsOverlap, GenerateStart
    PROVE  PacketInv'
<1>1. /\ generating'.pc = "read"
      /\ UNCHANGED <<blocks, reorgs, fork, file, capturing, checking>>
  BY DEF GenerateStart, chainVars
<1>2. capturing = Off /\ checking.pc \in {"off", "passed"}
  BY StartsAlone DEF GenerateStart
<1>3. RehearsedRight' /\ WritingRight'
  BY <1>1 DEF RehearsedRight, WritingRight
<1> QED  BY <1>1, <1>2, <1>3, GeneratorKeeps

(* The fork is at the live block of the policy, and the transactions run on *)
(* the code the live chain has there.                                       *)
LEMMA GenerateRehearseRight ==
    ASSUME PacketInv, AgesInv', NEW e \in GasEstimates, GenerateRehearse(e)
    PROVE  PacketInv'
<1> DEFINE b == generating.policy.block
<1>1. /\ generating.pc = "read" /\ generating'.pc = "rehearsed"
      /\ generating'.packet.block = b /\ generating'.packet.ranOn = fork.code
      /\ fork # None /\ fork.id = b.id
      /\ Live(b.number, b.id)
      /\ UNCHANGED <<blocks, reorgs, fork, file, capturing, checking>>
  BY DEF GenerateRehearse, ForkIsPinned, AtPin, Live, chainVars
<1> HIDE DEF b
<1>2. b.id[1] = b.number /\ b.id[2] <= reorgs
  BY <1>1, InvFacts DEF ChainRight, BlocksNamed, Live
<1>3. blocks[b.number].code = fork.code
  BY <1>1, <1>2, InvFacts DEF ChainRight, ForkRight
<1>4. Rehearsed(generating.packet)'
  BY <1>1, <1>2, <1>3 DEF Rehearsed, Known, Live
<1>5. SnapshotNames(generating.packet)' => file'.snapshot.code = generating'.packet.ranOn
  <2> SUFFICES ASSUME file.snapshot # None, file.snapshot.number = b.number,
                      file.snapshot.id = b.id
               PROVE  file.snapshot.code = fork.code
    BY <1>1 DEF SnapshotNames
  <2>1. blocks[b.number].code = file.snapshot.code
    BY <1>1, InvFacts DEF ChainRight, SnapshotRight
  <2> QED  BY <1>3, <2>1
<1>6. RehearsedRight'
  BY <1>4, <1>5 DEF RehearsedRight
<1>7. WritingRight'
  BY <1>1 DEF WritingRight
<1>8. generating # Off
  BY <1>1 DEF Off
<1> QED  BY <1>1, <1>6, <1>7, <1>8, GeneratorKeeps

(* The authorization is of the snapshot's code, and the snapshot is one of  *)
(* the packet's own block.                                                  *)
LEMMA GenerateBuildRight ==
    ASSUME PacketInv, AgesInv', GenerateBuild
    PROVE  PacketInv'
<1> DEFINE q == generating.packet
           s == file.snapshot
           object == Canonical(q, s)
           packet == [q EXCEPT !.anchor = object]
<1>1. /\ generating.pc = "rehearsed" /\ s # None
      /\ Reconstructs(q, generating.policy, s)
      /\ generating'.pc = "built" /\ generating'.packet = packet
      /\ generating'.object = object
      /\ UNCHANGED <<blocks, reorgs, fork, file, capturing, checking>>
  BY DEF GenerateBuild, chainVars
<1>2. q \in Packet
  BY <1>1, InvFacts, AgesFacts, GenerateStages DEF Rehearsing
<1>3. /\ object.code = s.code /\ object.startNonce = q.deployer
      /\ object.gas = q.gas /\ object.generated = q.generated
  BY DEF Canonical
<1> HIDE DEF object
<1>4. /\ packet.block = q.block /\ packet.ranOn = q.ranOn
      /\ packet.deployer = q.deployer /\ packet.gas = q.gas
      /\ packet.generated = q.generated /\ packet.anchor = object
  BY <1>2 DEF Packet
<1> HIDE DEF packet
<1>5. SnapshotNames(q)
  BY <1>1 DEF Reconstructs, SnapshotNames
<1>6. Rehearsed(q) /\ s.code = q.ranOn
  BY <1>1, <1>5, InvFacts DEF PacketsRight, RehearsedRight
<1> HIDE DEF q, s
<1>7. Rehearsed(generating.packet)'
  BY <1>1, <1>4, <1>6 DEF Rehearsed, Known, Live
<1>8. SnapshotNames(generating.packet)'
  BY <1>1, <1>4, <1>5 DEF SnapshotNames
<1>9. Bound(generating.packet, generating.object)'
  BY <1>1, <1>3, <1>4, <1>6 DEF Bound
<1>10. WritingRight'
  BY <1>1, <1>4, <1>7, <1>8, <1>9 DEF WritingRight
<1>11. RehearsedRight'
  BY <1>1 DEF RehearsedRight
<1>12. generating # Off
  BY <1>1 DEF Off
<1> QED  BY <1>1, <1>10, <1>11, <1>12, GeneratorKeeps

(* A write of the generator: it goes on with the packet it has, or ends. *)
LEMMA WriteSteps ==
    ASSUME PacketInv, NEW pc \in {"built", "policy", "packaged", "packet"},
           NEW key, NEW v,
           NEW next \in {"policy", "packaged", "packet", "off"}, Writes(pc, key, v, next),
           file'.snapshot = file.snapshot
    PROVE  /\ RehearsedRight' /\ WritingRight'
           /\ generating # Off /\ generating.pc = pc
           /\ UNCHANGED <<blocks, reorgs, fork, capturing, checking>>
<1>1. /\ UNCHANGED <<blocks, reorgs, fork, capturing, checking>>
      /\ generating.pc = pc
      /\ \/ generating' = Off
         \/ next # "off" /\ generating' = [generating EXCEPT !.pc = next]
  BY DEF Writes, chainVars
<1>2. generating \in WritingPacket
  BY <1>1, InvFacts, AgesFacts, GenerateStages
<1>3. generating # Off
  BY <1>1 DEF Off
<1>4. CASE generating' = Off
  BY <1>1, <1>3, <1>4 DEF RehearsedRight, WritingRight, Off
<1>5. CASE next # "off" /\ generating' = [generating EXCEPT !.pc = next]
  <2>1. /\ generating'.pc = next /\ generating'.packet = generating.packet
        /\ generating'.object = generating.object
    BY <1>2, <1>5 DEF WritingPacket
  <2>2. /\ Rehearsed(generating.packet) /\ SnapshotNames(generating.packet)
        /\ generating.packet.anchor = generating.object
        /\ Bound(generating.packet, generating.object)
    BY <1>1, InvFacts DEF PacketsRight, WritingRight
  <2>3. WritingRight'
    BY <1>1, <2>1, <2>2 DEF WritingRight, Rehearsed, SnapshotNames, Bound, Known, Live
  <2>4. RehearsedRight'
    BY <1>5, <2>1 DEF RehearsedRight
  <2> QED  BY <1>1, <1>3, <2>3, <2>4
<1> QED  BY <1>1, <1>4, <1>5

LEMMA WritePacketRight ==
    ASSUME PacketInv, AgesInv', WritePacket
    PROVE  PacketInv'
<1> DEFINE p == generating.packet
<1>1. generating.pc = "packaged" /\ file' = [file EXCEPT !["packet"] = p]
  BY DEF WritePacket, Writes
<1>2. p \in Packet
  BY <1>1, InvFacts, AgesFacts, GenerateStages DEF WritingPacket
<1>3. file'.snapshot = file.snapshot /\ file'.packet = p
  BY <1>1, <1>2, InvFacts, AgesFacts, FileWrites
<1>4. /\ RehearsedRight' /\ WritingRight' /\ generating # Off
      /\ UNCHANGED <<blocks, reorgs, fork, capturing, checking>>
  BY <1>3, WriteSteps DEF WritePacket
<1>5. capturing = Off /\ checking.pc \notin {"nonces", "code"}
  BY <1>4, InvFacts DEF Alone
<1>6. Rehearsed(p) /\ SnapshotNames(p) /\ Bound(p, p.anchor)
  BY <1>1, InvFacts DEF PacketsRight, WritingRight
<1> HIDE DEF p
<1>7. Later(p, file.snapshot.number, file.snapshot.id)
  BY <1>2, <1>6 DEF SnapshotNames, Later, Packet, PolicyBlock
<1>8. WrittenRight'
  BY <1>3, <1>4, <1>5, <1>6, <1>7
     DEF WrittenRight, Rehearsed, SnapshotNames, Bound, Later, Known, Live, Off
<1>9. Alone' /\ AskingRight'
  BY <1>4, <1>5 DEF Alone, AskingRight
<1>10. ChainRight' /\ PassedRight'
  BY <1>3, <1>4, PartsKept DEF ChainRight
<1> QED  BY <1>4, <1>8, <1>9, <1>10 DEF PacketInv, PacketsRight, ChecksRight

LEMMA WriteRight ==
    ASSUME PacketInv, AgesInv',
           WritePolicy \/ WritePackaged \/ WriteManifest \/ GenerateStops
    PROVE  PacketInv'
<1>1. CASE WritePolicy
  <2>1. file' = [file EXCEPT !["policy"] = generating.policy]
    BY <1>1 DEF WritePolicy, Writes
  <2>2. file'.snapshot = file.snapshot /\ file'.packet = file.packet
    BY <2>1, InvFacts, AgesFacts DEF Files
  <2> QED  BY <1>1, <2>2, WriteSteps, GeneratorKeeps DEF WritePolicy
<1>2. CASE WritePackaged
  <2>1. file' = [file EXCEPT !["packaged"] = generating.object]
    BY <1>2 DEF WritePackaged, Writes
  <2>2. file'.snapshot = file.snapshot /\ file'.packet = file.packet
    BY <2>1, InvFacts, AgesFacts DEF Files
  <2> QED  BY <1>2, <2>2, WriteSteps, GeneratorKeeps DEF WritePackaged
<1>3. CASE WriteManifest
  <2>1. file' = [file EXCEPT !["manifest"] = generating.packet.deployer]
    BY <1>3 DEF WriteManifest, Writes
  <2>2. file'.snapshot = file.snapshot /\ file'.packet = file.packet
    BY <2>1, InvFacts, AgesFacts DEF Files
  <2> QED  BY <1>3, <2>2, WriteSteps, GeneratorKeeps DEF WriteManifest
<1>4. CASE GenerateStops
  <2>1. /\ generating # Off /\ generating' = Off
        /\ UNCHANGED <<blocks, reorgs, fork, file, capturing, checking>>
    BY <1>4 DEF GenerateStops, chainVars
  <2>2. RehearsedRight' /\ WritingRight'
    BY <2>1 DEF RehearsedRight, WritingRight, Off
  <2> QED  BY <2>1, <2>2, GeneratorKeeps
<1> QED  BY <1>1, <1>2, <1>3, <1>4

-----------------------------------------------------------------------------
LEMMA PacketInitRight == PacketInit => PacketInv
<1> SUFFICES ASSUME PacketInit
             PROVE  PacketInv
  OBVIOUS
<1>1. AgesInv
  BY InitAges
<1>2. /\ fork = None /\ reorgs = 0 /\ file.snapshot = None /\ file.packet = None
      /\ capturing = Off /\ generating = Off /\ checking = Off
  BY DEF PacketInit
<1>3. BlocksNamed
  <2>1. PICK c \in Code :
            blocks = [h \in 1..(Confirmations + 1) |->
                         [id |-> <<h, 0>>, at |-> 0, deployer |-> 0, code |-> c]]
    BY DEF PacketInit
  <2>2. \A h \in DOMAIN blocks : blocks[h].id[1] = h /\ blocks[h].id[2] = 0
    BY <2>1
  <2> QED  BY <1>2, <2>2 DEF BlocksNamed
<1>4. Alone /\ ForkRight /\ PinRight /\ SnapshotRight
  BY <1>2 DEF Alone, ForkRight, PinRight, SnapshotRight, Off
<1>5. PacketsRight /\ ChecksRight
  BY <1>2 DEF PacketsRight, RehearsedRight, WritingRight, WrittenRight, ChecksRight,
              AskingRight, PassedRight, Off
<1> QED  BY <1>1, <1>3, <1>4, <1>5 DEF PacketInv, ChainRight

LEMMA PacketStepRight ==
    ASSUME PacketInv, ~ToolsOverlap, [PacketNext]_packetVars
    PROVE  PacketInv'
<1>1. AgesInv'
  BY InvFacts, StepAges
<1>2. CASE \/ MineEmpty \/ DeployerSends
           \/ \E c \in Code : ExternalUpgrade(c)
           \/ \E n \in DOMAIN blocks \ {1}, c \in Code : ReorgFrom(n, c)
           \/ TimePasses
  BY <1>1, <1>2, ChainStepRight
<1>3. CASE CaptureBlock \/ CaptureState
  BY <1>1, <1>3, CaptureBlockRight, CaptureStateRight
<1>4. CASE TranscribePolicy \/ StartFork
  BY <1>1, <1>4, HandRight
<1>5. CASE (\E q \in Quotes : FetchFirst(q) \/ FetchSecond(q)) \/ WritePrices
  BY <1>1, <1>5, CollectRight
<1>6. CASE \/ GenerateStart \/ GenerateBuild
           \/ \E e \in GasEstimates : GenerateRehearse(e)
  BY <1>1, <1>6, GenerateStartRight, GenerateBuildRight, GenerateRehearseRight
<1>7. CASE WritePolicy \/ WritePackaged \/ WritePacket \/ WriteManifest \/ GenerateStops
  BY <1>1, <1>7, WritePacketRight, WriteRight
<1>8. CASE \/ PreflightStart \/ CheckCode
           \/ \E funded \in BOOLEAN : CheckNonces(funded)
  BY <1>1, <1>8, PreflightStartRight, CheckCodeRight, CheckNoncesRight
<1>9. CASE UNCHANGED packetVars
  <2>1. UNCHANGED <<blocks, reorgs, fork, file, capturing, generating, checking>>
    BY <1>9 DEF packetVars
  <2> QED  BY <1>1, <2>1, PartsKept, SteadyKeeps
<1> QED  BY <1>2, <1>3, <1>4, <1>5, <1>6, <1>7, <1>8, <1>9 DEF PacketNext

(* The chain may reorganise, upgrade its contracts and grow under the       *)
(* tools, an operator may run them in any order and kill any of them; while *)
(* no two run at once, PacketInv holds.                                     *)
THEOREM PacketInvariant ==
    ASSUME ~ToolsOverlap
    PROVE  PacketSpec => []PacketInv
<1>1. PacketInit => PacketInv
  BY PacketInitRight
<1>2. PacketInv /\ [PacketNext]_packetVars => PacketInv'
  BY PacketStepRight
<1> QED  BY <1>1, <1>2, PTL DEF PacketSpec

(* operator-core.mjs, bindAndVerifyPacket: what the page of the operator    *)
(* binds itself to is the code, the nonces, the gas and the generation the  *)
(* rehearsal of the packet had, whatever runs wrote the four files.         *)
THEOREM AuthorizationRehearsed ==
    ASSUME ~ToolsOverlap
    PROVE  PacketSpec => []AuthorizationIsRehearsal
<1>1. PacketInv => AuthorizationIsRehearsal
  <2> SUFFICES ASSUME PacketInv, Binds
               PROVE  Bound(file.packet, file.packaged)
    BY DEF AuthorizationIsRehearsal, Bound
  <2>1. file.packet # None
    BY DEF Binds
  <2>2. file.packet.anchor = file.packaged
    BY DEF Binds, AnchorsAgree
  <2> QED  BY <2>1, <2>2, InvFacts DEF PacketsRight, WrittenRight
<1> QED  BY <1>1, PacketInvariant, PTL

(* preflight-check.mjs: a preflight that passed while the files verify saw  *)
(* on the live chain the external contracts' code the packet ran on.        *)
THEOREM PreflightRehearsed ==
    ASSUME ~ToolsOverlap
    PROVE  PacketSpec => []PreflightSawRehearsal
<1>1. PacketInv => PreflightSawRehearsal
  <2> SUFFICES ASSUME PacketInv, checking.pc = "passed", Verifies,
                      file.packet = checking.packet
               PROVE  checking.code = file.packet.ranOn
    BY DEF PreflightSawRehearsal
  <2>1. file.packet # None /\ file.snapshot # None
    BY InvFacts, AgesFacts DEF Verifies, AllWritten, Files
  <2>2. SnapshotNames(file.packet)
    BY <2>1 DEF Verifies, Reconstructs, SnapshotNames
  <2>3. file.packet.anchor.code = file.snapshot.code
    BY DEF Verifies, AnchorsAgree, Canonical
  <2>4. file.packet.anchor.code = file.packet.ranOn
    BY <2>1, InvFacts DEF PacketsRight, WrittenRight, Bound
  <2> QED  BY <2>2, <2>3, <2>4, InvFacts DEF ChecksRight, PassedRight
<1> QED  BY <1>1, PacketInvariant, PTL

-----------------------------------------------------------------------------
(* The recovery's capture *)

LedgerBlock == [id : Nat \X Nat, nonces : SUBSET Nonces]

(* What every state of the chain is, and what the capture saw at its start *)
ChainRecord(chain) ==
    /\ chain \in Seq(LedgerBlock)
    /\ Len(chain) >= 2 /\ chain[1].nonces = {}
    /\ \A j, k \in DOMAIN chain : j # k => chain[j].nonces \cap chain[k].nonces = {}
    /\ InOrder(chain)
    /\ \A h \in DOMAIN chain : chain[h].id[2] <= shuffles

LedgerRight == shuffles \in Nat /\ ChainRecord(ledger)

Anchor == [block : Nat, id : Nat \X Nat]
Beginnings == [pc : {"nonces", "failed"}, head : Nat, seen : Seq(LedgerBlock)]
Searches == [pc : {"probe", "receipt", "found"}, head : Nat, seen : Seq(LedgerBlock),
             nonce : Nonces, lo : Nat, hi : Nat, anchors : Seq(Anchor)]
Endings == [pc : {"pinned", "anchored", "done"}, head : Nat, seen : Seq(LedgerBlock),
            anchors : Seq(Anchor), pinned : [number : Nat, id : Nat \X Nat]]

SearchTyped == search \in {Off} \cup Beginnings \cup Searches \cup Endings

(* The blocks the capture began with are the chain's still. *)
Undisturbed == \A h \in 1..search.head : ledger[h] = search.seen[h]

(* The first n anchors are where the chain of the start has their transactions. *)
AnchorsRight(seen, anchors, n) ==
    /\ Len(anchors) = n
    /\ \A m \in 1..n :
         LET h == BlockOf(seen, m) IN anchors[m] = [block |-> h, id |-> seen[h].id]

BegunRight ==
    search.pc # "off" =>
        /\ ChainRecord(search.seen)
        /\ Len(search.seen) = search.head /\ search.head <= Len(ledger)

(* The transaction looked for is between the bounds of its search, if the  *)
(* chain of the start had it.                                              *)
SearchRight ==
    /\ search.pc = "receipt" => search.nonce \in MinedIn(ledger)
    /\ search.pc \in {"probe", "receipt"} /\ Undisturbed =>
        /\ 1 <= search.lo /\ search.lo <= search.hi /\ search.hi <= search.head
        /\ AnchorsRight(search.seen, search.anchors, search.nonce - 1)
        /\ \A h \in 1..search.head :
             search.nonce \in search.seen[h].nonces => search.lo <= h /\ h <= search.hi
    /\ search.pc = "receipt" /\ Undisturbed =>
           search.nonce \in search.seen[search.lo].nonces
    /\ search.pc \in {"found", "pinned", "anchored", "done"} /\ Undisturbed =>
           AnchorsRight(search.seen, search.anchors, Completed)
    /\ search.pc = "failed" /\ Undisturbed => MinedIn(search.seen) # Nonces

CaptureInv == LedgerRight /\ SearchTyped /\ BegunRight /\ SearchRight

-----------------------------------------------------------------------------
(* What a prefix of the chain has mined *)
LEMMA PrefixMined ==
    ASSUME NEW chain \in Seq(LedgerBlock), NEW h \in 0..Len(chain), NEW n
    PROVE  n \in MinedIn(SubSeq(chain, 1, h)) <=> \E k \in 1..h : n \in chain[k].nonces
<1> DEFINE s == SubSeq(chain, 1, h)
<1>1. /\ DOMAIN s = 1..h
      /\ \A k \in 1..h : s[k] = chain[k]
  <2>1. Len(chain) \in Nat /\ h \in Nat /\ h <= Len(chain)
    OBVIOUS
  <2> QED  BY <2>1
<1>2. n \in MinedIn(s) <=> \E k \in DOMAIN s : n \in s[k].nonces
  BY DEF MinedIn
<1> QED  BY <1>1, <1>2

LEMMA AllMined ==
    ASSUME NEW chain, NEW n
    PROVE  n \in MinedIn(chain) <=> \E k \in DOMAIN chain : n \in chain[k].nonces
BY DEF MinedIn

LEMMA LedgerIndex ==
    ASSUME NEW chain \in Seq(LedgerBlock)
    PROVE  /\ DOMAIN chain = 1..Len(chain) /\ Len(chain) \in Nat
           /\ \A k \in DOMAIN chain : chain[k] \in LedgerBlock
           /\ \A k \in DOMAIN chain : /\ chain[k].nonces \in SUBSET Nonces
                                      /\ chain[k].id \in Nat \X Nat
<1>1. /\ DOMAIN chain = 1..Len(chain) /\ Len(chain) \in Nat
      /\ \A k \in DOMAIN chain : chain[k] \in LedgerBlock
  OBVIOUS
<1> QED  BY <1>1 DEF LedgerBlock

(* A prefix mines the nonces up to some number. *)
LEMMA PrefixDownClosed ==
    ASSUME NEW chain, ChainRecord(chain), NEW h \in 0..Len(chain),
           NEW n \in MinedIn(SubSeq(chain, 1, h)), NEW m \in 1..n
    PROVE  m \in MinedIn(SubSeq(chain, 1, h))
<1>1. chain \in Seq(LedgerBlock) /\ InOrder(chain) /\ h \in Nat
  BY DEF ChainRecord
<1>2. PICK k \in 1..h : n \in chain[k].nonces
  BY <1>1, PrefixMined
<1>3. k \in DOMAIN chain /\ k \in 0..Len(chain) /\ k <= h /\ n \in Nat
  <2>1. k \in DOMAIN chain /\ k \in 0..Len(chain) /\ k <= h
    BY <1>1, LedgerIndex
  <2> QED  BY <1>1, <1>2, <2>1, LedgerIndex DEF Nonces
<1>4. CASE m = n
  BY <1>4
<1>5. CASE m # n
  <2>1. m \in 1..(n - 1)
    BY <1>3, <1>5
  <2>2. m \in MinedIn(SubSeq(chain, 1, k))
    BY <1>1, <1>2, <1>3, <2>1 DEF InOrder
  <2>3. PICK j \in 1..k : m \in chain[j].nonces
    BY <1>1, <1>3, <2>2, PrefixMined
  <2>4. j \in 1..h
    BY <1>1, <1>3
  <2> QED  BY <1>1, <2>3, <2>4, PrefixMined
<1> QED  BY <1>4, <1>5

(* The count of a block tells whether a nonce is mined up to it. *)
LEMMA CountRight ==
    ASSUME NEW chain, ChainRecord(chain), NEW h \in 0..Len(chain), NEW n \in Nonces
    PROVE  CountAt(chain, h) >= n <=> \E k \in 1..h : n \in chain[k].nonces
<1> DEFINE S == MinedIn(SubSeq(chain, 1, h))
<1>1. chain \in Seq(LedgerBlock) /\ Completed \in Nat /\ n \in Nat /\ n >= 1
  BY RecoveryAssumption DEF ChainRecord, Nonces
<1>2. S \subseteq Nonces
  <2> SUFFICES ASSUME NEW x \in S PROVE x \in Nonces
    OBVIOUS
  <2>1. PICK k \in 1..h : x \in chain[k].nonces
    BY <1>1, PrefixMined
  <2>2. k \in DOMAIN chain
    BY <1>1, LedgerIndex
  <2> QED  BY <1>1, <2>1, <2>2, LedgerIndex
<1>3. /\ IsFiniteSet(Nonces) /\ IsFiniteSet(S)
      /\ Cardinality(S) \in Nat
  <2>1. IsFiniteSet(Nonces)
    BY <1>1, FS_Interval DEF Nonces
  <2> QED  BY <1>2, <2>1, FS_Subset, FS_CardinalityType
<1>4. CountAt(chain, h) = Cardinality(S)
  BY DEF CountAt
<1>5. n \in S <=> \E k \in 1..h : n \in chain[k].nonces
  BY <1>1, PrefixMined
<1>6. ASSUME n \in S PROVE Cardinality(S) >= n
  <2>1. 1..n \subseteq S
    BY <1>6, PrefixDownClosed
  <2>2. Cardinality(1..n) = n
    BY <1>1, FS_Interval
  <2>3. Cardinality(1..n) <= Cardinality(S)
    BY <1>3, <2>1, FS_Subset
  <2> QED  BY <1>1, <1>3, <2>2, <2>3
<1>7. ASSUME n \notin S PROVE ~(Cardinality(S) >= n)
  <2>1. S \subseteq 1..(n - 1)
    <3> SUFFICES ASSUME NEW x \in S PROVE x \in 1..(n - 1)
      OBVIOUS
    <3>1. x \in Nat /\ x >= 1
      BY <1>1, <1>2 DEF Nonces
    <3>2. ~(n <= x)
      <4>1. ASSUME n <= x PROVE FALSE
        <5>1. n \in 1..x
          BY <1>1, <3>1, <4>1
        <5> QED  BY <1>7, <5>1, PrefixDownClosed
      <4> QED  BY <4>1
    <3> QED  BY <1>1, <3>1, <3>2
  <2>2. IsFiniteSet(1..(n - 1)) /\ Cardinality(1..(n - 1)) = n - 1
    BY <1>1, FS_Interval
  <2>3. Cardinality(S) <= n - 1
    BY <2>1, <2>2, FS_Subset
  <2> QED  BY <1>1, <1>3, <2>3
<1> QED  BY <1>4, <1>5, <1>6, <1>7

(* A nonce is in one block. *)
LEMMA BlockOfIs ==
    ASSUME NEW chain, ChainRecord(chain), NEW k \in DOMAIN chain,
           NEW n \in chain[k].nonces
    PROVE  BlockOf(chain, n) = k
<1>1. \A j \in DOMAIN chain : n \in chain[j].nonces => j = k
  BY DEF ChainRecord
<1> QED  BY <1>1 DEF BlockOf

(* The next nonce is not before it. *)
LEMMA NextNotBefore ==
    ASSUME NEW chain, ChainRecord(chain), NEW k \in DOMAIN chain, NEW j \in DOMAIN chain,
           NEW n \in Nat \ {0}, n \in chain[k].nonces, n + 1 \in chain[j].nonces
    PROVE  k <= j
<1>1. chain \in Seq(LedgerBlock) /\ InOrder(chain)
      /\ j \in 0..Len(chain) /\ j \in Nat /\ k \in Nat
  BY LedgerIndex DEF ChainRecord
<1>2. n \in 1..((n + 1) - 1)
  OBVIOUS
<1>3. n \in MinedIn(SubSeq(chain, 1, j))
  BY <1>1, <1>2 DEF InOrder
<1>4. PICK i \in 1..j : n \in chain[i].nonces
  BY <1>1, <1>3, PrefixMined
<1>5. i \in DOMAIN chain /\ i <= j
  BY <1>1, LedgerIndex
<1>6. i = k
  BY <1>4, <1>5 DEF ChainRecord
<1> QED  BY <1>5, <1>6

-----------------------------------------------------------------------------
(* The chain moves. *)

LEMMA ExtendKeeps ==
    ASSUME LedgerRight, NEW nonces \in SUBSET (Nonces \ MinedIn(ledger)), Extend(nonces)
    PROVE  /\ LedgerRight' /\ shuffles' = shuffles
           /\ Len(ledger) <= Len(ledger') /\ MinedIn(ledger) \subseteq MinedIn(ledger')
           /\ \A h \in DOMAIN ledger : ledger'[h] = ledger[h]
<1> DEFINE b == [id |-> <<Len(ledger) + 1, shuffles>>, nonces |-> nonces]
           n == Len(ledger) + 1
<1>1. /\ ledger \in Seq(LedgerBlock) /\ Len(ledger) \in Nat /\ shuffles \in Nat
      /\ Len(ledger) >= 2 /\ ledger[1].nonces = {}
      /\ \A j, k \in DOMAIN ledger : j # k => ledger[j].nonces \cap ledger[k].nonces = {}
      /\ \A h \in DOMAIN ledger : ledger[h].id[2] <= shuffles
  BY DEF LedgerRight, ChainRecord
<1>2. /\ b \in LedgerBlock /\ b.nonces = nonces /\ b.id[2] = shuffles
      /\ ledger' = Append(ledger, b) /\ InOrder(ledger') /\ shuffles' = shuffles
  BY <1>1 DEF Extend, LedgerBlock
<1> HIDE DEF b
<1>3. /\ ledger' \in Seq(LedgerBlock) /\ Len(ledger') = n
      /\ DOMAIN ledger' = 1..n /\ DOMAIN ledger = 1..Len(ledger)
      /\ ledger'[n] = b /\ \A h \in DOMAIN ledger : ledger'[h] = ledger[h]
  BY <1>1, <1>2
<1>4. \A h \in DOMAIN ledger' : h = n \/ h \in DOMAIN ledger
  BY <1>1, <1>3
<1>5. \A h \in DOMAIN ledger : ledger[h].nonces \cap nonces = {}
  BY AllMined
<1>6. \A j, k \in DOMAIN ledger' : j # k => ledger'[j].nonces \cap ledger'[k].nonces = {}
  <2> SUFFICES ASSUME NEW j \in DOMAIN ledger', NEW k \in DOMAIN ledger', j # k
               PROVE  ledger'[j].nonces \cap ledger'[k].nonces = {}
    OBVIOUS
  <2>1. CASE j \in DOMAIN ledger /\ k \in DOMAIN ledger
    BY <1>1, <1>3, <2>1
  <2>2. CASE j \in DOMAIN ledger /\ k = n
    BY <1>2, <1>3, <1>5, <2>2
  <2>3. CASE k \in DOMAIN ledger /\ j = n
    BY <1>2, <1>3, <1>5, <2>3
  <2> QED  BY <1>4, <2>1, <2>2, <2>3
<1>7. \A h \in DOMAIN ledger' : ledger'[h].id[2] <= shuffles'
  BY <1>1, <1>2, <1>3, <1>4
<1>8. ledger'[1].nonces = {} /\ Len(ledger') >= 2
  <2>1. 1 \in DOMAIN ledger
    BY <1>1, <1>3
  <2> QED  BY <1>1, <1>3, <2>1
<1>9. ChainRecord(ledger)'
  BY <1>2, <1>3, <1>6, <1>7, <1>8 DEF ChainRecord
<1>10. DOMAIN ledger \subseteq DOMAIN ledger'
  BY <1>1, <1>3
<1>11. MinedIn(ledger) \subseteq MinedIn(ledger')
  BY <1>3, <1>10 DEF MinedIn
<1> QED  BY <1>1, <1>2, <1>3, <1>9, <1>11 DEF LedgerRight

LEMMA ShuffleKeeps ==
    ASSUME LedgerRight, NEW h \in DOMAIN ledger \ {1}, Shuffle(h)
    PROVE  /\ LedgerRight' /\ shuffles' = shuffles + 1
           /\ Len(ledger) = Len(ledger') /\ MinedIn(ledger) = MinedIn(ledger')
           /\ \A k \in DOMAIN ledger : k < h => ledger'[k] = ledger[k]
           /\ \A k \in DOMAIN ledger : k >= h => ledger'[k].id[2] > shuffles
<1> DEFINE n == Len(ledger)
           later == MinedIn(SubSeq(ledger, h, n))
<1>1. /\ ledger \in Seq(LedgerBlock) /\ n \in Nat /\ shuffles \in Nat
      /\ n >= 2 /\ ledger[1].nonces = {} /\ DOMAIN ledger = 1..n
      /\ \A j, k \in DOMAIN ledger : j # k => ledger[j].nonces \cap ledger[k].nonces = {}
      /\ \A k \in DOMAIN ledger : ledger[k].id[2] <= shuffles
      /\ \A k \in DOMAIN ledger : /\ ledger[k] \in LedgerBlock
                                  /\ ledger[k].nonces \in SUBSET Nonces
  BY LedgerIndex DEF LedgerRight, ChainRecord
<1>2. h \in Nat /\ 2 <= h /\ h <= n
  BY <1>1
<1>3. PICK place \in [h..n -> SUBSET later] :
        /\ ledger' = [k \in DOMAIN ledger |->
              IF k < h THEN ledger[k]
              ELSE [id |-> <<k, shuffles + 1>>, nonces |-> place[k]]]
        /\ \A j, k \in h..n : j # k => place[j] \cap place[k] = {}
        /\ MinedIn(ledger') = MinedIn(ledger)
        /\ InOrder(ledger')
  BY DEF Shuffle
<1>4. shuffles' = shuffles + 1
  BY DEF Shuffle
<1>5. \A x \in later : \E k \in h..n : x \in ledger[k].nonces
  <2> DEFINE s == SubSeq(ledger, h, n)
  <2>1. DOMAIN s = 1..(n - h + 1) /\ \A i \in 1..(n - h + 1) : s[i] = ledger[h + i - 1]
    BY <1>1, <1>2
  <2>2. \A i \in 1..(n - h + 1) : h + i - 1 \in h..n
    BY <1>1, <1>2
  <2> QED  BY <2>1, <2>2 DEF MinedIn
<1>6. \A k \in DOMAIN ledger :
        /\ k < h => ledger'[k] = ledger[k]
        /\ k >= h => /\ ledger'[k] = [id |-> <<k, shuffles + 1>>, nonces |-> place[k]]
                     /\ place[k] \in SUBSET later
  <2>1. \A k \in DOMAIN ledger : k \in Nat /\ (k >= h => ~(k < h) /\ k \in h..n)
    BY <1>1, <1>2
  <2> QED  BY <1>3, <2>1
<1>7. later \subseteq Nonces
  <2>1. \A k \in h..n : k \in DOMAIN ledger
    BY <1>1, <1>2
  <2> QED  BY <1>1, <1>5, <2>1
<1>8. \A k \in DOMAIN ledger : k >= h =>
        /\ ledger'[k] \in LedgerBlock /\ ledger'[k].nonces = place[k]
        /\ ledger'[k].id[2] = shuffles + 1
  <2> SUFFICES ASSUME NEW k \in DOMAIN ledger, k >= h
               PROVE  /\ ledger'[k] \in LedgerBlock /\ ledger'[k].nonces = place[k]
                      /\ ledger'[k].id[2] = shuffles + 1
    OBVIOUS
  <2>1. ledger'[k] = [id |-> <<k, shuffles + 1>>, nonces |-> place[k]]
    BY <1>6
  <2>2. place[k] \in SUBSET Nonces
    BY <1>6, <1>7
  <2>3. <<k, shuffles + 1>> \in Nat \X Nat
    BY <1>1
  <2> QED  BY <2>1, <2>2, <2>3 DEF LedgerBlock
<1>9. \A k \in DOMAIN ledger : k \in Nat /\ (k < h \/ k >= h)
  BY <1>1, <1>2
<1>10. ledger' \in Seq(LedgerBlock) /\ Len(ledger') = n /\ DOMAIN ledger' = DOMAIN ledger
  <2>1. ledger' \in [1..n -> LedgerBlock]
    <3>1. \A k \in DOMAIN ledger : ledger'[k] \in LedgerBlock
      BY <1>1, <1>6, <1>8, <1>9
    <3>2. ledger' = [k \in 1..n |-> ledger'[k]]
      BY <1>1, <1>3
    <3> QED  BY <1>1, <3>1, <3>2
  <2> QED  BY <1>1, <2>1
<1>11. \A j, k \in DOMAIN ledger : j # k => ledger'[j].nonces \cap ledger'[k].nonces = {}
  <2>1. ASSUME NEW j \in DOMAIN ledger, NEW k \in DOMAIN ledger, j < h, k >= h
        PROVE  ledger'[j].nonces \cap ledger'[k].nonces = {}
    <3> SUFFICES ASSUME NEW x \in ledger[j].nonces, x \in place[k] PROVE FALSE
      BY <1>6, <1>8, <2>1
    <3>1. PICK i \in h..n : x \in ledger[i].nonces
      BY <1>5, <1>6, <2>1
    <3>2. i \in DOMAIN ledger /\ i # j
      BY <1>1, <1>2, <2>1
    <3> QED  BY <1>1, <3>1, <3>2
  <2>2. ASSUME NEW j \in DOMAIN ledger, NEW k \in DOMAIN ledger, j # k, j >= h, k >= h
        PROVE  ledger'[j].nonces \cap ledger'[k].nonces = {}
    <3>1. j \in h..n /\ k \in h..n
      BY <1>1, <1>2, <2>2
    <3> QED  BY <1>3, <1>8, <2>2, <3>1
  <2>3. ASSUME NEW j \in DOMAIN ledger, NEW k \in DOMAIN ledger, j # k, j < h, k < h
        PROVE  ledger'[j].nonces \cap ledger'[k].nonces = {}
    BY <1>1, <1>6, <2>3
  <2>4. \A j, k \in DOMAIN ledger : j >= h /\ k < h =>
          ledger'[j].nonces \cap ledger'[k].nonces = {}
    BY <2>1
  <2> QED  BY <1>9, <2>1, <2>2, <2>3, <2>4
<1>12. \A k \in DOMAIN ledger : ledger'[k].id[2] <= shuffles'
  <2> SUFFICES ASSUME NEW k \in DOMAIN ledger PROVE ledger'[k].id[2] <= shuffles'
    OBVIOUS
  <2>1. CASE k < h
    <3>1. ledger[k].id \in Nat \X Nat /\ ledger[k].id[2] <= shuffles
      BY <1>1 DEF LedgerBlock
    <3>2. ledger[k].id[2] \in Nat
      BY <3>1
    <3> DEFINE x == ledger[k].id[2]
    <3>3. ledger'[k].id[2] = x /\ x \in Nat /\ x <= shuffles
      BY <1>6, <2>1, <3>1, <3>2
    <3> HIDE DEF x
    <3> QED  BY <1>1, <1>4, <3>3
  <2>2. CASE k >= h
    BY <1>1, <1>4, <1>8, <2>2
  <2> QED  BY <1>9, <2>1, <2>2
<1>13. ledger'[1].nonces = {}
  <2>1. 1 \in DOMAIN ledger /\ 1 < h
    BY <1>1, <1>2
  <2> QED  BY <1>1, <1>6, <2>1
<1>14. ChainRecord(ledger)'
  BY <1>1, <1>3, <1>10, <1>11, <1>12, <1>13 DEF ChainRecord
<1>15. \A k \in DOMAIN ledger : k >= h => ledger'[k].id[2] > shuffles
  BY <1>1, <1>8
<1> QED  BY <1>1, <1>3, <1>4, <1>6, <1>10, <1>14, <1>15 DEF LedgerRight

(* What a search of a chain that moves beside it may still rely on *)
LEMMA SearchStays ==
    ASSUME CaptureInv, LedgerRight', UNCHANGED search,
           shuffles <= shuffles', Len(ledger) <= Len(ledger'),
           MinedIn(ledger) \subseteq MinedIn(ledger'),
           search.pc # "off" /\ Undisturbed' => Undisturbed
    PROVE  CaptureInv'
<1>1. SearchTyped'
  BY DEF CaptureInv, SearchTyped
<1>2. ASSUME search.pc # "off" PROVE BegunRight'
  <2>1. /\ ChainRecord(search.seen) /\ Len(search.seen) = search.head
        /\ search.head <= Len(ledger)
    BY <1>2 DEF CaptureInv, BegunRight
  <2>2. search.head \in Nat /\ Len(ledger) \in Nat /\ Len(ledger') \in Nat
        /\ shuffles \in Nat /\ shuffles' \in Nat
    BY <2>1, LedgerIndex DEF ChainRecord, CaptureInv, LedgerRight
  <2>3. \A h \in DOMAIN search.seen : search.seen[h].id[2] <= shuffles'
    <3> SUFFICES ASSUME NEW h \in DOMAIN search.seen
                 PROVE  search.seen[h].id[2] <= shuffles'
      OBVIOUS
    <3> DEFINE x == search.seen[h].id[2]
    <3>1. search.seen[h].id \in Nat \X Nat /\ x <= shuffles
      BY <2>1, LedgerIndex DEF ChainRecord
    <3>2. x \in Nat
      BY <3>1
    <3> HIDE DEF x
    <3>3. x <= shuffles'
      BY <2>2, <3>1, <3>2
    <3> QED  BY <3>3 DEF x
  <2>4. ChainRecord(search.seen)'
    BY <2>1, <2>3 DEF ChainRecord
  <2> QED  BY <2>1, <2>2, <2>4 DEF BegunRight
<1>3. BegunRight'
  BY <1>2 DEF BegunRight
<1>4. SearchRight'
  <2>1. SearchRight
    BY DEF CaptureInv
  <2>2. search.pc \in {"probe", "receipt", "found", "pinned", "anchored", "done", "failed"}
          => search.pc # "off"
    OBVIOUS
  <2> QED  BY <2>1, <2>2 DEF SearchRight
<1> QED  BY <1>1, <1>3, <1>4 DEF CaptureInv

LEMMA LedgerStepKeeps ==
    ASSUME CaptureInv,
           \/ \E nonces \in SUBSET (Nonces \ MinedIn(ledger)) : Extend(nonces)
           \/ \E h \in DOMAIN ledger \ {1} : Shuffle(h)
    PROVE  CaptureInv'
<1>1. LedgerRight /\ shuffles \in Nat /\ Len(ledger) \in Nat
      /\ DOMAIN ledger = 1..Len(ledger)
  BY LedgerIndex DEF CaptureInv, LedgerRight, ChainRecord
<1>2. ASSUME search.pc # "off"
      PROVE  /\ search.head \in Nat /\ search.head <= Len(ledger)
             /\ \A h \in 1..search.head :
                  h \in DOMAIN ledger /\ search.seen[h].id[2] <= shuffles
  <2>1. /\ ChainRecord(search.seen) /\ Len(search.seen) = search.head
        /\ search.head <= Len(ledger)
    BY <1>2 DEF CaptureInv, BegunRight
  <2>2. search.head \in Nat /\ DOMAIN search.seen = 1..search.head
    BY <2>1, LedgerIndex DEF ChainRecord
  <2> QED  BY <1>1, <2>1, <2>2 DEF ChainRecord
<1>3. ASSUME NEW nonces \in SUBSET (Nonces \ MinedIn(ledger)), Extend(nonces)
      PROVE  CaptureInv'
  <2>1. /\ LedgerRight' /\ shuffles' = shuffles
        /\ Len(ledger) <= Len(ledger') /\ MinedIn(ledger) \subseteq MinedIn(ledger')
        /\ \A h \in DOMAIN ledger : ledger'[h] = ledger[h]
    BY <1>1, <1>3, ExtendKeeps
  <2>2. search' = search
    BY <1>3 DEF Extend
  <2>3. search.pc # "off" /\ Undisturbed' => Undisturbed
    BY <1>2, <2>1, <2>2 DEF Undisturbed
  <2> QED  BY <1>1, <2>1, <2>2, <2>3, SearchStays
<1>4. ASSUME NEW h \in DOMAIN ledger \ {1}, Shuffle(h)
      PROVE  CaptureInv'
  <2>1. /\ LedgerRight' /\ shuffles' = shuffles + 1
        /\ Len(ledger) = Len(ledger') /\ MinedIn(ledger) = MinedIn(ledger')
        /\ \A k \in DOMAIN ledger : k < h => ledger'[k] = ledger[k]
        /\ \A k \in DOMAIN ledger : k >= h => ledger'[k].id[2] > shuffles
    BY <1>1, <1>4, ShuffleKeeps
  <2>2. search' = search
    BY <1>4 DEF Shuffle
  <2>3. ASSUME search.pc # "off", Undisturbed' PROVE Undisturbed
    <3>1. \A k \in 1..search.head : ledger'[k] = search.seen[k]
      BY <2>2, <2>3 DEF Undisturbed
    <3>2. ASSUME h <= search.head PROVE FALSE
      <4>1. h \in 1..search.head
        BY <1>1, <1>2, <2>3, <3>2
      <4>2. ledger'[h].id[2] > shuffles /\ search.seen[h].id[2] <= shuffles
        BY <1>1, <1>2, <2>1, <2>3, <4>1
      <4>3. ledger'[h].id[2] = search.seen[h].id[2]
        BY <3>1, <4>1
      <4>4. search.seen[h].id[2] \in Nat
        <5>1. search.seen \in Seq(LedgerBlock) /\ Len(search.seen) = search.head
          BY <2>3 DEF CaptureInv, BegunRight, ChainRecord
        <5>2. search.seen[h].id \in Nat \X Nat
          BY <4>1, <5>1, LedgerIndex
        <5> QED  BY <5>2
      <4> DEFINE x == search.seen[h].id[2]
      <4>5. x > shuffles /\ x <= shuffles /\ x \in Nat
        BY <4>2, <4>3, <4>4
      <4> HIDE DEF x
      <4> QED  BY <1>1, <4>5
    <3>3. \A k \in 1..search.head : k \in DOMAIN ledger /\ k < h
      BY <1>1, <1>2, <2>3, <3>2
    <3> QED  BY <2>1, <3>1, <3>3 DEF Undisturbed
  <2>4. shuffles <= shuffles' /\ Len(ledger) <= Len(ledger')
    BY <1>1, <2>1
  <2> QED  BY <1>1, <2>1, <2>2, <2>3, <2>4, SearchStays
<1> QED  BY <1>3, <1>4

-----------------------------------------------------------------------------
(* The capture's own steps *)

LEMMA SearchKinds ==
    ASSUME SearchTyped
    PROVE  /\ search.pc \in {"nonces", "failed"} => search \in Beginnings
           /\ search.pc \in {"probe", "receipt", "found"} => search \in Searches
           /\ search.pc \in {"pinned", "anchored", "done"} => search \in Endings
BY DEF SearchTyped, Off, Beginnings, Searches, Endings

(* The chain as a capture that has begun sees it *)
LEMMA BegunFacts ==
    ASSUME CaptureInv, search.pc # "off"
    PROVE  /\ ChainRecord(search.seen) /\ ChainRecord(ledger)
           /\ search.seen \in Seq(LedgerBlock) /\ ledger \in Seq(LedgerBlock)
           /\ Len(search.seen) = search.head /\ search.head \in Nat /\ search.head >= 2
           /\ DOMAIN search.seen = 1..search.head
           /\ Len(ledger) \in Nat /\ search.head <= Len(ledger)
           /\ DOMAIN ledger = 1..Len(ledger)
           /\ 1..search.head \subseteq DOMAIN ledger
<1>1. /\ ChainRecord(search.seen) /\ ChainRecord(ledger)
      /\ Len(search.seen) = search.head /\ search.head <= Len(ledger)
  BY DEF CaptureInv, LedgerRight, BegunRight
<1>2. /\ search.seen \in Seq(LedgerBlock) /\ ledger \in Seq(LedgerBlock)
      /\ Len(search.seen) >= 2
  BY <1>1 DEF ChainRecord
<1>3. /\ DOMAIN search.seen = 1..search.head /\ DOMAIN ledger = 1..Len(ledger)
      /\ Len(ledger) \in Nat /\ search.head \in Nat
  BY <1>1, <1>2, LedgerIndex
<1>4. 1..search.head \subseteq DOMAIN ledger
  BY <1>1, <1>3
<1> QED  BY <1>1, <1>2, <1>3, <1>4

LEMMA SeenStillMined ==
    ASSUME CaptureInv, search.pc # "off", Undisturbed
    PROVE  MinedIn(search.seen) \subseteq MinedIn(ledger)
           /\ MinedIn(ledger) \subseteq Nonces
<1>1. MinedIn(search.seen) \subseteq MinedIn(ledger)
  BY BegunFacts DEF Undisturbed, MinedIn
<1>2. MinedIn(ledger) \subseteq Nonces
  BY BegunFacts, LedgerIndex DEF MinedIn
<1> QED  BY <1>1, <1>2

(* Steps of the capture leave the chain alone. *)
LEMMA CaptureStepFrame ==
    ASSUME CaptureInv, UNCHANGED <<ledger, shuffles>>, search.pc # "off",
           search'.head = search.head, search'.seen = search.seen
    PROVE  LedgerRight' /\ BegunRight' /\ (Undisturbed' <=> Undisturbed)
<1>1. LedgerRight'
  BY DEF CaptureInv, LedgerRight, ChainRecord
<1>2. BegunRight'
  BY DEF CaptureInv, BegunRight, ChainRecord
<1>3. Undisturbed' <=> Undisturbed
  BY DEF Undisturbed
<1> QED  BY <1>1, <1>2, <1>3

LEMMA ReadHeadKeeps ==
    ASSUME CaptureInv, ReadHead
    PROVE  CaptureInv'
<1>1. LedgerRight /\ LedgerRight' /\ ledger \in Seq(LedgerBlock) /\ ledger' = ledger
  BY DEF CaptureInv, LedgerRight, ChainRecord, ReadHead
<1>2. search' = [pc |-> "nonces", head |-> Len(ledger), seen |-> ledger]
  BY DEF ReadHead
<1>3. SearchTyped'
  <2>1. search' \in Beginnings
    BY <1>1, <1>2 DEF Beginnings
  <2> QED  BY <2>1 DEF SearchTyped
<1>4. BegunRight'
  <2>1. ChainRecord(ledger') /\ search'.seen = ledger' /\ search'.head = Len(ledger')
    BY <1>1, <1>2 DEF LedgerRight, ChainRecord, ReadHead
  <2>2. Len(ledger') \in Nat
    BY <1>1
  <2>3. ChainRecord(search.seen)'
    BY <1>1, <1>2 DEF LedgerRight, ChainRecord, ReadHead
  <2> QED  BY <2>1, <2>2, <2>3 DEF BegunRight
<1>5. SearchRight'
  BY <1>2 DEF SearchRight
<1> QED  BY <1>1, <1>3, <1>4, <1>5 DEF CaptureInv

LEMMA ReadNoncesKeeps ==
    ASSUME CaptureInv, ReadNonces
    PROVE  CaptureInv'
<1>1. search.pc = "nonces" /\ search.pc # "off" /\ UNCHANGED <<ledger, shuffles>>
  BY DEF ReadNonces
<1>2. search \in Beginnings
  BY <1>1, SearchKinds DEF CaptureInv
<1>3. CASE MinedIn(ledger) = Nonces
  <2>1. search' = [pc |-> "probe", head |-> search.head, seen |-> search.seen,
                   nonce |-> 1, lo |-> 2, hi |-> search.head, anchors |-> << >>]
    BY <1>3 DEF ReadNonces, From
  <2>2. 1 \in Nonces
    BY RecoveryAssumption DEF Nonces
  <2>3. SearchTyped'
    <3>1. search' \in Searches
      BY <1>2, <2>1, <2>2 DEF Beginnings, Searches
    <3> QED  BY <3>1 DEF SearchTyped
  <2>4. LedgerRight' /\ BegunRight' /\ (Undisturbed' <=> Undisturbed)
    BY <1>1, <2>1, CaptureStepFrame
  <2>5. AnchorsRight(search.seen, << >>, 0)
    BY DEF AnchorsRight
  <2>6. \A h \in 1..search.head :
          1 \in search.seen[h].nonces => 2 <= h /\ h <= search.head
    <3>1. search.seen[1].nonces = {} /\ search.head \in Nat
      BY <1>1, BegunFacts DEF ChainRecord
    <3> QED  BY <3>1
  <2>7. SearchRight'
    BY <1>1, <2>1, <2>4, <2>5, <2>6, BegunFacts DEF SearchRight
  <2> QED  BY <2>3, <2>4, <2>7 DEF CaptureInv
<1>4. CASE MinedIn(ledger) # Nonces
  <2>1. search' = [pc |-> "failed", head |-> search.head, seen |-> search.seen]
    BY <1>4 DEF ReadNonces, Fails
  <2>2. SearchTyped'
    <3>1. search' \in Beginnings
      BY <1>2, <2>1 DEF Beginnings
    <3> QED  BY <3>1 DEF SearchTyped
  <2>3. LedgerRight' /\ BegunRight' /\ (Undisturbed' <=> Undisturbed)
    BY <1>1, <2>1, CaptureStepFrame
  <2>4. Undisturbed => MinedIn(search.seen) # Nonces
    BY <1>1, <1>4, SeenStillMined
  <2>5. SearchRight'
    BY <2>1, <2>3, <2>4 DEF SearchRight
  <2> QED  BY <2>2, <2>3, <2>5 DEF CaptureInv
<1> QED  BY <1>3, <1>4

(* The count at the middle, of whatever state of the chain it is, says in  *)
(* which half the transaction is, if the chain is undisturbed.             *)
LEMMA ProbeKeeps ==
    ASSUME CaptureInv, Probe
    PROVE  CaptureInv'
<1> DEFINE mid == (search.lo + search.hi) \div 2
<1>1. /\ search.pc = "probe" /\ search.pc # "off" /\ search.lo < search.hi
      /\ UNCHANGED <<ledger, shuffles>>
      /\ search' = IF Transitioned(mid, search.nonce)
                   THEN [search EXCEPT !.hi = mid]
                   ELSE [search EXCEPT !.lo = mid + 1]
  BY DEF Probe
<1>2. search \in Searches /\ search.lo \in Nat /\ search.hi \in Nat
      /\ search.nonce \in Nonces
  <2>1. search \in Searches
    BY <1>1, SearchKinds DEF CaptureInv
  <2> QED  BY <2>1 DEF Searches
<1>3. mid \in Nat /\ search.lo <= mid /\ mid < search.hi
  BY <1>1, <1>2
<1> HIDE DEF mid
<1>4. /\ search' \in Searches /\ search'.pc = "probe"
      /\ search'.head = search.head /\ search'.seen = search.seen
      /\ search'.nonce = search.nonce /\ search'.anchors = search.anchors
      /\ Transitioned(mid, search.nonce) =>
             search'.hi = mid /\ search'.lo = search.lo
      /\ ~Transitioned(mid, search.nonce) =>
             search'.hi = search.hi /\ search'.lo = mid + 1
  <2>1. CASE Transitioned(mid, search.nonce)
    <3>1. search' = [search EXCEPT !.hi = mid]
      BY <1>1, <2>1
    <3> QED  BY <1>1, <1>2, <1>3, <2>1, <3>1 DEF Searches
  <2>2. CASE ~Transitioned(mid, search.nonce)
    <3>1. search' = [search EXCEPT !.lo = mid + 1]
      BY <1>1, <2>2
    <3> QED  BY <1>1, <1>2, <1>3, <2>2, <3>1 DEF Searches
  <2> QED  BY <2>1, <2>2
<1>5. LedgerRight' /\ BegunRight' /\ (Undisturbed' <=> Undisturbed)
  BY <1>1, <1>4, CaptureStepFrame
<1>6. ASSUME Undisturbed
      PROVE  /\ 1 <= search'.lo /\ search'.lo <= search'.hi
             /\ search'.hi <= search.head
             /\ \A h \in 1..search.head :
                  search.nonce \in search.seen[h].nonces =>
                      search'.lo <= h /\ h <= search'.hi
  <2>1. /\ 1 <= search.lo /\ search.hi <= search.head
        /\ \A h \in 1..search.head :
             search.nonce \in search.seen[h].nonces => search.lo <= h /\ h <= search.hi
    BY <1>1, <1>6 DEF CaptureInv, SearchRight
  <2>2. search.head \in Nat /\ mid \in 0..Len(ledger)
    BY <1>1, <1>2, <1>3, <2>1, BegunFacts
  <2>3. Transitioned(mid, search.nonce)
          <=> \E k \in 1..mid : search.nonce \in ledger[k].nonces
    BY <1>1, <1>2, <2>2, BegunFacts, CountRight DEF Transitioned
  <2>4. \A k \in 1..mid : k \in 1..search.head /\ ledger[k] = search.seen[k]
    BY <1>2, <1>3, <1>6, <2>1, <2>2 DEF Undisturbed
  <2>5. CASE Transitioned(mid, search.nonce)
    <3>1. PICK k \in 1..mid : search.nonce \in search.seen[k].nonces
      BY <2>3, <2>4, <2>5
    <3>2. \A h \in 1..search.head : search.nonce \in search.seen[h].nonces => h = k
      BY <1>1, <2>4, <3>1, BegunFacts DEF ChainRecord
    <3>3. k <= mid
      BY <1>3
    <3> QED  BY <1>2, <1>3, <1>4, <2>1, <2>2, <2>5, <3>2, <3>3
  <2>6. CASE ~Transitioned(mid, search.nonce)
    <3>1. \A k \in 1..mid : search.nonce \notin search.seen[k].nonces
      BY <2>3, <2>4, <2>6
    <3>2. \A h \in 1..search.head :
            search.nonce \in search.seen[h].nonces => mid + 1 <= h
      BY <1>3, <2>2, <3>1
    <3> QED  BY <1>2, <1>3, <1>4, <2>1, <2>2, <2>6, <3>2
  <2> QED  BY <2>5, <2>6
<1>7. Undisturbed => AnchorsRight(search.seen, search.anchors, search.nonce - 1)
  BY <1>1 DEF CaptureInv, SearchRight
<1>8. SearchRight'
  BY <1>4, <1>5, <1>6, <1>7 DEF SearchRight
<1>9. SearchTyped'
  BY <1>4 DEF SearchTyped
<1> QED  BY <1>5, <1>8, <1>9 DEF CaptureInv

LEMMA FindTransactionKeeps ==
    ASSUME CaptureInv, FindTransaction
    PROVE  CaptureInv'
<1> DEFINE there == search.lo \in DOMAIN ledger
                    /\ search.nonce \in ledger[search.lo].nonces
<1>1. /\ search.pc = "probe" /\ search.pc # "off" /\ search.lo >= search.hi
      /\ UNCHANGED <<ledger, shuffles>>
  BY DEF FindTransaction
<1>2. search \in Searches /\ search.lo \in Nat /\ search.hi \in Nat
      /\ search.nonce \in Nonces
  <2>1. search \in Searches
    BY <1>1, SearchKinds DEF CaptureInv
  <2> QED  BY <2>1 DEF Searches
<1>3. Undisturbed =>
        /\ 1 <= search.lo /\ search.lo <= search.hi /\ search.hi <= search.head
        /\ AnchorsRight(search.seen, search.anchors, search.nonce - 1)
        /\ \A h \in 1..search.head :
             search.nonce \in search.seen[h].nonces => search.lo <= h /\ h <= search.hi
  BY <1>1 DEF CaptureInv, SearchRight
<1>4. search.head \in Nat
  BY <1>1, BegunFacts
<1>5. Undisturbed => search.lo \in 1..search.head
  BY <1>2, <1>3, <1>4
<1>6. CASE there
  <2>1. /\ search' \in Searches /\ search'.pc = "receipt"
        /\ search'.head = search.head /\ search'.seen = search.seen
        /\ search'.nonce = search.nonce /\ search'.anchors = search.anchors
        /\ search'.lo = search.lo /\ search'.hi = search.hi
    BY <1>2, <1>6 DEF FindTransaction, Searches
  <2>2. LedgerRight' /\ BegunRight' /\ (Undisturbed' <=> Undisturbed)
    BY <1>1, <2>1, CaptureStepFrame
  <2>3. search.nonce \in MinedIn(ledger)
    BY <1>6, AllMined
  <2>4. Undisturbed => search.nonce \in search.seen[search.lo].nonces
    BY <1>5, <1>6 DEF Undisturbed
  <2>5. MinedIn(ledger)' = MinedIn(ledger)
    BY <1>1
  <2>6. SearchRight'
    BY <1>3, <2>1, <2>2, <2>3, <2>4, <2>5 DEF SearchRight
  <2>7. SearchTyped'
    BY <2>1 DEF SearchTyped
  <2> QED  BY <2>2, <2>6, <2>7 DEF CaptureInv
<1>7. CASE ~there
  <2>1. search' = [pc |-> "failed", head |-> search.head, seen |-> search.seen]
    BY <1>7 DEF FindTransaction, Fails
  <2>2. SearchTyped'
    <3>1. search' \in Beginnings
      BY <1>2, <2>1 DEF Beginnings, Searches
    <3> QED  BY <3>1 DEF SearchTyped
  <2>3. LedgerRight' /\ BegunRight' /\ (Undisturbed' <=> Undisturbed)
    BY <1>1, <2>1, CaptureStepFrame
  <2>4. ASSUME Undisturbed, MinedIn(search.seen) = Nonces PROVE FALSE
    <3>1. PICK h \in 1..search.head : search.nonce \in search.seen[h].nonces
      BY <1>1, <1>2, <2>4, AllMined, BegunFacts
    <3>2. search.lo <= h /\ h <= search.lo
      BY <1>1, <1>2, <1>3, <1>4, <2>4, <3>1
    <3>3. h = search.lo
      BY <1>2, <1>4, <3>2
    <3>4. ledger[h] = search.seen[h] /\ h \in DOMAIN ledger
      BY <1>1, <2>4, BegunFacts DEF Undisturbed
    <3> QED  BY <1>7, <3>1, <3>3, <3>4
  <2>5. SearchRight'
    BY <2>1, <2>3, <2>4 DEF SearchRight
  <2> QED  BY <2>2, <2>3, <2>5 DEF CaptureInv
<1> QED  BY <1>6, <1>7

(* The anchors found so far, one more *)
LEMMA OneMoreAnchor ==
    ASSUME NEW seen, NEW anchors \in Seq(Anchor), NEW n \in Nat \ {0}, NEW a \in Anchor,
           AnchorsRight(seen, anchors, n - 1),
           a = [block |-> BlockOf(seen, n), id |-> seen[BlockOf(seen, n)].id]
    PROVE  AnchorsRight(seen, Append(anchors, a), n)
<1> DEFINE longer == Append(anchors, a)
<1>1. Len(anchors) = n - 1
  BY DEF AnchorsRight
<1>2. /\ Len(longer) = n /\ longer[n] = a
      /\ \A m \in 1..(n - 1) : longer[m] = anchors[m]
  BY <1>1
<1>3. \A m \in 1..n : m = n \/ m \in 1..(n - 1)
  OBVIOUS
<1> HIDE DEF longer
<1>4. AnchorsRight(seen, longer, n)
  BY <1>2, <1>3 DEF AnchorsRight
<1> QED  BY <1>4 DEF longer

LEMMA ReadReceiptKeeps ==
    ASSUME CaptureInv, ReadReceipt
    PROVE  CaptureInv'
<1> DEFINE h == BlockOf(ledger, search.nonce)
           a == [block |-> h, id |-> ledger[h].id]
           anchors == Append(search.anchors, a)
<1>1. /\ search.pc = "receipt" /\ search.pc # "off" /\ UNCHANGED <<ledger, shuffles>>
      /\ search' = IF search.nonce = Completed
                   THEN [search EXCEPT !.pc = "found", !.anchors = anchors]
                   ELSE From(h, search.nonce + 1, anchors)
  BY DEF ReadReceipt
<1>2. /\ search \in Searches /\ search.lo \in Nat /\ search.hi \in Nat
      /\ search.nonce \in Nonces /\ search.anchors \in Seq(Anchor)
      /\ search.nonce \in Nat \ {0} /\ Completed \in Nat
      /\ search.head \in Nat /\ search.seen \in Seq(LedgerBlock)
  <2>1. search \in Searches
    BY <1>1, SearchKinds DEF CaptureInv
  <2> QED  BY <2>1, RecoveryAssumption DEF Searches, Nonces
<1>3. h \in DOMAIN ledger /\ search.nonce \in ledger[h].nonces
  <2>1. search.nonce \in MinedIn(ledger)
    BY <1>1 DEF CaptureInv, SearchRight
  <2>2. PICK k \in DOMAIN ledger : search.nonce \in ledger[k].nonces
    BY <2>1, AllMined
  <2> QED  BY <2>2 DEF BlockOf
<1>4. /\ a \in Anchor /\ anchors \in Seq(Anchor) /\ h \in Nat
  <2>1. ledger[h].id \in Nat \X Nat /\ h \in Nat
    BY <1>1, <1>3, BegunFacts, LedgerIndex
  <2>2. a \in Anchor
    BY <2>1 DEF Anchor
  <2> HIDE DEF a, h
  <2> QED  BY <1>2, <2>1, <2>2
<1>5. ASSUME Undisturbed
      PROVE  /\ h \in 1..search.head /\ search.nonce \in search.seen[h].nonces
             /\ AnchorsRight(search.seen, anchors, search.nonce)
  <2>1. /\ 1 <= search.lo /\ search.lo <= search.hi /\ search.hi <= search.head
        /\ AnchorsRight(search.seen, search.anchors, search.nonce - 1)
        /\ search.nonce \in search.seen[search.lo].nonces
    BY <1>1, <1>5 DEF CaptureInv, SearchRight
  <2>2. search.lo \in 1..search.head
    BY <1>2, <2>1
  <2>3. /\ search.lo \in DOMAIN ledger /\ search.lo \in DOMAIN search.seen
        /\ ledger[search.lo] = search.seen[search.lo]
    BY <1>1, <1>5, <2>2, BegunFacts DEF Undisturbed
  <2>4. h = search.lo
    BY <1>1, <2>1, <2>3, BegunFacts, BlockOfIs
  <2>5. BlockOf(search.seen, search.nonce) = search.lo
    BY <1>1, <2>1, <2>3, BegunFacts, BlockOfIs
  <2>6. a = [block |-> BlockOf(search.seen, search.nonce),
             id |-> search.seen[BlockOf(search.seen, search.nonce)].id]
    BY <2>3, <2>4, <2>5
  <2>7. h \in 1..search.head /\ search.nonce \in search.seen[h].nonces
    BY <2>1, <2>2, <2>4
  <2> HIDE DEF a, h
  <2>8. AnchorsRight(search.seen, Append(search.anchors, a), search.nonce)
    BY <1>2, <1>4, <2>1, <2>6, OneMoreAnchor
  <2> QED  BY <2>7, <2>8
<1> HIDE DEF h, a, anchors
<1>6. CASE search.nonce = Completed
  <2>1. /\ search' \in Searches /\ search'.pc = "found"
        /\ search'.head = search.head /\ search'.seen = search.seen
        /\ search'.anchors = anchors
    BY <1>1, <1>2, <1>4, <1>6 DEF Searches
  <2>2. LedgerRight' /\ BegunRight' /\ (Undisturbed' <=> Undisturbed)
    BY <1>1, <2>1, CaptureStepFrame
  <2>3. SearchRight'
    BY <1>5, <1>6, <2>1, <2>2 DEF SearchRight
  <2>4. SearchTyped'
    BY <2>1 DEF SearchTyped
  <2> QED  BY <2>2, <2>3, <2>4 DEF CaptureInv
<1>7. CASE search.nonce # Completed
  <2> DEFINE next == search.nonce + 1
  <2>1. search' = [pc |-> "probe", head |-> search.head, seen |-> search.seen,
                   nonce |-> next, lo |-> h, hi |-> search.head, anchors |-> anchors]
    BY <1>1, <1>7 DEF From
  <2>2. next \in Nonces /\ next - 1 = search.nonce
    BY <1>2, <1>7 DEF Nonces
  <2>3. \A j \in 1..search.head : Undisturbed /\ next \in search.seen[j].nonces =>
          h <= j /\ j <= search.head
    <3> SUFFICES ASSUME NEW j \in 1..search.head, Undisturbed,
                        search.nonce + 1 \in search.seen[j].nonces
                 PROVE  h <= j /\ j <= search.head
      OBVIOUS
    <3>1. /\ ChainRecord(search.seen) /\ j \in DOMAIN search.seen
          /\ h \in DOMAIN search.seen /\ search.nonce \in search.seen[h].nonces
      BY <1>1, <1>5, BegunFacts
    <3>2. h <= j
      BY <1>2, <3>1, NextNotBefore
    <3> QED  BY <1>2, <3>2
  <2> HIDE DEF next
  <2>4. /\ search' \in Searches /\ search'.pc = "probe"
        /\ search'.head = search.head /\ search'.seen = search.seen
        /\ search'.nonce = next /\ search'.anchors = anchors
        /\ search'.lo = h /\ search'.hi = search.head
    BY <1>2, <1>4, <2>1, <2>2 DEF Searches
  <2>5. LedgerRight' /\ BegunRight' /\ (Undisturbed' <=> Undisturbed)
    BY <1>1, <2>4, CaptureStepFrame
  <2>6. Undisturbed => 1 <= h /\ h <= search.head
    BY <1>2, <1>4, <1>5
  <2>7. SearchRight'
    BY <1>2, <1>5, <2>2, <2>3, <2>4, <2>5, <2>6 DEF SearchRight
  <2>8. SearchTyped'
    BY <2>4 DEF SearchTyped
  <2> QED  BY <2>5, <2>7, <2>8 DEF CaptureInv
<1> QED  BY <1>6, <1>7

LEMMA CaptureEndsKeep ==
    ASSUME CaptureInv, ReadPinned \/ WriteAnchors \/ WriteSnapshot \/ StopCapture
    PROVE  CaptureInv'
<1>1. UNCHANGED <<ledger, shuffles>>
  BY DEF ReadPinned, WriteAnchors, WriteSnapshot, StopCapture
<1>2. CASE ReadPinned
  <2> DEFINE pinned == search.head - Confirmations
             there == [number |-> pinned, id |-> ledger[pinned].id]
  <2>1. /\ search.pc = "found" /\ search.pc # "off" /\ pinned >= 1
        /\ search' = [pc |-> "pinned", head |-> search.head, seen |-> search.seen,
                      anchors |-> search.anchors, pinned |-> there]
    BY <1>2 DEF ReadPinned
  <2>2. search \in Searches
    BY <2>1, SearchKinds DEF CaptureInv
  <2>3. there \in [number : Nat, id : Nat \X Nat]
    <3>1. pinned \in Nat /\ pinned \in DOMAIN ledger
      <4>1. Confirmations \in Nat
        BY PacketAssumption
      <4>2. /\ search.head \in Nat /\ search.head <= Len(ledger) /\ Len(ledger) \in Nat
            /\ DOMAIN ledger = 1..Len(ledger)
        BY <2>1, BegunFacts
      <4> QED  BY <2>1, <4>1, <4>2
    <3>2. ledger[pinned].id \in Nat \X Nat
      BY <2>1, <3>1, BegunFacts, LedgerIndex
    <3> QED  BY <3>1, <3>2
  <2> HIDE DEF there
  <2>4. search' \in Endings
    BY <2>1, <2>2, <2>3 DEF Searches, Endings
  <2>5. LedgerRight' /\ BegunRight' /\ (Undisturbed' <=> Undisturbed)
    BY <1>1, <2>1, CaptureStepFrame
  <2>6. SearchRight'
    BY <2>1, <2>5 DEF CaptureInv, SearchRight
  <2> QED  BY <2>4, <2>5, <2>6 DEF CaptureInv, SearchTyped
<1>3. ASSUME NEW pc \in {"anchored", "done"}, search.pc \in {"pinned", "anchored"},
             search' = [search EXCEPT !.pc = pc]
      PROVE  CaptureInv'
  <2>1. search \in Endings /\ search.pc # "off"
    BY <1>3, SearchKinds DEF CaptureInv
  <2>2. /\ search' \in Endings /\ search'.pc = pc /\ search'.head = search.head
        /\ search'.seen = search.seen /\ search'.anchors = search.anchors
    BY <1>3, <2>1 DEF Endings
  <2>3. LedgerRight' /\ BegunRight' /\ (Undisturbed' <=> Undisturbed)
    BY <1>1, <2>1, <2>2, CaptureStepFrame
  <2>4. SearchRight'
    BY <1>3, <2>2, <2>3 DEF CaptureInv, SearchRight
  <2> QED  BY <2>2, <2>3, <2>4 DEF CaptureInv, SearchTyped
<1>4. CASE WriteAnchors \/ WriteSnapshot
  BY <1>3, <1>4 DEF WriteAnchors, WriteSnapshot
<1>5. CASE StopCapture
  <2>1. search' = Off /\ search'.pc = "off"
    BY <1>5 DEF StopCapture, Off
  <2>2. LedgerRight'
    BY <1>1 DEF CaptureInv, LedgerRight, ChainRecord
  <2> QED  BY <2>1, <2>2 DEF CaptureInv, SearchTyped, BegunRight, SearchRight
<1> QED  BY <1>2, <1>4, <1>5

LEMMA CaptureElsewhere ==
    ASSUME CaptureInv, UNCHANGED <<ledger, shuffles, search>>
    PROVE  CaptureInv'
<1>1. LedgerRight' /\ BegunRight' /\ (Undisturbed' <=> Undisturbed)
  BY DEF CaptureInv, LedgerRight, BegunRight, ChainRecord, Undisturbed
<1>2. SearchTyped' /\ SearchRight'
  BY <1>1 DEF CaptureInv, SearchTyped, SearchRight
<1> QED  BY <1>1, <1>2 DEF CaptureInv

LEMMA CaptureInvKept ==
    ASSUME CaptureInv, [RecoveryNext]_recoveryVars
    PROVE  CaptureInv'
<1>1. CASE \/ \E nonces \in SUBSET (Nonces \ MinedIn(ledger)) : Extend(nonces)
           \/ \E h \in DOMAIN ledger \ {1} : Shuffle(h)
  BY <1>1, LedgerStepKeeps
<1>2. CASE ReadHead \/ ReadNonces \/ Probe \/ FindTransaction \/ ReadReceipt
  BY <1>2, ReadHeadKeeps, ReadNoncesKeeps, ProbeKeeps, FindTransactionKeeps,
     ReadReceiptKeeps
<1>3. CASE ReadPinned \/ WriteAnchors \/ WriteSnapshot \/ StopCapture
  BY <1>3, CaptureEndsKeep
<1>4. CASE \/ \E costs \in [1..2 -> ReviewedCosts], price \in Quotes : Draft(costs, price)
           \/ WriteRecoveryPolicy \/ WriteAuthorization \/ WriteRecoveryPacket
           \/ StopDraft \/ UNCHANGED recoveryVars
  <2>1. UNCHANGED <<ledger, shuffles, search>>
    BY <1>4 DEF Draft, WriteRecoveryPolicy, WriteAuthorization, WriteRecoveryPacket,
                DraftWrites, StopDraft, recoveryVars
  <2> QED  BY <2>1, CaptureElsewhere
<1> QED  BY <1>1, <1>2, <1>3, <1>4 DEF RecoveryNext

LEMMA LedgerBegins ==
    ASSUME RecoveryInit
    PROVE  LedgerRight
<1>1. PICK nonces \in [2..(Confirmations + 2) -> SUBSET Nonces] :
        /\ ledger = [h \in 1..(Confirmations + 2) |->
              [id |-> <<h, 0>>, nonces |-> IF h = 1 THEN {} ELSE nonces[h]]]
        /\ \A h, k \in DOMAIN nonces : h # k => nonces[h] \cap nonces[k] = {}
        /\ InOrder(ledger)
  BY DEF RecoveryInit
<1> DEFINE n == Confirmations + 2
<1>2. n \in Nat /\ n >= 2 /\ DOMAIN nonces = 2..n
  BY PacketAssumption
<1> HIDE DEF n
<1>3. \A h \in 1..n : h = 1 \/ h \in DOMAIN nonces
  BY <1>2
<1>4. \A h \in 1..n : /\ ledger[h] \in LedgerBlock /\ ledger[h].id[2] = 0
                      /\ ledger[h].nonces = IF h = 1 THEN {} ELSE nonces[h]
  <2> SUFFICES ASSUME NEW h \in 1..n
               PROVE  /\ ledger[h] \in LedgerBlock /\ ledger[h].id[2] = 0
                      /\ ledger[h].nonces = IF h = 1 THEN {} ELSE nonces[h]
    OBVIOUS
  <2> DEFINE here == IF h = 1 THEN {} ELSE nonces[h]
  <2>1. ledger[h] = [id |-> <<h, 0>>, nonces |-> here]
    BY <1>1 DEF n
  <2>2. here \in SUBSET Nonces
    BY <1>1, <1>3
  <2>3. <<h, 0>> \in Nat \X Nat
    BY <1>2
  <2> HIDE DEF here
  <2>4. ledger[h] \in LedgerBlock /\ ledger[h].id[2] = 0 /\ ledger[h].nonces = here
    BY <2>1, <2>2, <2>3 DEF LedgerBlock
  <2> QED  BY <2>4 DEF here
<1>5. ledger \in Seq(LedgerBlock) /\ Len(ledger) = n /\ DOMAIN ledger = 1..n
  <2>1. ledger = [h \in 1..n |-> ledger[h]]
    BY <1>1 DEF n
  <2> QED  BY <1>2, <1>4, <2>1
<1>6. \A j, k \in DOMAIN ledger : j # k => ledger[j].nonces \cap ledger[k].nonces = {}
  BY <1>1, <1>3, <1>4, <1>5
<1>7. shuffles = 0
  BY DEF RecoveryInit
<1>8. ledger[1].nonces = {}
  BY <1>2, <1>4
<1> QED  BY <1>1, <1>2, <1>4, <1>5, <1>6, <1>7, <1>8 DEF LedgerRight, ChainRecord

LEMMA CaptureInvAlways == RecoverySpec => []CaptureInv
<1>1. RecoveryInit => CaptureInv
  <2> SUFFICES ASSUME RecoveryInit PROVE CaptureInv
    OBVIOUS
  <2>1. search = Off /\ search.pc = "off"
    BY DEF RecoveryInit, Off
  <2> QED  BY <2>1, LedgerBegins
           DEF CaptureInv, SearchTyped, BegunRight, SearchRight
<1>2. CaptureInv /\ [RecoveryNext]_recoveryVars => CaptureInv'
  BY CaptureInvKept
<1> QED  BY <1>1, <1>2, PTL DEF RecoverySpec

(* recovery-capture.mjs: a binary search each of whose probes reads another *)
(* state of a chain that grows and is reorganised finds the transactions    *)
(* where they are, or fails, and fails only for what happened below the     *)
(* head it began with.                                                      *)
THEOREM CaptureExact == RecoverySpec => []CaptureIsExact
<1>1. ASSUME CaptureInv PROVE CaptureIsExact
  <2>1. ASSUME search.pc # "off", SubSeq(ledger, 1, search.head) = search.seen
        PROVE  Undisturbed
    <3> DEFINE s == SubSeq(ledger, 1, search.head)
    <3>1. /\ ledger \in Seq(LedgerBlock) /\ search.head \in Nat
          /\ search.head <= Len(ledger) /\ Len(ledger) \in Nat
      BY <1>1, <2>1, BegunFacts
    <3>2. \A h \in 1..search.head : s[h] = ledger[h]
      BY <3>1
    <3>3. s = search.seen
      BY <2>1
    <3> HIDE DEF s
    <3> QED  BY <3>2, <3>3 DEF Undisturbed
  <2>2. SearchRight
    BY <1>1 DEF CaptureInv
  <2>3. search.pc = "failed" /\ Undisturbed => MinedIn(search.seen) # Nonces
    BY <2>2 DEF SearchRight
  <2>4. ASSUME search.pc \in {"pinned", "anchored", "done"}, Undisturbed
        PROVE  search.anchors = [n \in Nonces |->
                   LET h == BlockOf(search.seen, n)
                   IN [block |-> h, id |-> search.seen[h].id]]
    <3>1. search.anchors \in Seq(Anchor)
      <4>1. search \in Endings
        BY <1>1, <2>4, SearchKinds DEF CaptureInv
      <4> QED  BY <4>1 DEF Endings
    <3>2. AnchorsRight(search.seen, search.anchors, Completed)
      BY <2>2, <2>4 DEF SearchRight
    <3> DEFINE a == search.anchors
    <3>3. a = [n \in 1..Len(a) |-> a[n]]
      BY <3>1
    <3>4. Len(a) = Completed
      BY <3>2 DEF AnchorsRight
    <3>5. \A n \in 1..Completed :
            a[n] = LET h == BlockOf(search.seen, n)
                   IN [block |-> h, id |-> search.seen[h].id]
      BY <3>2 DEF AnchorsRight
    <3> HIDE DEF a
    <3>6. a = [n \in Nonces |-> LET h == BlockOf(search.seen, n)
                                IN [block |-> h, id |-> search.seen[h].id]]
      BY <3>3, <3>4, <3>5 DEF Nonces
    <3> QED  BY <3>6 DEF a
  <2> QED  BY <2>1, <2>3, <2>4 DEF CaptureIsExact
<1> QED  BY <1>1, CaptureInvAlways, PTL

-----------------------------------------------------------------------------
(* The exposure the recovery leaves *)

(* What the generator puts into its object is what it compared with the cap. *)
Capped(o) ==
    /\ o.realized \in Nat /\ o.ceilings[1] \in Nat /\ o.ceilings[2] \in Nat
    /\ (o.realized + PaidPrincipal + o.ceilings[1] + o.ceilings[2]) * o.price
           < (CapUsd + 1) * PriceUnit

RecordTyped ==
    /\ DOMAIN record = {"anchors", "snapshot", "policy", "packaged", "packet"}
    /\ record = [key \in DOMAIN record |-> record[key]]
    /\ record.anchors # None => record.anchors \in Seq(Anchor)

ObjectsCapped ==
    /\ drafting # Off =>
           /\ drafting = [pc |-> drafting.pc, packet |-> drafting.packet,
                          object |-> drafting.object]
           /\ Capped(drafting.object)
    /\ record.packaged # None => Capped(record.packaged)

DraftInv == CaptureInv /\ RecordTyped /\ ObjectsCapped

(* Two floors are at most the floor of the sum. *)
LEMMA FloorsAdd ==
    ASSUME NEW a \in Nat, NEW b \in Nat
    PROVE  /\ Ceiling(a) \in Nat /\ Ceiling(b) \in Nat
           /\ Ceiling(a) + Ceiling(b) <= ((a + b) * 5) \div 4
BY DEF Ceiling

LEMMA DraftKeeps ==
    ASSUME DraftInv, NEW costs \in [1..2 -> ReviewedCosts], NEW price \in Quotes,
           Draft(costs, price)
    PROVE  Capped(drafting'.object)
<1> DEFINE r == Realized(record.anchors)
           m == RemainingMaxGas(costs)
           w == RecoveryAggregate(record.anchors, costs)
           c1 == Ceiling(costs[1])
           c2 == Ceiling(costs[2])
           packet == [number |-> record.snapshot.number, id |-> record.snapshot.id,
                      anchors |-> record.anchors, price |-> price, costs |-> costs,
                      ceilings |-> <<c1, c2>>, realized |-> r, aggregate |-> w,
                      anchor |-> None]
<1>1. /\ record.anchors # None /\ UsdOf(w, price) <= CapUsd
      /\ drafting' = [pc |-> "policy", packet |-> packet,
                      object |-> RecoveryObject(packet, record.snapshot)]
  BY DEF Draft
<1>2. /\ costs[1] \in Nat /\ costs[2] \in Nat /\ AnchorCost \in Nat /\ PaidPrincipal \in Nat
  <2>1. ReviewedCosts \subseteq Nat /\ AnchorCost \in Nat /\ PaidPrincipal \in Nat
    BY RecoveryAssumption
  <2>2. costs[1] \in ReviewedCosts /\ costs[2] \in ReviewedCosts
    OBVIOUS
  <2> QED  BY <2>1, <2>2
<1>3. price \in Nat /\ PriceUnit \in Nat \ {0} /\ CapUsd \in Nat
  BY PacketAssumption
<1>4. r \in Nat
  <2>1. record.anchors \in Seq(Anchor)
    BY <1>1 DEF DraftInv, RecordTyped
  <2>2. Len(record.anchors) \in Nat
    BY <2>1
  <2> QED  BY <1>2, <2>2, ProductNatural DEF Realized
<1>5. c1 \in Nat /\ c2 \in Nat /\ c1 + c2 <= m /\ m \in Nat
  <2>1. m = ((costs[1] + costs[2]) * 5) \div 4
    BY DEF RemainingMaxGas
  <2>2. m \in Nat
    BY <1>2, <2>1
  <2> QED  BY <1>2, <2>1, <2>2, FloorsAdd
<1>6. w = r + PaidPrincipal + m
  BY DEF RecoveryAggregate
<1> DEFINE o == drafting'.object
<1>7. /\ o.realized = r /\ o.ceilings[1] = c1 /\ o.ceilings[2] = c2 /\ o.price = price
  BY <1>1 DEF RecoveryObject
<1> HIDE DEF r, m, w, c1, c2, o, packet
<1>8. w \in Nat
  BY <1>2, <1>4, <1>5, <1>6
<1>9. w * price < (CapUsd + 1) * PriceUnit
  BY <1>1, <1>3, <1>8, UnderCap DEF UsdOf
<1> DEFINE s == r + PaidPrincipal + c1 + c2
<1>10. s \in Nat /\ s <= w
  BY <1>2, <1>4, <1>5, <1>6
<1> HIDE DEF s
<1>11. s * price <= w * price /\ s * price \in Nat /\ w * price \in Nat
  BY <1>3, <1>8, <1>10
<1>12. s * price < (CapUsd + 1) * PriceUnit
  <2> DEFINE c == (CapUsd + 1) * PriceUnit
  <2>1. c \in Nat
    BY <1>3
  <2> HIDE DEF c
  <2>2. s * price < c
    BY <1>9, <1>11, <2>1 DEF c
  <2> QED  BY <2>2 DEF c
<1>13. Capped(o)
  BY <1>4, <1>5, <1>7, <1>12 DEF Capped, s
<1> QED  BY <1>13 DEF o

LEMMA DraftInvKept ==
    ASSUME DraftInv, [RecoveryNext]_recoveryVars
    PROVE  DraftInv'
<1>1. CaptureInv'
  BY CaptureInvKept DEF DraftInv
<1>2. ASSUME UNCHANGED <<drafting, record>> PROVE DraftInv'
  BY <1>1, <1>2 DEF DraftInv, RecordTyped, ObjectsCapped, Capped
<1>3. ASSUME UNCHANGED drafting, NEW value, record' = [record EXCEPT !.snapshot = value]
      PROVE  DraftInv'
  BY <1>1, <1>3 DEF DraftInv, RecordTyped, ObjectsCapped, Capped
<1>4. CASE WriteAnchors
  <2>1. /\ drafting' = drafting /\ search.pc = "pinned"
        /\ record' = [record EXCEPT !.anchors = search.anchors]
    BY <1>4 DEF WriteAnchors
  <2>2. search.anchors \in Seq(Anchor)
    <3>1. search \in Endings
      BY <2>1, SearchKinds DEF DraftInv, CaptureInv
    <3> QED  BY <3>1 DEF Endings
  <2> QED  BY <1>1, <2>1, <2>2 DEF DraftInv, RecordTyped, ObjectsCapped, Capped
<1>5. CASE WriteSnapshot
  BY <1>3, <1>5 DEF WriteSnapshot
<1>6. CASE \E costs \in [1..2 -> ReviewedCosts], price \in Quotes : Draft(costs, price)
  <2>1. PICK costs \in [1..2 -> ReviewedCosts], price \in Quotes : Draft(costs, price)
    BY <1>6
  <2>2. Capped(drafting'.object) /\ record' = record
    BY <2>1, DraftKeeps DEF Draft
  <2>3. drafting' = [pc |-> drafting'.pc, packet |-> drafting'.packet,
                     object |-> drafting'.object]
    BY <2>1 DEF Draft
  <2> QED  BY <1>1, <2>2, <2>3 DEF DraftInv, RecordTyped, ObjectsCapped, Capped
<1>7. ASSUME NEW key \in {"policy", "packaged", "packet"}, NEW value,
             drafting # Off, record' = [record EXCEPT ![key] = value],
             key = "packaged" => value = drafting.object,
             NEW next, drafting' = Off \/ drafting' = [drafting EXCEPT !.pc = next]
      PROVE  DraftInv'
  <2>1. Capped(drafting.object)
    BY <1>7 DEF DraftInv, ObjectsCapped
  <2>2. RecordTyped' /\ (record'.packaged = record.packaged
                           \/ record'.packaged = drafting.object)
    BY <1>7 DEF DraftInv, RecordTyped
  <2>3. drafting' # Off =>
          /\ drafting' = [pc |-> drafting'.pc, packet |-> drafting'.packet,
                          object |-> drafting'.object]
          /\ drafting'.object = drafting.object
    BY <1>7 DEF DraftInv, ObjectsCapped
  <2>4. ObjectsCapped'
    BY <1>7, <2>1, <2>2, <2>3 DEF DraftInv, ObjectsCapped, Capped
  <2> QED  BY <1>1, <2>2, <2>4 DEF DraftInv
<1>8. CASE StopDraft
  <2>1. drafting' = Off /\ record' = record
    BY <1>8 DEF StopDraft
  <2> QED  BY <1>1, <2>1 DEF DraftInv, RecordTyped, ObjectsCapped, Capped
<1>9. CASE WriteRecoveryPolicy \/ WriteAuthorization \/ WriteRecoveryPacket
  <2>1. ASSUME NEW pc \in {"policy", "packaged", "packet"},
               NEW key \in {"policy", "packaged", "packet"}, NEW value, NEW next,
               DraftWrites(pc, key, value, next),
               key = "packaged" => value = drafting.object
        PROVE  DraftInv'
    <3>1. /\ drafting # Off /\ record' = [record EXCEPT ![key] = value]
          /\ drafting' = Off \/ drafting' = [drafting EXCEPT !.pc = next]
      BY <2>1 DEF DraftWrites, Off
    <3> QED  BY <1>7, <2>1, <3>1
  <2>2. CASE WriteRecoveryPolicy
    BY <2>1, <2>2 DEF WriteRecoveryPolicy
  <2>3. CASE WriteAuthorization
    BY <2>1, <2>3 DEF WriteAuthorization
  <2>4. CASE WriteRecoveryPacket
    BY <2>1, <2>4 DEF WriteRecoveryPacket
  <2> QED  BY <1>9, <2>2, <2>3, <2>4
<1>10. CASE \/ \E nonces \in SUBSET (Nonces \ MinedIn(ledger)) : Extend(nonces)
            \/ \E h \in DOMAIN ledger \ {1} : Shuffle(h)
            \/ ReadHead \/ ReadNonces \/ Probe \/ FindTransaction \/ ReadReceipt
            \/ ReadPinned \/ StopCapture \/ UNCHANGED recoveryVars
  <2>1. UNCHANGED <<drafting, record>>
    BY <1>10 DEF Extend, Shuffle, ReadHead, ReadNonces, Probe, FindTransaction,
                 ReadReceipt, ReadPinned, StopCapture, recoveryVars
  <2> QED  BY <1>2, <2>1
<1> QED  BY <1>4, <1>5, <1>6, <1>8, <1>9, <1>10 DEF RecoveryNext

(* recovery-generate.mjs and recovery-core.mjs: what the page lets each     *)
(* remaining step cost, with what was paid and the principal, is under the  *)
(* cap at the bound price, although the generator compares only a sum       *)
(* rounded once.                                                            *)
THEOREM CeilingsCapped == RecoverySpec => []CeilingsWithinCap
<1>1. RecoveryInit => DraftInv
  <2> SUFFICES ASSUME RecoveryInit PROVE DraftInv
    OBVIOUS
  <2>1. search = Off /\ search.pc = "off" /\ drafting = Off
        /\ record = [anchors |-> None, snapshot |-> None, policy |-> None,
                     packaged |-> None, packet |-> None]
    BY DEF RecoveryInit, Off
  <2>2. CaptureInv
    BY <2>1, LedgerBegins DEF CaptureInv, SearchTyped, BegunRight, SearchRight
  <2> QED  BY <2>1, <2>2 DEF DraftInv, RecordTyped, ObjectsCapped
<1>2. DraftInv /\ [RecoveryNext]_recoveryVars => DraftInv'
  BY DraftInvKept
<1>3. DraftInv => CeilingsWithinCap
  <2> SUFFICES ASSUME DraftInv, RecoveryBinds
               PROVE  LET p == record.packaged
                      IN (p.realized + PaidPrincipal + p.ceilings[1] + p.ceilings[2])
                             * p.price < (CapUsd + 1) * PriceUnit
    BY DEF CeilingsWithinCap
  <2>1. record.packaged # None
    BY DEF RecoveryBinds, DraftInv, RecordTyped
  <2> QED  BY <2>1 DEF DraftInv, ObjectsCapped, Capped
<1> QED  BY <1>1, <1>2, <1>3, PTL DEF RecoverySpec
=============================================================================
