---------------------------- MODULE Transparency ----------------------------
(***************************************************************************)
(* The dashboard's transparency panel: lib/services/transparency-reads.ts  *)
(* scans the logs of three contracts window by window and aggregates them  *)
(* (lib/transparency.ts), then lib/services/acquisition-reconcile.ts reads *)
(* the coordinator three times to confirm the acquisition of one cycle.    *)
(* Meanwhile blocks are mined, the last ones reorganised, the node repeats *)
(* logs, requests fail, and a change of account or a transaction starts    *)
(* the effect again.  A superseded effect changes nothing any more: each   *)
(* set is guarded by its `live' flag.                                      *)
(*                                                                         *)
(* A block holds one transaction; the contracts that emit the logs are     *)
(* external here (AcquisitionVault, FundingCoordinator, ClaimManager and   *)
(* TradeRouter model them), reduced to what their logs say.                *)
(***************************************************************************)
EXTENDS Integers, Sequences, FiniteSets, Functions

CONSTANTS
    Gross,          \* WETH amounts traded
    Spent,          \* WETH amounts an acquisition may have cost
    Acquired,       \* stock it brought
    ShownCycle,     \* the cycle the panel reconciles
    OtherCycle,
    HeadBlock, Confirmations, ChunkSize,   \* of the scan
    NoRow,          \* undefined
    MaxBlocks,      \* bound on the chain's length
    MaxReorgs,      \* bound on reorganisations
    MaxEffects      \* bound on the runs of the effect

ASSUME TransparencyAssumption ==
    /\ Gross \subseteq Nat /\ Spent \subseteq Nat
    /\ Acquired \in Nat
    /\ HeadBlock \in Nat /\ Confirmations \in Nat
    /\ ChunkSize \in Nat \ {0}
    /\ MaxBlocks \in Nat /\ MaxReorgs \in Nat
    /\ MaxEffects \in Nat

VARIABLES
    blocks,      \* blocks[n]: the transaction of block n
    hashes,      \* hashes[n]: its hash
    dropped,     \* a transaction the last reorganisation left out
    peak,        \* the highest block there ever was
    reorgs,
    scan,        \* the running effect
    report,      \* what the panel shows
    recon,       \* the reconciliation it shows
    runs         \* of the effect, so far

chainTipVars == <<blocks, hashes, dropped, peak, reorgs>>
panelReadVars == <<scan, report, recon, runs>>
transparencyVars == <<chainTipVars, panelReadVars>>

----------------------------------------------------------------------------
(* The chain *)

Cycles == {ShownCycle, OtherCycle}

Recorded(chain) == {b \in DOMAIN chain : chain[b].kind = "record"}
FundedBy(chain, cycle) ==
    {b \in DOMAIN chain : chain[b].kind = "fund" /\ chain[b].cycle = cycle}
Claims(chain, cycle) ==
    {b \in DOMAIN chain : chain[b].kind = "claim" /\ chain[b].cycle = cycle}

Transactions ==
    [kind : {"buy", "sell"}, gross : Gross]
    \cup [kind : {"record"}, id : {Cardinality(Recorded(blocks)) + 1},
          weth : Spent]
    \cup {[kind |-> "fund", id |-> blocks[b].id, cycle |-> c] :
              b \in {r \in Recorded(blocks) :
                        \A f \in DOMAIN blocks :
                            blocks[f].kind = "fund"
                                => blocks[f].id # blocks[r].id},
              c \in {d \in Cycles : FundedBy(blocks, d) = {}}}
    \cup [kind : {"claim"}, cycle : {c \in Cycles : FundedBy(blocks, c) # {}}]

MineBlock ==
    /\ Len(blocks) < MaxBlocks
    /\ \E tx \in Transactions :
         /\ blocks' = Append(blocks, tx)
         /\ \/ hashes' = Append(hashes, <<reorgs, Len(blocks)>>)
               /\ UNCHANGED dropped
            \/ /\ dropped # NoRow /\ dropped.tx = tx
               /\ hashes' = Append(hashes, dropped.hash)
               /\ dropped' = NoRow
    /\ peak' = IF Len(blocks') > peak THEN Len(blocks') ELSE peak
    /\ UNCHANGED <<reorgs, panelReadVars>>

(* a block with Confirmations others on top is final; a transaction of one *)
(* that is not may be mined again, in another block                        *)
Reorg ==
    /\ reorgs < MaxReorgs
    /\ Len(blocks) > peak - Confirmations /\ blocks # << >>
    /\ blocks' = SubSeq(blocks, 1, Len(blocks) - 1)
    /\ hashes' = SubSeq(hashes, 1, Len(hashes) - 1)
    /\ dropped' = [tx |-> blocks[Len(blocks)], hash |-> hashes[Len(hashes)]]
    /\ reorgs' = reorgs + 1
    /\ UNCHANGED <<peak, panelReadVars>>

----------------------------------------------------------------------------
(* The economics the logs carry (lib/economics.ts)                         *)

FloorBps(amount, bps) == (amount * bps) \div 10000
BuyAllocation(g) == [stock |-> FloorBps(g, 200), burn |-> FloorBps(g, 100)]
SellAllocation(w) == [stock |-> FloorBps(w, 200), burn |-> FloorBps(w, 200)]

AcquiredStockSplit(acquired) ==
    [distribution |-> (acquired * 80) \div 100,
     reserve |-> acquired - (acquired * 80) \div 100]

Allocation(tx) == IF tx.kind = "buy" THEN BuyAllocation(tx.gross)
                                     ELSE SellAllocation(tx.gross)

(* the logs of a transaction, with their index and emitter; one BPS is     *)
(* burned per unit of WETH                                                 *)
LogsOf(tx) ==
    CASE tx.kind \in {"buy", "sell"} ->
           { [emitter |-> "router", index |-> 0, name |-> "Official",
              tx |-> tx, amount |-> tx.gross],
             [emitter |-> "router", index |-> 1, name |-> "Repurchased",
              tx |-> tx, amount |-> Allocation(tx).burn],
             [emitter |-> "router", index |-> 2, name |-> "Delivered",
              tx |-> tx, amount |-> Allocation(tx).stock] }
      [] tx.kind = "record" ->
           {[emitter |-> "coordinator", index |-> 0, name |-> "Recorded",
             tx |-> tx, amount |-> tx.weth]}
      [] tx.kind = "fund" ->
           {[emitter |-> "coordinator", index |-> 0, name |-> "Funded",
             tx |-> tx, amount |-> AcquiredStockSplit(Acquired).distribution]}
      [] tx.kind = "claim" ->
           {[emitter |-> "manager", index |-> 0, name |-> "Claimed",
             tx |-> tx, amount |-> 1]}

(* eth_getLogs: the block and transaction of a log and what it says;       *)
(* `copy' is 2 for the second delivery of a log the node repeats           *)
Logs(emitter, from, to) ==
    UNION {{[block |-> b, hash |-> hashes[b], log |-> l, copy |-> 1] :
               l \in {k \in LogsOf(blocks[b]) : k.emitter = emitter}} :
           b \in {c \in DOMAIN blocks : from <= c /\ c <= to}}

----------------------------------------------------------------------------
(* getLogsChunked and decodeLogs.  Operators whose name ends in _Defect...  *)
(* are faulty variants of the one that follows them; each breaks a         *)
(* property (see the README).                                              *)

SafeHead == HeadBlock - Confirmations

WindowEnd(start) ==
    IF start + ChunkSize - 1 > SafeHead THEN SafeHead ELSE start + ChunkSize - 1

NextWindow_DefectSkips(start) == WindowEnd(start) + 2

NextWindow(start) == start + ChunkSize

(* the first log of each transaction and index *)
DedupeLogs(logs) ==
    {l \in logs : ~ \E k \in logs :
        /\ k.hash = l.hash /\ k.log.index = l.log.index
        /\ k.block < l.block \/ (k.block = l.block /\ k.copy < l.copy)}

SumOf(logs) == SumFunctionOnSet([l \in logs |-> l.log.amount], logs)

(* aggregate, and buildTransparencyReport *)
Named(logs, name) == {l \in logs : l.log.name = name}
Trades(logs, kind) == {l \in Named(logs, "Official") : l.log.tx.kind = kind}

Row(logs, r) ==
    LET split == AcquiredStockSplit(Acquired)
        fund == {f \in Named(logs, "Funded") : f.log.tx.id = r.log.tx.id}
        cycle == IF fund = {} THEN NoRow
                 ELSE (CHOOSE f \in fund : TRUE).log.tx.cycle
    IN  [id |-> r.log.tx.id, weth |-> r.log.amount,
         distribution |-> split.distribution, reserve |-> split.reserve,
         cycle |-> cycle,
         claimed |-> SumOf({c \in Named(logs, "Claimed") :
                                c.log.tx.cycle = cycle})]

Aggregate(logs) ==
    LET trades == Named(logs, "Official")
        accrued == SumFunctionOnSet(
                       [l \in trades |-> Allocation(l.log.tx).stock], trades)
        spent == SumOf(Named(logs, "Recorded"))
    IN  [buyVolume |-> SumOf(Trades(logs, "buy")),
         sellVolume |-> SumOf(Trades(logs, "sell")),
         repurchased |-> SumOf(Named(logs, "Repurchased")),
         delivered |-> SumOf(Named(logs, "Delivered")),
         pending |-> IF accrued > spent THEN accrued - spent ELSE 0,
         rows |-> {Row(logs, r) : r \in Named(logs, "Recorded")}]

----------------------------------------------------------------------------
(* The effect *)

Emitters == <<"router", "coordinator", "manager">>

NoScan == [step |-> "idle", at |-> 1, start |-> 0, logs |-> {},
           expected |-> NoRow, id |-> 0, linked |-> FALSE]

(* Mounted, or a dependency changed: the effect runs anew.  The head it    *)
(* scans to is a constant of the dashboard; that the chain is past it is   *)
(* an assumption, without which the windows are not final.                 *)
RunEffect ==
    /\ Len(blocks) >= HeadBlock
    /\ runs < MaxEffects
    /\ runs' = runs + 1
    /\ scan' = [NoScan EXCEPT !.step = "scan"]
    /\ UNCHANGED <<report, recon>>

(* what was fetched, with one more window, which the node may repeat       *)
Fetched(repeats) ==
    LET got == Logs(Emitters[scan.at], scan.start, WindowEnd(scan.start))
    IN  scan.logs \cup got
            \cup {[l EXCEPT !.copy = 2] : l \in {g \in got : repeats}}

(* one window of one contract; after the last the report is built and shown *)
ScanWindow ==
    /\ scan.step = "scan"
    /\ \E repeats \in BOOLEAN :
         LET logs == Fetched(repeats)
             next == NextWindow(scan.start)
             rows == Aggregate(DedupeLogs(logs)).rows
         IN  CASE next <= SafeHead ->
                    /\ scan' = [scan EXCEPT !.start = next, !.logs = logs]
                    /\ UNCHANGED report
               [] next > SafeHead /\ scan.at < Len(Emitters) ->
                    /\ scan' = [scan EXCEPT !.at = @ + 1, !.start = 0,
                                            !.logs = DedupeLogs(logs)]
                    /\ UNCHANGED report
               [] next > SafeHead /\ scan.at = Len(Emitters) ->
                    /\ report' = Aggregate(DedupeLogs(logs))
                    /\ scan' = [NoScan EXCEPT
                          !.step = "cycleUsed",
                          !.expected = IF rows = {} THEN NoRow
                             ELSE CHOOSE r \in rows :
                                      \A s \in rows : r.id <= s.id]
    /\ UNCHANGED <<recon, runs>>

(* reconcileCycleAcquisition, a read at a time *)
Finish(status, id) ==
    /\ recon' = [status |-> status, id |-> id, linked |-> scan.linked]
    /\ scan' = NoScan

ReadCycleUsed ==
    /\ scan.step = "cycleUsed"
    /\ IF FundedBy(blocks, ShownCycle) # {}
       THEN scan' = [scan EXCEPT !.step = "cycleAcquisitionId"]
            /\ UNCHANGED recon
       ELSE Finish(IF scan.expected = NoRow THEN "cycle-unused"
                   ELSE "cycle-acquisition-mismatch", 0)
    /\ UNCHANGED <<report, runs>>

CycleAcquisitionId ==
    IF FundedBy(blocks, ShownCycle) = {} THEN 0
    ELSE blocks[CHOOSE b \in FundedBy(blocks, ShownCycle) : TRUE].id

ReadCycleAcquisitionId ==
    /\ scan.step = "cycleAcquisitionId"
    /\ CASE CycleAcquisitionId = 0 -> Finish("acquisition-missing", 0)
         [] CycleAcquisitionId # 0 /\ scan.expected # NoRow
              /\ scan.expected.id # CycleAcquisitionId ->
                Finish("cycle-acquisition-mismatch", CycleAcquisitionId)
         [] OTHER -> /\ scan' = [scan EXCEPT !.step = "acquisitions",
                                             !.id = CycleAcquisitionId]
                     /\ UNCHANGED recon
    /\ UNCHANGED <<report, runs>>

(* acquisitions(id); the empty record has status 0 *)
Acquisition(id) ==
    LET rec == {b \in Recorded(blocks) : blocks[b].id = id}
        fund == {b \in DOMAIN blocks :
                     blocks[b].kind = "fund" /\ blocks[b].id = id}
    IN  [status |-> IF fund # {} THEN 2 ELSE IF rec # {} THEN 1 ELSE 0,
         weth |-> IF rec = {} THEN 0 ELSE blocks[CHOOSE b \in rec : TRUE].weth,
         cycle |-> IF fund = {} THEN NoRow
                   ELSE blocks[CHOOSE b \in fund : TRUE].cycle]

RecordStatus_DefectIgnoresStatus(record, expected) ==
    IF expected # NoRow /\ expected.weth # record.weth
    THEN "funding-record-mismatch" ELSE "authoritative-confirmed"

RecordStatus(record, expected) ==
    CASE record.status # 2 -> "acquisition-missing"
      [] record.status = 2 /\ record.cycle # ShownCycle ->
           "acquisition-cycle-mismatch"
      [] record.status = 2 /\ record.cycle = ShownCycle
           /\ expected # NoRow /\ expected.weth # record.weth ->
           "funding-record-mismatch"
      [] OTHER -> "authoritative-confirmed"

ReadAcquisition ==
    /\ scan.step = "acquisitions"
    /\ LET status == RecordStatus(Acquisition(scan.id), scan.expected)
       IN  /\ recon' = [status |-> status, id |-> scan.id,
                        linked |-> CycleAcquisitionId = scan.id]
           /\ scan' = NoScan
    /\ UNCHANGED <<report, runs>>

(* a request fails: getLogs throws out of the effect, which clears the     *)
(* reconciliation; a failed read of the coordinator is a verdict           *)
RequestFails ==
    /\ \/ scan.step = "scan" /\ recon' = NoRow /\ scan' = NoScan
       \/ /\ scan.step \in {"cycleUsed", "cycleAcquisitionId", "acquisitions"}
          /\ Finish("read-failed", scan.id)
    /\ UNCHANGED <<report, runs>>

Panel ==
    /\ \/ RunEffect \/ ScanWindow \/ ReadCycleUsed \/ ReadCycleAcquisitionId
       \/ ReadAcquisition \/ RequestFails
    /\ UNCHANGED chainTipVars

TransparencyInit ==
    /\ blocks = << >>
    /\ hashes = << >>
    /\ dropped = NoRow
    /\ peak = 0
    /\ reorgs = 0
    /\ scan = NoScan
    /\ report = NoRow
    /\ recon = NoRow
    /\ runs = 0

TransparencyNext == MineBlock \/ Reorg \/ Panel

TransparencySpec == TransparencyInit /\ [][TransparencyNext]_transparencyVars

(* the table's last column *)
RowConfirmed(row) ==
    /\ recon # NoRow
    /\ recon.status = "authoritative-confirmed"
    /\ recon.id = row.id

----------------------------------------------------------------------------
(* PROPERTIES *)

(* The chain up to the safe head, which is final once the tip reached      *)
(* HeadBlock                                                               *)
Prefix == SubSeq(blocks, 1, SafeHead)

Volume(chain, kind) ==
    LET traded == {b \in DOMAIN chain : chain[b].kind = kind}
    IN  SumFunctionOnSet([b \in traded |-> chain[b].gross], traded)

AcquisitionAt(chain, b) ==
    LET funds == {f \in DOMAIN chain :
                     chain[f].kind = "fund" /\ chain[f].id = chain[b].id}
        cycle == IF funds = {} THEN NoRow
                 ELSE chain[CHOOSE f \in funds : TRUE].cycle
    IN  [id |-> chain[b].id, weth |-> chain[b].weth,
         distribution |-> AcquiredStockSplit(Acquired).distribution,
         reserve |-> AcquiredStockSplit(Acquired).reserve,
         cycle |-> cycle,
         claimed |-> Cardinality(Claims(chain, cycle))]

(* The report is the state of the chain at the safe head: every trade in   *)
(* it exactly once, and of every acquisition recorded there the cycle it   *)
(* funded and what was claimed from it, whatever was mined, reorganised,   *)
(* repeated by the node or refetched while the windows were read.          *)
ReportIsSnapshot ==
    report # NoRow =>
        /\ report.buyVolume = Volume(Prefix, "buy")
        /\ report.sellVolume = Volume(Prefix, "sell")
        /\ report.rows =
               {AcquisitionAt(Prefix, b) : b \in Recorded(Prefix)}

(* A row is marked confirmed only if the coordinator really linked that    *)
(* acquisition to the cycle at the moment of the last of the three reads,  *)
(* although a reorganisation may undo the funding between them, and the    *)
(* row shows what the acquisition recorded then.                           *)
ConfirmedWasLinked ==
    report # NoRow =>
        \A row \in report.rows : RowConfirmed(row) => recon.linked
=============================================================================
