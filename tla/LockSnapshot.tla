----------------------------- MODULE LockSnapshot -----------------------------
(***************************************************************************)
(* apps/indexer/src/lock-snapshot: the snapshot of lock weights at a       *)
(* pinned block.  Every read is a request of its own to one of two RPC     *)
(* endpoints, an archive for state and optionally another one for logs.    *)
(* The chain may have two branches, and each endpoint follows one of them, *)
(* lags behind, and may change to the other one between two requests.      *)
(*                                                                         *)
(* Operators whose name ends in _Defect... are faulty variants of the one  *)
(* that follows them; each breaks a property (see the README).             *)
(***************************************************************************)
EXTENDS Integers, FiniteSets, FiniteSetsExt

CONSTANTS
    Accounts,
    Pin,          \* snapshotBlock
    LastBlock,    \* bound on the height of a branch
    LOG_CHUNK,    \* blocks of a getLogs window, less one
    Amount,       \* distributionAmount
    DeepReorgs,   \* may an endpoint change branch below the pin during a run
    MaxReorgs     \* bound on the changes of branch

ASSUME SnapshotAssumption ==
    /\ Pin \in Nat \ {0}
    /\ LastBlock \in Nat /\ LastBlock >= Pin
    /\ LOG_CHUNK \in Nat
    /\ Amount \in Nat \ {0}
    /\ DeepReorgs \in BOOLEAN
    /\ MaxReorgs \in Nat

Branches == {"main", "side"}
Endpoints == {"archive", "logs"}
Requested == "main"     \* expectedBlockHash is the hash of Pin on this branch

Never == -1

VARIABLES
    \* the chain
    fork,       \* the last block both branches share
    deployed,   \* the block that deploys the locking vault, on both
    locks,      \* on each branch, the lock each account creates, if any
    branch,     \* the branch an endpoint is on
    head,       \* the block it has reached
    reorgs,
    \* the run
    from,       \* enumerationStartBlock
    oneClient,  \* no logs endpoint was given
    step,
    verified,   \* logsEndpointVerified
    progress,   \* next block to scan, or next lock to read
    created,    \* LockCreated records
    withdrawn,  \* LockWithdrawn records
    count,      \* lockCount of the accounts read so far
    weight      \* their effective weights

chainVars == <<fork, deployed, locks, branch, head, reorgs>>
reqVars == <<from, oneClient>>
runVars == <<step, verified, progress, created, withdrawn, count, weight>>
snapVars == <<chainVars, reqVars, runVars>>

(* A lock: the block of its creation and of its withdrawal, its weight.    *)
(* An account creates none or one.                                         *)
Histories ==
    {[created |-> Never, withdrawn |-> Never]} \cup
    {h \in [created : deployed..LastBlock, withdrawn : {Never} \cup (0..LastBlock)] :
         h.withdrawn = Never \/ h.created < h.withdrawn}

(* what both branches have in common *)
Shared(h) ==
    [created |-> IF h.created <= fork THEN h.created ELSE Never,
     withdrawn |-> IF h.withdrawn <= fork THEN h.withdrawn ELSE Never]

SnapInit ==
    /\ fork \in {Pin - 1, Pin}
    /\ deployed \in {1, Pin + 1}
    /\ locks \in [Branches -> [Accounts -> Histories]]
    /\ \A a \in Accounts : Shared(locks["main"][a]) = Shared(locks["side"][a])
    /\ branch \in [Endpoints -> Branches]
    /\ head \in [Endpoints -> {Pin - 1, Pin}]
    /\ reorgs = 0
    /\ from \in 0..Pin
    /\ oneClient \in BOOLEAN
    /\ step = "header"
    /\ verified = FALSE
    /\ progress = 0
    /\ created = {}
    /\ withdrawn = {}
    /\ count = [a \in {} |-> 0]
    /\ weight = [a \in {} |-> 0]

----------------------------------------------------------------------------
(* The chain as an endpoint shows it *)

NewBlock ==
    /\ \E e \in Endpoints : /\ head[e] < LastBlock
                            /\ head' = [head EXCEPT ![e] = @ + 1]
    /\ UNCHANGED <<fork, deployed, locks, branch, reorgs, reqVars, runVars>>

Other(b) == CHOOSE c \in Branches : c # b

Reorg ==
    /\ reorgs < MaxReorgs
    /\ DeepReorgs \/ fork >= Pin
    /\ \E e \in Endpoints : branch' = [branch EXCEPT ![e] = Other(@)]
    /\ reorgs' = reorgs + 1
    /\ UNCHANGED <<fork, deployed, locks, head, reqVars, runVars>>

BlockHash(e, n) == <<n, IF n <= fork THEN "main" ELSE branch[e]>>
ExpectedHash == <<Pin, IF Pin <= fork THEN "main" ELSE Requested>>
HasBlock(e, n) == n <= head[e]

LogsEndpoint == IF oneClient THEN "archive" ELSE "logs"

(* eth_getLogs: what the endpoint has of the window *)
LogsIn(lo, hi, field) ==
    LET e == LogsEndpoint
        seen(a) == locks[branch[e]][a][field]
    IN  {[account |-> a, block |-> seen(a)] :
            a \in {x \in Accounts : /\ seen(x) \in lo..hi
                                    /\ HasBlock(e, seen(x))}}

(* the vault's state at Pin on a branch *)
CountAt(b, a) == IF locks[b][a].created \in 0..Pin THEN 1 ELSE 0
WeightAt(b, a) ==
    IF locks[b][a].created \in 0..Pin /\ locks[b][a].withdrawn \notin 0..Pin
    THEN locks[b][a].created + 1 ELSE 0

----------------------------------------------------------------------------
(* runSnapshotPipeline.  A check that fails, or a request that does, ends  *)
(* the run without a result.                                               *)

At(s) == step = s /\ UNCHANGED <<chainVars, reqVars>>

GoTo(s) ==
    /\ step' = s
    /\ UNCHANGED <<verified, progress, created, withdrawn, count, weight>>

(* SnapshotPipelineError, or an error of the transport *)
Throws ==
    /\ step \notin {"done", "failed"}
    /\ GoTo("failed")
    /\ UNCHANGED <<chainVars, reqVars>>

(* block, chain id: BLOCK_NOT_FOUND, BLOCK_HASH_MISMATCH *)
ReadHeader ==
    /\ At("header")
    /\ HasBlock("archive", Pin)
    /\ BlockHash("archive", Pin) = ExpectedHash
    /\ GoTo("synced")

(* INDEXER_BEHIND *)
CheckSynced ==
    /\ At("synced")
    /\ head["archive"] >= Pin
    /\ GoTo("coverage")

VaultHasCodeAt(n) == n >= 0 /\ n >= deployed

(* INCOMPLETE_COVERAGE *)
Covered == ~VaultHasCodeAt(from - 1)

CheckCoverage ==
    /\ At("coverage")
    /\ Covered
    /\ GoTo("deployed")

(* VAULT_NOT_DEPLOYED *)
CheckDeployed ==
    /\ At("deployed")
    /\ VaultHasCodeAt(Pin)
    /\ GoTo("verify")

(* assertLogsEndpointChain, the first time a scan calls it *)
VerifyLogsEndpoint ==
    /\ At("verify")
    /\ \/ oneClient
       \/ /\ HasBlock("archive", Pin) /\ HasBlock("logs", Pin)
          /\ BlockHash("archive", Pin) = BlockHash("logs", Pin)
    /\ step' = "scan-created"
    /\ verified' = TRUE
    /\ progress' = from
    /\ UNCHANGED <<created, withdrawn, count, weight>>

WindowEnd == IF progress + LOG_CHUNK > Pin THEN Pin ELSE progress + LOG_CHUNK

NextWindow_DefectSkipsBlock == progress + LOG_CHUNK + 2

NextWindow == progress + LOG_CHUNK + 1

(* one getLogs of the scan for LockCreated *)
ScanCreated ==
    /\ At("scan-created")
    /\ progress <= Pin
    /\ created' = created \cup LogsIn(progress, WindowEnd, "created")
    /\ progress' = NextWindow
    /\ UNCHANGED <<step, verified, withdrawn, count, weight>>

CreatedScanned ==
    /\ At("scan-created")
    /\ progress > Pin
    /\ verified
    /\ step' = "scan-withdrawn"
    /\ progress' = from
    /\ UNCHANGED <<verified, created, withdrawn, count, weight>>

ScanWithdrawn ==
    /\ At("scan-withdrawn")
    /\ progress <= Pin
    /\ withdrawn' = withdrawn \cup LogsIn(progress, WindowEnd, "withdrawn")
    /\ progress' = NextWindow
    /\ UNCHANGED <<step, verified, created, count, weight>>

(* enumerateCandidates: the accounts of the records up to the pin *)
Candidates == {r.account : r \in {x \in created : x.block <= Pin}}

WithdrawnScanned ==
    /\ At("scan-withdrawn")
    /\ progress > Pin
    /\ GoTo("weigh")

(* lockCountAt *)
ReadLockCount(a) ==
    /\ At("weigh")
    /\ a \in Candidates
    /\ a \notin DOMAIN count
    /\ DOMAIN weight = DOMAIN count
    /\ count' = [x \in DOMAIN count \cup {a} |->
                    IF x = a THEN CountAt(branch["archive"], a) ELSE count[x]]
    /\ UNCHANGED <<step, verified, progress, created, withdrawn, weight>>

(* positionWeightAt for each of its locks; one that is not there reverts *)
ReadWeight(a) ==
    /\ At("weigh")
    /\ a \in DOMAIN count \ DOMAIN weight
    /\ count[a] <= CountAt(branch["archive"], a)
    /\ weight' = [x \in DOMAIN weight \cup {a} |->
                    IF x # a THEN weight[x]
                    ELSE IF count[a] = 0 THEN 0
                    ELSE WeightAt(branch["archive"], a)]
    /\ UNCHANGED <<step, verified, progress, created, withdrawn, count>>

Participants == {a \in DOMAIN weight : weight[a] > 0}
TotalWeight == MapThenSumSet(LAMBDA a : weight[a], Participants)
Entitlement(a) == (Amount * weight[a]) \div TotalWeight

(* entitlements, leaves, leaf parity: NO_PARTICIPANTS and                  *)
(* DUST_ONLY_DISTRIBUTION; then the artifacts are written                  *)
Finish ==
    /\ At("weigh")
    /\ DOMAIN weight = Candidates
    /\ \E a \in Participants : Entitlement(a) > 0
    /\ GoTo("done")

SnapNext ==
    \/ ReadHeader
    \/ CheckSynced
    \/ CheckCoverage
    \/ CheckDeployed
    \/ VerifyLogsEndpoint
    \/ ScanCreated
    \/ CreatedScanned
    \/ ScanWithdrawn
    \/ WithdrawnScanned
    \/ \E a \in Accounts : ReadLockCount(a) \/ ReadWeight(a)
    \/ Finish
    \/ Throws
    \/ NewBlock
    \/ Reorg

SnapSpec == SnapInit /\ [][SnapNext]_snapVars

----------------------------------------------------------------------------
(* PROPERTIES *)

RecordsOf(field) ==
    {[account |-> a, block |-> locks[Requested][a][field]] :
        a \in {x \in Accounts : locks[Requested][x][field] \in 0..Pin}}

(* A snapshot that is produced describes the history of the block it was   *)
(* asked for and names: exactly the wallets with weight there, each with   *)
(* its weight, and every creation and withdrawal up to the block, wherever *)
(* the windows of the scan fall, whatever block the scan starts at, and    *)
(* whichever branch each endpoint is on ("divergent-history protection").  *)
SnapshotIsPinnedState ==
    step = "done" =>
      /\ Participants = {a \in Accounts : WeightAt(Requested, a) > 0}
      /\ \A a \in Participants : weight[a] = WeightAt(Requested, a)
      /\ created = RecordsOf("created")
      /\ withdrawn = RecordsOf("withdrawn")
=============================================================================
