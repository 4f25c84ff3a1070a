---------------------------- MODULE CanaryPacket ----------------------------
(***************************************************************************)
(* The command line tools that prepare the canary packet: the capture of    *)
(* the live chain (capture-live-snapshot.mjs), the collection of prices     *)
(* (collect-prices.mjs), the generator that rehearses the whole sequence on *)
(* a fork and writes the packet (generate-packet.mjs), the offline verifier *)
(* (verify-packet.mjs, canonical.mjs) and the preflight                     *)
(* (preflight-check.mjs).                                                   *)
(*                                                                          *)
(* They share files and nothing else: no tool knows which run of another    *)
(* wrote what it reads, an operator starts them in any order, and a tool    *)
(* killed between two writes leaves files of two runs side by side.  The    *)
(* chain moves under every one of them, and may replace its last blocks; a  *)
(* branch that was abandoned does not come back.                            *)
(*                                                                          *)
(* A digest is the object it is computed from.  The nineteen transactions   *)
(* of the packet are the gas they may cost; the policy asks for a live,     *)
(* executable packet.  The verifier is not a process: what it would say of  *)
(* the files is asked in every state.                                       *)
(***************************************************************************)
EXTENDS Integers, Sequences

CONSTANTS
    None,             \* a file that does not exist, a value not read yet
    Confirmations,    \* how far below its head the capture pins a block
    MaxPriceAge,      \* how old an observation of a price may be
    ValidityWindow,   \* how long after its block a packet expires
    PriceUnit,        \* what a price is a fraction of (10^18)
    Quotes,           \* the prices a source may quote
    LpUsd, TradeUsd,  \* the principal of the packet
    CapUsd,           \* the exposure it may not exceed
    GasEstimates,     \* what the nineteen transactions may be estimated at
    OtherGasEstimate, \* the delayed withdrawal and the funding transactions
    GasMultiplierPct,
    MaxFee,           \* the fee every transaction offers
    Code,             \* the versions the external contracts may have
    ToolsOverlap,     \* TRUE: a tool may be started while another one runs
    MaxBlocks, MaxReorgs, MaxClock,  \* bounds of the chain and of time
    MaxCaptures, MaxCollections, MaxGenerations, MaxPreflights  \* bounds on runs

ASSUME PacketAssumption ==
    /\ {Confirmations, MaxPriceAge, ValidityWindow, CapUsd, LpUsd, TradeUsd} \subseteq Nat
    /\ GasEstimates \cup {OtherGasEstimate} \subseteq Nat
    /\ {PriceUnit, MaxFee, GasMultiplierPct} \subseteq Nat \ {0}
    /\ Quotes \subseteq Nat \ {0}
    /\ ToolsOverlap \in BOOLEAN
    /\ None \notin Code \cup
           [number : Nat, id : Nat \X Nat, at : Nat, deployer : Nat, code : Code]

VARIABLES
    clock,     \* wall time
    blocks,    \* the live chain, from its first block to its head
    reorgs,
    fork,      \* the block a local node was started at
    file,      \* the files the tools share
    capturing, collecting, generating, checking,  \* the tools that run
    runsLeft   \* how often each tool may still be started

packetVars ==
    <<clock, blocks, reorgs, fork, file, capturing, collecting, generating,
      checking, runsLeft>>
chainVars == <<clock, blocks, reorgs>>

Off == [pc |-> "off"]

-----------------------------------------------------------------------------
(* The live chain.  A block holds the nonces of the two wallets and the     *)
(* code of the external contracts after it.                                 *)

Height == Len(blocks)
Tip == blocks[Height]
AtPin(n) == n \in DOMAIN blocks

Grow(b) ==
    /\ Height < MaxBlocks
    /\ blocks' = Append(blocks, [b EXCEPT !.id = <<Height + 1, reorgs>>, !.at = clock])
    /\ UNCHANGED <<clock, reorgs, fork, file, capturing, collecting, generating,
                   checking, runsLeft>>

MineEmpty == Grow(Tip)
DeployerSends == Grow([Tip EXCEPT !.deployer = @ + 1])
ExternalUpgrade(c) == c # Tip.code /\ Grow([Tip EXCEPT !.code = c])

(* The blocks from n on are replaced by others, with another code from      *)
(* there on or the same.                                                    *)
ReorgFrom(n, c) ==
    /\ reorgs < MaxReorgs
    /\ reorgs' = reorgs + 1
    /\ blocks' = [h \in DOMAIN blocks |->
          IF h < n THEN blocks[h]
          ELSE [blocks[h] EXCEPT !.id = <<h, reorgs + 1>>, !.code = c]]
    /\ UNCHANGED <<clock, fork, file, capturing, collecting, generating,
                   checking, runsLeft>>

TimePasses ==
    /\ clock < MaxClock
    /\ clock' = clock + 1
    /\ UNCHANGED <<blocks, reorgs, fork, file, capturing, collecting, generating,
                   checking, runsLeft>>

(* A tool is started; without ToolsOverlap the one before it has ended.     *)
Starts(tool) ==
    /\ ToolsOverlap \/ {t.pc : t \in {capturing, collecting, generating, checking}}
                     \subseteq {"off", "passed"}
    /\ runsLeft[tool] > 0
    /\ runsLeft' = [runsLeft EXCEPT ![tool] = @ - 1]

-----------------------------------------------------------------------------
(* capture-live-snapshot.mjs: the pinned block, then by its number what the *)
(* wallets and the external contracts are there.                            *)

CaptureBlock ==
    /\ capturing = Off
    /\ Starts("capture")
    /\ Height - Confirmations >= 1
    /\ LET pinned == Height - Confirmations IN
         capturing' = [pc |-> "pinned", number |-> pinned, id |-> blocks[pinned].id,
                       at |-> blocks[pinned].at]
    /\ UNCHANGED <<chainVars, fork, file, collecting, generating, checking>>

CaptureState ==
    /\ capturing.pc = "pinned"
    /\ LET b == blocks[capturing.number] IN
         file' = [file EXCEPT !.snapshot =
             [number |-> capturing.number, id |-> capturing.id, at |-> capturing.at,
              deployer |-> b.deployer, code |-> b.code]]
    /\ capturing' = Off
    /\ UNCHANGED <<chainVars, fork, collecting, generating, checking, runsLeft>>

(* The operator copies the block and the nonces into review-policy.json by  *)
(* hand, and starts a node forked there.                                    *)
TranscribePolicy ==
    /\ file.snapshot # None
    /\ file' = [file EXCEPT
         !.policy.block = [number |-> file.snapshot.number, id |-> file.snapshot.id,
                           at |-> file.snapshot.at],
         !.policy.deployer = file.snapshot.deployer]
    /\ file' # file
    /\ UNCHANGED <<chainVars, fork, capturing, collecting, generating, checking, runsLeft>>

StartFork ==
    /\ file.policy.block # None
    /\ AtPin(file.policy.block.number)
    /\ fork' = blocks[file.policy.block.number]
    /\ fork' # fork
    /\ UNCHANGED <<chainVars, file, capturing, collecting, generating, checking, runsLeft>>

-----------------------------------------------------------------------------
(* collect-prices.mjs: one source after the other.                          *)

Observed(q) == [price |-> q, at |-> clock]
Higher(p, q) == IF p >= q THEN p ELSE q

FetchFirst(q) ==
    /\ collecting = Off
    /\ Starts("collect")
    /\ collecting' = [pc |-> "first", first |-> Observed(q)]
    /\ UNCHANGED <<chainVars, fork, file, capturing, generating, checking>>

FetchSecond(q) ==
    /\ collecting.pc = "first"
    /\ collecting' = [pc |-> "second", sources |-> <<collecting.first, Observed(q)>>]
    /\ UNCHANGED <<chainVars, fork, file, capturing, generating, checking, runsLeft>>

WritePrices ==
    /\ collecting.pc = "second"
    /\ LET s == collecting.sources
           stale == \E i \in 1..2 : clock - s[i].at > MaxPriceAge
       IN file' = IF stale THEN file
                  ELSE [file EXCEPT !.price =
                      [sources |-> s, at |-> clock,
                       selected |-> Higher(s[1].price, s[2].price)]]
    /\ collecting' = Off
    /\ UNCHANGED <<chainVars, fork, capturing, generating, checking, runsLeft>>

-----------------------------------------------------------------------------
(* The arithmetic of the exposure: principal floored to wei, gas limits     *)
(* rounded up, and one conversion of the sum.                               *)

FloorWei(usd, price) == (usd * PriceUnit) \div price
UsdOf(wei, price) == (wei * price) \div PriceUnit
GasCost(estimate) == ((estimate * GasMultiplierPct + 99) \div 100) * MaxFee

Principal(price) == FloorWei(LpUsd, price) + FloorWei(TradeUsd, price)
AggregateWei(gas, price) == Principal(price) + gas + GasCost(OtherGasEstimate)

(* Deliberate defect: every part is converted by itself and the dollars are *)
(* added.                                                                   *)
AggregateUsd_DefectEachPart(gas, price) ==
    UsdOf(FloorWei(LpUsd, price), price) + UsdOf(FloorWei(TradeUsd, price), price)
        + UsdOf(gas, price) + UsdOf(GasCost(OtherGasEstimate), price)

AggregateUsd(gas, price) == UsdOf(AggregateWei(gas, price), price)

-----------------------------------------------------------------------------
(* generate-packet.mjs.                                                     *)

(* Deliberate defect: only the age of the file is looked at.                *)
PriceFresh_DefectFileOnly(p) == clock - p.at <= MaxPriceAge

PriceFresh(p) ==
    /\ clock - p.at <= MaxPriceAge
    /\ \A i \in 1..2 : clock - p.sources[i].at <= MaxPriceAge

GenerateStart ==
    /\ generating = Off
    /\ Starts("generate")
    /\ file.price # None
    /\ file.policy.block # None
    /\ PriceFresh(file.price)
    /\ generating' = [pc |-> "read", policy |-> file.policy, price |-> file.price,
                      generated |-> clock]
    /\ UNCHANGED <<chainVars, fork, file, capturing, collecting, checking>>

(* Deliberate defect: the fork is compared with the policy only.            *)
ForkIsPinned_DefectNoLiveCheck(policy) ==
    /\ fork # None
    /\ fork.id = policy.block.id
    /\ {Tip.deployer, fork.deployer} = {policy.deployer}

(* The fork's head is the block of the policy, the live chain has the same  *)
(* block at that height, and both have the nonces of the policy.            *)
ForkIsPinned(policy) ==
    /\ fork # None
    /\ fork.id = policy.block.id
    /\ AtPin(policy.block.number)
    /\ blocks[policy.block.number].id = fork.id
    /\ {Tip.deployer, fork.deployer} = {policy.deployer}

(* The rehearsal: the nineteen transactions on the fork, their gas, and the *)
(* exposure it adds up to.  The last component is what they ran on.         *)
GenerateRehearse(estimate) ==
    /\ generating.pc = "read"
    /\ ForkIsPinned(generating.policy)
    /\ LET gas == GasCost(estimate)
           price == generating.price.selected
       IN /\ AggregateUsd(gas, price) <= CapUsd
          /\ generating' =
               [pc |-> "rehearsed", policy |-> generating.policy,
                packet |-> [block |-> generating.policy.block, deployer |-> fork.deployer,
                            price |-> generating.price, gas |-> gas,
                            aggregate |-> AggregateWei(gas, price),
                            generated |-> generating.generated,
                            expires |-> fork.at + ValidityWindow,
                            ranOn |-> fork.code, anchor |-> None]]
    /\ UNCHANGED <<chainVars, fork, file, capturing, collecting, checking, runsLeft>>

(* canonical.mjs.  The object is built from the packet, the policy and the  *)
(* snapshot, and there is none when these disagree.                         *)
Reconstructs(packet, policy, snapshot) ==
    /\ snapshot.number = packet.block.number
    /\ snapshot.id = packet.block.id
    /\ snapshot.at = packet.block.at
    /\ snapshot.deployer = policy.deployer
    /\ packet.aggregate = AggregateWei(packet.gas, packet.price.selected)

Canonical(packet, snapshot) ==
    [block |-> packet.block, startNonce |-> packet.deployer,
     snapshotNonce |-> snapshot.deployer, code |-> snapshot.code,
     gas |-> packet.gas, aggregate |-> packet.aggregate,
     generated |-> packet.generated, expires |-> packet.expires]

(* The snapshot is read again, when the rehearsal is over.                  *)
GenerateBuild ==
    /\ generating.pc = "rehearsed"
    /\ file.snapshot # None
    /\ Reconstructs(generating.packet, generating.policy, file.snapshot)
    /\ LET object == Canonical(generating.packet, file.snapshot) IN
         generating' = [pc |-> "built", object |-> object,
                        policy |-> [generating.policy EXCEPT !.anchor = object],
                        packet |-> [generating.packet EXCEPT !.anchor = object]]
    /\ UNCHANGED <<chainVars, fork, file, capturing, collecting, checking, runsLeft>>

(* Four writes, the policy as it was read at the start among them.          *)
Writes(pc, key, value, next) ==
    /\ generating.pc = pc
    /\ file' = [file EXCEPT ![key] = value]
    /\ generating' = IF next = "off" THEN Off ELSE [generating EXCEPT !.pc = next]
    /\ UNCHANGED <<chainVars, fork, capturing, collecting, checking, runsLeft>>

WritePolicy == Writes("built", "policy", generating.policy, "policy")
WritePackaged == Writes("policy", "packaged", generating.object, "packaged")
WritePacket == Writes("packaged", "packet", generating.packet, "packet")
WriteManifest == Writes("packet", "manifest", generating.packet.deployer, "off")

(* A tool stops: an error, or the operator, or the machine.                 *)
GenerateStops ==
    /\ generating # Off
    /\ generating' = Off
    /\ UNCHANGED <<chainVars, fork, file, capturing, collecting, checking, runsLeft>>

-----------------------------------------------------------------------------
(* verify-packet.mjs.                                                       *)

AllWritten == \A key \in DOMAIN file : file[key] # None

(* As of the generation, so that a packet stays verifiable.                 *)
FreshAtGeneration(packet, price) ==
    /\ \A i \in 1..2 : price.at - price.sources[i].at \in 0..MaxPriceAge
    /\ packet.generated - price.at \in 0..MaxPriceAge

AnchorsAgree(object) ==
    /\ file.packaged = object
    /\ file.policy.anchor = object
    /\ file.packet.anchor = object

SnapshotAgrees ==
    /\ file.packet.block = file.policy.block
    /\ file.packet.deployer = file.policy.deployer
    /\ file.manifest = file.packet.deployer

PricesAgree ==
    /\ file.packet.price = file.price
    /\ file.price.selected = Higher(file.price.sources[1].price, file.price.sources[2].price)

ExposureAgrees ==
    LET p == file.packet IN
    /\ p.aggregate = AggregateWei(p.gas, p.price.selected)
    /\ AggregateUsd(p.gas, p.price.selected) <= CapUsd

Verifies ==
    /\ AllWritten
    /\ FreshAtGeneration(file.packet, file.price)
    /\ Reconstructs(file.packet, file.policy, file.snapshot)
    /\ AnchorsAgree(Canonical(file.packet, file.snapshot))
    /\ SnapshotAgrees
    /\ PricesAgree
    /\ ExposureAgrees

(* operator-core.mjs, bindAndVerifyPacket: the page of the operator has     *)
(* neither prices nor manifest, and goes on with the packaged object alone. *)
Binds ==
    /\ None \notin {file.packet, file.snapshot, file.packaged}
    /\ Reconstructs(file.packet, file.policy, file.snapshot)
    /\ AnchorsAgree(Canonical(file.packet, file.snapshot))
    /\ file.packet.block = file.policy.block
    /\ {file.packet.deployer, file.policy.deployer} = {file.snapshot.deployer}

-----------------------------------------------------------------------------
(* preflight-check.mjs: the files once, and gates that read the chain one   *)
(* after the other, each at its latest block.                               *)

PreflightStart ==
    /\ checking.pc \in {"off", "passed"}
    /\ Starts("preflight")
    /\ file.packet # None
    /\ file.snapshot # None
    /\ checking' = [pc |-> "nonces", ok |-> clock <= file.packet.expires,
                    packet |-> file.packet, snapshot |-> file.snapshot]
    /\ UNCHANGED <<chainVars, fork, file, capturing, collecting, generating>>

(* The nonces still are the packet's, and the wallets are funded (or not).  *)
CheckNonces(funded) ==
    /\ checking.pc = "nonces"
    /\ checking' = [checking EXCEPT !.pc = "code",
           !.ok = @ /\ funded /\ Tip.deployer = checking.packet.deployer]
    /\ UNCHANGED <<chainVars, fork, file, capturing, collecting, generating, runsLeft>>

(* Deliberate defect: the addresses are looked at, not their code.          *)
CodeUnchanged_DefectAnyCode(snapshot) == snapshot.number \in DOMAIN blocks

(* The external contracts have the code of block-snapshot.json.             *)
CodeUnchanged(snapshot) == Tip.code = snapshot.code

(* The addresses to come are empty while no transaction used their nonce;   *)
(* the exposure is the packet's own.                                        *)
CheckCode ==
    /\ checking.pc = "code"
    /\ LET ok == /\ checking.ok
                 /\ CodeUnchanged(checking.snapshot)
                 /\ Tip.deployer <= checking.packet.deployer
                 /\ AggregateUsd(checking.packet.gas, checking.packet.price.selected) <= CapUsd
       IN checking' = IF ok THEN [pc |-> "passed", packet |-> checking.packet, code |-> Tip.code]
                      ELSE Off
    /\ UNCHANGED <<chainVars, fork, file, capturing, collecting, generating, runsLeft>>

-----------------------------------------------------------------------------
PacketInit ==
    /\ clock = 0
    /\ \E c \in Code : blocks = [h \in 1..(Confirmations + 1) |->
           [id |-> <<h, 0>>, at |-> 0, deployer |-> 0, code |-> c]]
    /\ reorgs = 0
    /\ fork = None
    /\ file = [snapshot |-> None, price |-> None, packaged |-> None, packet |-> None,
               manifest |-> None,
               policy |-> [block |-> None, deployer |-> 0, anchor |-> None]]
    /\ capturing = Off /\ collecting = Off /\ generating = Off /\ checking = Off
    /\ runsLeft = [capture |-> MaxCaptures, collect |-> MaxCollections,
                   generate |-> MaxGenerations, preflight |-> MaxPreflights]

PacketNext ==
    \/ MineEmpty
    \/ DeployerSends
    \/ \E c \in Code : ExternalUpgrade(c)
    \/ \E n \in DOMAIN blocks \ {1}, c \in Code : ReorgFrom(n, c)
    \/ TimePasses
    \/ CaptureBlock
    \/ CaptureState
    \/ TranscribePolicy
    \/ StartFork
    \/ \E q \in Quotes : FetchFirst(q)
    \/ \E q \in Quotes : FetchSecond(q)
    \/ WritePrices
    \/ GenerateStart
    \/ \E e \in GasEstimates : GenerateRehearse(e)
    \/ GenerateBuild
    \/ WritePolicy
    \/ WritePackaged
    \/ WritePacket
    \/ WriteManifest
    \/ GenerateStops
    \/ PreflightStart
    \/ \E funded \in BOOLEAN : CheckNonces(funded)
    \/ CheckCode

PacketSpec == PacketInit /\ [][PacketNext]_packetVars

-----------------------------------------------------------------------------
(* Properties.                                                              *)

(* What the page of the operator binds itself to is what the rehearsal ran  *)
(* on.  Snapshot, policy, packet and authorization are written by different *)
(* runs, which may be killed half way or straddle a reorganisation, and the *)
(* authorization takes the external contracts' code from a file the         *)
(* rehearsal never looks at; still, when the page binds, it is the code of  *)
(* the block the fork was at, and the nonces, the gas and the time of       *)
(* generation are those of the run that wrote the packet.                   *)
AuthorizationIsRehearsal ==
    Binds =>
        /\ file.packaged.code = file.packet.ranOn
        /\ file.packaged.startNonce = file.packet.deployer
        /\ file.packaged.gas = file.packet.gas
        /\ file.packaged.generated = file.packet.generated

(* The exposure of a packet that verifies, summed from its transactions and *)
(* valued at either source's quote, is under the cap to the last fraction:  *)
(* no rounding of a part hides what the sum exceeds.                        *)
ExposureWithinCap ==
    Verifies =>
        \A i \in 1..2 :
            AggregateWei(file.packet.gas, file.packet.price.selected)
                * file.packet.price.sources[i].price < (CapUsd + 1) * PriceUnit

(* Every observation behind a packet that verifies was fresh when the       *)
(* packet was generated.  The verifier only bounds the two halves of its    *)
(* age, before the file was written and after.                              *)
PriceWasFresh ==
    Verifies =>
        \A i \in 1..2 :
            file.packet.generated - file.packet.price.sources[i].at <= MaxPriceAge

(* A preflight compares the live contracts with block-snapshot.json as it   *)
(* is by then, and never asks whose snapshot that is.  While the files also *)
(* verify, what passed is nevertheless the code the packet ran on.          *)
PreflightSawRehearsal ==
    /\ checking.pc = "passed"
    /\ Verifies
    /\ file.packet = checking.packet
    => checking.code = file.packet.ranOn
=============================================================================
