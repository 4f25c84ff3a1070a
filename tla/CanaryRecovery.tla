--------------------------- MODULE CanaryRecovery ---------------------------
(***************************************************************************)
(* The tools of the canary's recovery: the capture that finds the deployer's *)
(* completed transactions on the chain again (recovery-capture.mjs), the    *)
(* generator of the packet for the steps that remain                        *)
(* (recovery-generate.mjs, recovery-canonical.mjs) and the page's binding   *)
(* of it (recovery-core.mjs).                                               *)
(*                                                                          *)
(* The capture knows two transactions by their hash and finds the others by *)
(* nonce: a binary search over the blocks, one remote read a probe, between *)
(* the block of the previous one and a head it read first of all.  The      *)
(* chain grows meanwhile, and may put its last transactions into other      *)
(* blocks.  Here block 1 ends with the two known transactions, Completed is *)
(* how many follow, and the length of the chain is also its time.           *)
(***************************************************************************)
EXTENDS CanaryPacket, FiniteSets

CONSTANTS
    Completed,        \* the deployer's transactions to be found, by nonce 1..Completed
    AnchorCost,       \* what each of them paid for gas
    ReviewedCosts,    \* the possible reviewed costs of the two steps that remain
    PaidPrincipal,    \* the principal still at risk, in wei
    MaxHeight, MaxShuffles, MaxRecoveryCaptures, MaxRecoveryGenerations  \* bounds

ASSUME RecoveryAssumption ==
    /\ {Completed, MaxHeight} \subseteq Nat \ {0}
    /\ {AnchorCost, PaidPrincipal} \cup ReviewedCosts \subseteq Nat

VARIABLES
    ledger,     \* the chain: of each block its identity and the nonces in it
    shuffles,
    search,     \* recovery-capture.mjs, when it runs
    drafting,   \* recovery-generate.mjs, when it runs
    record,     \* the files of the recovery
    recoveriesLeft

recoveryVars == <<ledger, shuffles, search, drafting, record, recoveriesLeft>>

Nonces == 1..Completed
MinedIn(chain) == UNION {chain[h].nonces : h \in DOMAIN chain}
BlockOf(chain, n) == CHOOSE h \in DOMAIN chain : n \in chain[h].nonces

(* eth_getTransactionCount at a block: the transactions up to its end.      *)
CountAt(chain, h) == Cardinality(MinedIn(SubSeq(chain, 1, h)))

(* Nonces are mined in their order.                                         *)
InOrder(chain) ==
    \A h \in DOMAIN chain :
        \A n \in chain[h].nonces : 1..(n - 1) \subseteq MinedIn(SubSeq(chain, 1, h))

-----------------------------------------------------------------------------
(* The chain.                                                               *)

Extend(nonces) ==
    /\ Len(ledger) < MaxHeight
    /\ ledger' = Append(ledger, [id |-> <<Len(ledger) + 1, shuffles>>, nonces |-> nonces])
    /\ InOrder(ledger')
    /\ UNCHANGED <<shuffles, search, drafting, record, recoveriesLeft>>

(* The blocks from h on are replaced, and hold the same transactions        *)
(* elsewhere among them.                                                    *)
Shuffle(h) ==
    /\ shuffles < MaxShuffles
    /\ shuffles' = shuffles + 1
    /\ \E place \in [h..Len(ledger) -> SUBSET MinedIn(SubSeq(ledger, h, Len(ledger)))] :
         /\ ledger' = [k \in DOMAIN ledger |->
               IF k < h THEN ledger[k]
               ELSE [id |-> <<k, shuffles + 1>>, nonces |-> place[k]]]
         /\ \A j, k \in h..Len(ledger) : j # k => place[j] \cap place[k] = {}
         /\ MinedIn(ledger') = MinedIn(ledger)
         /\ InOrder(ledger')
    /\ UNCHANGED <<search, drafting, record, recoveriesLeft>>

-----------------------------------------------------------------------------
(* recovery-capture.mjs.                                                    *)

RunRecovery(tool) ==
    /\ recoveriesLeft[tool] > 0
    /\ recoveriesLeft' = [recoveriesLeft EXCEPT ![tool] = @ - 1]

ReadHead ==
    /\ search.pc \in {"off", "failed", "done"}
    /\ RunRecovery("capture")
    /\ search' = [pc |-> "nonces", head |-> Len(ledger), seen |-> ledger]
    /\ UNCHANGED <<ledger, shuffles, drafting, record>>

(* A search begins between the block of the previous transaction and the    *)
(* head of the start.                                                       *)
From(lo, nonce, anchors) ==
    [pc |-> "probe", head |-> search.head, seen |-> search.seen,
     nonce |-> nonce, lo |-> lo, hi |-> search.head, anchors |-> anchors]

Fails == [pc |-> "failed", head |-> search.head, seen |-> search.seen]

(* All transactions are mined at the latest block.  That they are not is    *)
(* reported at the end, and the searches are made all the same: they do not *)
(* find what is not there.                                                  *)
ReadNonces ==
    /\ search.pc = "nonces"
    /\ search' = IF MinedIn(ledger) = Nonces THEN From(2, 1, << >>) ELSE Fails
    /\ UNCHANGED <<ledger, shuffles, drafting, record, recoveriesLeft>>

(* Deliberate defect: a block counts the transactions before it.            *)
Transitioned_DefectBefore(h, nonce) == CountAt(ledger, h) > nonce

(* The count at the block's end includes this nonce.                        *)
Transitioned(h, nonce) == CountAt(ledger, h) >= nonce

Probe ==
    /\ search.pc = "probe"
    /\ search.lo < search.hi
    /\ LET mid == (search.lo + search.hi) \div 2 IN
         search' = IF Transitioned(mid, search.nonce)
                   THEN [search EXCEPT !.hi = mid]
                   ELSE [search EXCEPT !.lo = mid + 1]
    /\ UNCHANGED <<ledger, shuffles, drafting, record, recoveriesLeft>>

FindTransaction ==
    /\ search.pc = "probe"
    /\ search.lo >= search.hi
    /\ search' = IF search.lo \in DOMAIN ledger /\ search.nonce \in ledger[search.lo].nonces
                 THEN [search EXCEPT !.pc = "receipt"] ELSE Fails
    /\ UNCHANGED <<ledger, shuffles, drafting, record, recoveriesLeft>>

(* Where its receipt says it is; the next one is there or after it.         *)
ReadReceipt ==
    /\ search.pc = "receipt"
    /\ LET h == BlockOf(ledger, search.nonce)
           anchors == Append(search.anchors, [block |-> h, id |-> ledger[h].id])
       IN search' = IF search.nonce = Completed
                    THEN [search EXCEPT !.pc = "found", !.anchors = anchors]
                    ELSE From(h, search.nonce + 1, anchors)
    /\ UNCHANGED <<ledger, shuffles, drafting, record, recoveriesLeft>>

(* The block the snapshot names is asked for after the searches.            *)
ReadPinned ==
    /\ search.pc = "found"
    /\ LET pinned == search.head - Confirmations IN
         /\ pinned >= 1
         /\ search' = [pc |-> "pinned", head |-> search.head, seen |-> search.seen,
                       anchors |-> search.anchors,
                       pinned |-> [number |-> pinned, id |-> ledger[pinned].id]]
    /\ UNCHANGED <<ledger, shuffles, drafting, record, recoveriesLeft>>

(* Two files, one after the other; a run that is stopped between them       *)
(* leaves the second of an earlier one.                                     *)
WriteAnchors ==
    /\ search.pc = "pinned"
    /\ record' = [record EXCEPT !.anchors = search.anchors]
    /\ search' = [search EXCEPT !.pc = "anchored"]
    /\ UNCHANGED <<ledger, shuffles, drafting, recoveriesLeft>>

WriteSnapshot ==
    /\ search.pc = "anchored"
    /\ record' = [record EXCEPT !.snapshot = search.pinned]
    /\ search' = [search EXCEPT !.pc = "done"]
    /\ UNCHANGED <<ledger, shuffles, drafting, recoveriesLeft>>

StopCapture ==
    /\ search.pc \notin {"off", "failed", "done"}
    /\ search' = Off
    /\ UNCHANGED <<ledger, shuffles, drafting, record, recoveriesLeft>>

-----------------------------------------------------------------------------
(* recovery-generate.mjs: two steps remain, each with its reviewed cost and *)
(* a ceiling five quarters of it.                                           *)

Ceiling(cost) == (cost * 5) \div 4
Realized(anchors) == Len(anchors) * AnchorCost

(* Deliberate defect: what remains is summed at the reviewed costs.         *)
RemainingMaxGas_DefectReviewed(costs) == costs[1] + costs[2]

RemainingMaxGas(costs) == ((costs[1] + costs[2]) * 5) \div 4

RecoveryAggregate(anchors, costs) ==
    Realized(anchors) + PaidPrincipal + RemainingMaxGas(costs)

(* recovery-canonical.mjs: the packet's block is the snapshot's, its gas is *)
(* that of its anchors, every ceiling is five quarters exactly, and the     *)
(* parts of the exposure add up.                                            *)
RecoveryReconstructs(packet, snapshot) ==
    /\ snapshot.number = packet.number
    /\ snapshot.id = packet.id
    /\ packet.realized = Realized(packet.anchors)
    /\ \A i \in 1..2 : packet.ceilings[i] * 4 = packet.costs[i] * 5
    /\ packet.aggregate = RecoveryAggregate(packet.anchors, packet.costs)

RecoveryObject(packet, snapshot) ==
    [number |-> snapshot.number, id |-> snapshot.id, anchors |-> packet.anchors,
     costs |-> packet.costs, ceilings |-> packet.ceilings,
     realized |-> packet.realized, aggregate |-> packet.aggregate, price |-> packet.price]

Draft(costs, price) ==
    /\ drafting = Off
    /\ RunRecovery("generate")
    /\ record.anchors # None
    /\ record.snapshot # None
    /\ UsdOf(RecoveryAggregate(record.anchors, costs), price) <= CapUsd
    /\ LET packet == [number |-> record.snapshot.number, id |-> record.snapshot.id,
                      anchors |-> record.anchors, price |-> price, costs |-> costs,
                      ceilings |-> <<Ceiling(costs[1]), Ceiling(costs[2])>>,
                      realized |-> Realized(record.anchors),
                      aggregate |-> RecoveryAggregate(record.anchors, costs),
                      anchor |-> None]
       IN /\ RecoveryReconstructs(packet, record.snapshot)
          /\ drafting' = [pc |-> "policy", packet |-> packet,
                          object |-> RecoveryObject(packet, record.snapshot)]
    /\ UNCHANGED <<ledger, shuffles, search, record>>

DraftWrites(pc, key, value, next) ==
    /\ drafting.pc = pc
    /\ record' = [record EXCEPT ![key] = value]
    /\ drafting' = IF next = "off" THEN Off ELSE [drafting EXCEPT !.pc = next]
    /\ UNCHANGED <<ledger, shuffles, search, recoveriesLeft>>

WriteRecoveryPolicy == DraftWrites("policy", "policy", drafting.object, "packaged")
WriteAuthorization == DraftWrites("packaged", "packaged", drafting.object, "packet")
WriteRecoveryPacket ==
    DraftWrites("packet", "packet", [drafting.packet EXCEPT !.anchor = drafting.object], "off")

StopDraft ==
    /\ drafting # Off
    /\ drafting' = Off
    /\ UNCHANGED <<ledger, shuffles, search, record, recoveriesLeft>>

-----------------------------------------------------------------------------
(* recovery-core.mjs: the files are reconstructed, and the four digests are *)
(* one.                                                                     *)
RecoveryBinds ==
    /\ \A key \in DOMAIN record : record[key] # None
    /\ RecoveryReconstructs(record.packet, record.snapshot)
    /\ LET object == RecoveryObject(record.packet, record.snapshot) IN
         /\ record.packaged = object
         /\ record.policy = object
         /\ record.packet.anchor = object

-----------------------------------------------------------------------------
RecoveryInit ==
    /\ \E nonces \in [2..(Confirmations + 2) -> SUBSET Nonces] :
         /\ ledger = [h \in 1..(Confirmations + 2) |->
               [id |-> <<h, 0>>, nonces |-> IF h = 1 THEN {} ELSE nonces[h]]]
         /\ \A h, k \in DOMAIN nonces : h # k => nonces[h] \cap nonces[k] = {}
         /\ InOrder(ledger)
    /\ shuffles = 0
    /\ search = Off /\ drafting = Off
    /\ record = [anchors |-> None, snapshot |-> None, policy |-> None,
                 packaged |-> None, packet |-> None]
    /\ recoveriesLeft = [capture |-> MaxRecoveryCaptures, generate |-> MaxRecoveryGenerations]

RecoveryNext ==
    \/ \E nonces \in SUBSET (Nonces \ MinedIn(ledger)) : Extend(nonces)
    \/ \E h \in DOMAIN ledger \ {1} : Shuffle(h)
    \/ ReadHead
    \/ ReadNonces
    \/ Probe
    \/ FindTransaction
    \/ ReadReceipt
    \/ ReadPinned
    \/ WriteAnchors
    \/ WriteSnapshot
    \/ StopCapture
    \/ \E costs \in [1..2 -> ReviewedCosts], price \in Quotes : Draft(costs, price)
    \/ WriteRecoveryPolicy
    \/ WriteAuthorization
    \/ WriteRecoveryPacket
    \/ StopDraft

RecoverySpec == RecoveryInit /\ [][RecoveryNext]_recoveryVars

-----------------------------------------------------------------------------
(* Properties.                                                              *)

(* A binary search of which every probe reads another state of the chain:   *)
(* it fails only when a transaction was not mined at its start or the       *)
(* blocks below the head of its start have changed, never because the chain *)
(* grew; and while they have not changed, what it found is where the        *)
(* transactions are.                                                        *)
CaptureIsExact ==
    LET same == SubSeq(ledger, 1, search.head) = search.seen IN
    /\ search.pc = "failed" => ~same \/ MinedIn(search.seen) # Nonces
    /\ search.pc \in {"pinned", "anchored", "done"} /\ same =>
           search.anchors = [n \in Nonces |->
               LET h == BlockOf(search.seen, n) IN [block |-> h, id |-> search.seen[h].id]]

(* The page lets every step that remains cost its own ceiling.  Their sum,  *)
(* what was spent and the principal are under the cap at the bound price,   *)
(* although the generator never adds the ceilings up.                       *)
CeilingsWithinCap ==
    RecoveryBinds =>
        LET p == record.packaged IN
        (p.realized + PaidPrincipal + p.ceilings[1] + p.ceilings[2]) * p.price
            < (CapUsd + 1) * PriceUnit
=============================================================================
