------------------------- MODULE DistributionPromise -------------------------
(***************************************************************************)
(* What the coordinator promises about the participants' part of an        *)
(* acquisition: it is set aside when the acquisition is recorded, bound as *)
(* a whole to one claim cycle that no other acquisition has, and from then *)
(* on leaves only to that cycle's claimants or, once and for good, to      *)
(* recovery.  "No state permits tokens to be withdrawn or redirected."     *)
(***************************************************************************)
EXTENDS Integers

CONSTANTS
    Ids,         \* acquisition ids, handed out in order
    CycleIds,
    Unbound      \* the binding of an acquisition that has no cycle yet

VARIABLES
    stage,       \* stage[id]
    pot,         \* pot[id]: stock set aside and not paid out yet
    binding,     \* binding[id]: the cycle the pot belongs to
    closed       \* closed[id]: the rest of the pot was recovered

promiseVars == <<stage, pot, binding, closed>>

PromiseInit ==
    /\ stage = [id \in Ids |-> "NONE"]
    /\ pot = [id \in Ids |-> 0]
    /\ binding = [id \in Ids |-> Unbound]
    /\ closed = [id \in Ids |-> FALSE]

(* the next id in order gets a pot *)
Record(id) ==
    /\ stage[id] = "NONE"
    /\ \A lower \in Ids : lower < id => stage[lower] # "NONE"
    /\ stage' = [stage EXCEPT ![id] = "RECORDED"]
    /\ pot'[id] \in Nat
    /\ pot' = [pot EXCEPT ![id] = pot'[id]]
    /\ UNCHANGED <<binding, closed>>

(* the whole pot moves into a cycle of its own *)
Bind(id, c) ==
    /\ stage[id] = "RECORDED"
    /\ pot[id] > 0
    /\ \A other \in Ids : binding[other] # c
    /\ stage' = [stage EXCEPT ![id] = "FUNDED"]
    /\ binding' = [binding EXCEPT ![id] = c]
    /\ UNCHANGED <<pot, closed>>

(* a claimant is paid out of the pot *)
PayOut(id, n) ==
    /\ stage[id] = "FUNDED"
    /\ ~closed[id]
    /\ n \in 1 .. pot[id]
    /\ pot' = [pot EXCEPT ![id] = @ - n]
    /\ UNCHANGED <<stage, binding, closed>>

(* the rest is recovered, once *)
Close(id) ==
    /\ stage[id] = "FUNDED"
    /\ ~closed[id]
    /\ pot' = [pot EXCEPT ![id] = 0]
    /\ closed' = [closed EXCEPT ![id] = TRUE]
    /\ UNCHANGED <<stage, binding>>

PromiseNext ==
    \E id \in Ids :
        \/ Record(id)
        \/ \E c \in CycleIds : Bind(id, c)
        \/ \E n \in 1 .. pot[id] : PayOut(id, n)
        \/ Close(id)

PromiseSpec == PromiseInit /\ [][PromiseNext]_promiseVars
=============================================================================
