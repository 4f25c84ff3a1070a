------------------------- MODULE MCProofOfDistribution -------------------------
(***************************************************************************)
(* Small instances, for TLC, of the two computations a distribution rests  *)
(* on: the Proof of Distribution pipeline over cycle fixtures (an epoch of *)
(* three seconds, from 3 to 6, and two lock tiers, of two and of four      *)
(* seconds), and the indexer's lock snapshot.  They share no state, so     *)
(* that each is explored alone (`part').                                   *)
(***************************************************************************)
EXTENDS ProofOfDistribution, LockSnapshot

VARIABLE part

MCTiers ==
    [short |-> [multiplierBps |-> 11000, durationSeconds |-> 2],
     long  |-> [multiplierBps |-> 17500, durationSeconds |-> 4]]

Cycle ==
    [epochId |-> 1, epochStart |-> 3, epochEnd |-> 6,
     startBlock |-> 1, snapshotBlock |-> 2, endBlock |-> 3,
     finalizedBlock |-> 3, claimStart |-> 7, claimDeadline |-> 9]

Row(w) == [wallet |-> w, eligible |-> TRUE, revoked |-> FALSE,
           currentPolicy |-> TRUE, validFrom |-> 0, expiry |-> None]

Asset(token, n) == [token |-> token, acquired |-> n]

Fixture(start, transfers, positions) ==
    [cycle |-> Cycle, startBalances |-> start, transfers |-> transfers,
     locks |-> positions, excluded |-> {}, eligibility |-> <<Row("alice"), Row("bob")>>,
     assets |-> <<Asset("NVDA", 13)>>]

Move(id, pos, t, sender, to, n) ==
    [id |-> id, pos |-> pos, timestamp |-> t, from |-> sender, to |-> to,
     amount |-> n]

Lock(w, tier, start, withdrawal) ==
    [wallet |-> w, tier |-> tier, start |-> start, withdrawal |-> withdrawal,
     unlock |-> start + MCTiers[tier].durationSeconds, principal |-> 11]

----------------------------------------------------------------------------
(* The weights: no log, one or two, of two identities and two positions,   *)
(* before, at and after each boundary of the epoch and of a lock           *)

Ends == {<<"alice", "bob">>, <<"bob", "alice">>, <<"bob", Zero>>, <<Zero, "alice">>,
         <<"alice", "alice">>}

Logs == {Move(id, pos, t, e[1], e[2], 5) :
            id \in 1..2, pos \in 1..2, t \in 3..6, e \in Ends}

OneLock == {{Lock("alice", tier, start, w)} :
               tier \in {"short", "long"}, start \in {0, 2, 4},
               w \in {None, 3, 5}}

TwoLocks == {Lock("alice", "short", 2, None), Lock("alice", "long", 4, 5)}

WeightFixtures ==
    {Fixture([alice |-> 14, bob |-> 8], ls, ps) :
        ls \in {<< >>} \cup {<<l>> : l \in Logs},
        ps \in {{}, TwoLocks} \cup {l \in OneLock : \A x \in l : LockOk(x)}}
    \cup {Fixture([alice |-> 14, bob |-> 8], ls, ps) :
             ls \in Logs \X Logs,
             ps \in {{}, TwoLocks, {Lock("alice", "long", 2, 5)}}}
    \cup {Fixture([alice |-> 24, bob |-> 8], << >>, {l, k}) :
             l, k \in UNION OneLock}
    \cup {Fixture([alice |-> 14, bob |-> 8], <<Move(1, 1, t, Zero, "bob", 5)>>,
                  {}) : t \in {2, 7}}

----------------------------------------------------------------------------
(* The shares: who is eligible and what there is to share *)

Rows(w) ==
    {[Row(w) EXCEPT !.eligible = e, !.revoked = r, !.currentPolicy = p] :
        e, r, p \in BOOLEAN}
    \cup {[Row(w) EXCEPT !.validFrom = f, !.expiry = x] :
             f \in {6, 7}, x \in {None, 6, 7}}

ShareFixtures ==
    {[Fixture([alice |-> 14, bob |-> b], << >>, ps) EXCEPT
         !.eligibility = rows, !.excluded = out, !.assets = assets] :
        b \in {0, 8}, ps \in {{}, {Lock("alice", "long", 2, None)}},
        rows \in (Rows("alice") \X Rows("bob"))
                  \cup {<< >>, <<Row("bob")>>, <<Row("bob"), Row("bob")>>},
        out \in {{}, {"alice"}},
        assets \in {<<Asset("NVDA", n), Asset("AAPL", 2 * n)>> : n \in 0..6}
                    \cup {<<Asset("NVDA", 13), Asset("NVDA", 1)>>}}
    \cup {[Fixture([alice |-> 14, bob |-> 8], << >>, {}) EXCEPT !.cycle = c] :
             c \in {[Cycle EXCEPT !.epochId = 2], [Cycle EXCEPT !.epochEnd = 7],
                    [Cycle EXCEPT !.finalizedBlock = 2],
                    [Cycle EXCEPT !.claimDeadline = 6]}}

CycleFixtures == WeightFixtures \cup ShareFixtures

----------------------------------------------------------------------------
(* The part that is not explored has one initial state. *)

PodStill == fixture = CHOOSE f \in Fixtures : TRUE

SnapStill ==
    /\ fork = Pin /\ deployed = 1
    /\ locks = [b \in Branches |-> [a \in Accounts |->
                   [created |-> Never, withdrawn |-> Never]]]
    /\ branch = [e \in Endpoints |-> Requested]
    /\ head = [e \in Endpoints |-> Pin]
    /\ from = 0 /\ oneClient = TRUE

DistributionInit ==
    \/ part = "pipeline" /\ SnapStill /\ SnapInit /\ PodInit
    \/ part = "snapshot" /\ PodStill /\ PodInit /\ SnapInit

DistributionNext ==
    /\ \/ part = "pipeline" /\ PodNext /\ UNCHANGED snapVars
       \/ part = "snapshot" /\ SnapNext /\ UNCHANGED podVars
    /\ UNCHANGED part

DistributionSpec ==
    DistributionInit /\ [][DistributionNext]_<<part, podVars, snapVars>>
=============================================================================
