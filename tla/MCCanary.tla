------------------------------ MODULE MCCanary ------------------------------
(***************************************************************************)
(* A small instance of the canary for TLC.  The tools that prepare a packet *)
(* and those of the recovery hand the operator's page their files and share *)
(* nothing else with it, so that the three are explored alone (`part').     *)
(***************************************************************************)
EXTENDS CanaryOperator, CanaryRecovery, TLC

VARIABLE part

canaryVars == <<part, opVars, packetVars, recoveryVars>>
symmetry == Permutations(Code)

CanaryInit ==
    /\ part \in {"operator", "packet", "recovery"}
    /\ OpInit
    /\ PacketInit
    /\ RecoveryInit
    /\ part # "recovery" => MinedIn(ledger) = {}

CanaryNext ==
    /\ \/ part = "operator" /\ OpNext /\ UNCHANGED <<packetVars, recoveryVars>>
       \/ part = "packet" /\ PacketNext /\ UNCHANGED <<opVars, recoveryVars>>
       \/ part = "recovery" /\ RecoveryNext /\ UNCHANGED <<opVars, packetVars>>
    /\ UNCHANGED part

CanarySpec == CanaryInit /\ [][CanaryNext]_canaryVars
=============================================================================
