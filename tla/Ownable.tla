------------------------------ MODULE Ownable ------------------------------
(***************************************************************************)
(* OpenZeppelin's Ownable2Step, the owner of every administered contract:  *)
(* the owner nominates, the nominee accepts, and ownership may be given up *)
(* for good.                                                               *)
(***************************************************************************)
CONSTANTS
    Callers,       \* accounts that call the contract
    Nobody         \* address(0)

ASSUME OwnableAssumption == Nobody \notin Callers

VARIABLES
    owner,
    pendingOwner

ownVars == <<owner, pendingOwner>>

OwnTypeOK ==
    /\ owner \in Callers \cup {Nobody}
    /\ pendingOwner \in Callers \cup {Nobody}

(* Ownable(initialOwner) *)
OwnInit(initialOwner) ==
    /\ owner = initialOwner
    /\ pendingOwner = Nobody

(* onlyOwner *)
OnlyOwner(caller) == caller = owner

(* transferOwnership: a nomination, or its withdrawal (Nobody)             *)
TransferOwnership(caller, newOwner) ==
    /\ OnlyOwner(caller)
    /\ pendingOwner' = newOwner
    /\ UNCHANGED owner

(* acceptOwnership *)
AcceptOwnership(caller) ==
    /\ caller = pendingOwner
    /\ owner' = caller
    /\ pendingOwner' = Nobody

(* renounceOwnership *)
RenounceOwnership(caller) ==
    /\ OnlyOwner(caller)
    /\ owner' = Nobody
    /\ pendingOwner' = Nobody
=============================================================================
