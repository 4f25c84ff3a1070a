--------------------------- MODULE MCLockingVault ---------------------------
(* Small instances of LockingVault for TLC. *)
EXTENDS LockingVault, TLC

CONSTANTS safe, holder

=============================================================================
