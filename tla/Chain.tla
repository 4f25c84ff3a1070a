------------------------------- MODULE Chain -------------------------------
(***************************************************************************)
(* What every contract of the protocol shares with the chain it runs on:   *)
(* the block timestamp and the way an ERC-20 token moves an amount.        *)
(* A transaction is atomic: a call that reverts leaves no trace, so it is  *)
(* a step that is not taken, and every action of the modules that extend   *)
(* this one is one whole transaction.                                      *)
(***************************************************************************)
EXTENDS Integers

CONSTANTS
    StockTokens,   \* the tokenised stocks
    Fees,          \* what a misbehaving token may keep of a transfer; 0: exact
    MaxTime,       \* bound on the block timestamp
    MaxDonation    \* bound on the unsolicited balance a contract is sent

ASSUME ChainAssumption ==
    /\ MaxTime \in Nat
    /\ MaxDonation \in Nat
    /\ Fees \subseteq Nat
    /\ 0 \in Fees

VARIABLE
    now        \* block.timestamp

Times == 0 .. MaxTime

(* A transaction deadline matters only through whether it has passed: one  *)
(* that soon has and one that never will.                                  *)
Deadlines == {0, MaxTime}

(* Time passes between two transactions. *)
Tick == now < MaxTime /\ now' = now + 1

(* The outcomes of transferring `amount': what the sender is debited and   *)
(* what the receiver is credited.  An exact token moves the amount; a fee  *)
(* on transfer is taken from the receiver's side or added to the sender's. *)
Outcomes(amount) ==
    { [sent |-> amount, received |-> amount - f] :
          f \in {g \in Fees : g <= amount} }
    \cup { [sent |-> amount + f, received |-> amount] : f \in Fees }

(* Both sides of a transfer moved exactly the declared amount.             *)
ExactTransfer(out, amount) == out.sent = amount /\ out.received = amount
=============================================================================
