--------------------------- MODULE MCTradeRouter ---------------------------
(* A small instance of TradeRouter for TLC. *)
EXTENDS TradeRouter, TLC

CONSTANTS safe, alice

(* One trader with WETH and BPS, not enough for two of the larger trades   *)
(* the same way, and a pool with both.                                     *)
PoolAndTrader ==
    [t \in Tokens |-> [a \in Addresses |->
        CASE a = alice -> 199
          [] a = venue -> 220
          [] OTHER -> 0]]
=============================================================================
