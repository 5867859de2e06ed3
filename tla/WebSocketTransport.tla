--------------------------- MODULE WebSocketTransport ---------------------------
(***************************************************************************)
(* What the two WebSocket protocol classes have in common: the client they *)
(* serve and the transport they are given.                                 *)
(***************************************************************************)
EXTENDS Naturals, Sequences

CONSTANT MaxMessages    \* bound: messages the client sends

ASSUME MaxMessagesAssumption == MaxMessages \in Nat

\* The state of the transport after close().
Closing(c) == IF c = "open" THEN "closing" ELSE c
=============================================================================
