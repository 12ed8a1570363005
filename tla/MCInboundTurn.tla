---------------------------- MODULE MCInboundTurn ----------------------------
(* Instances of InboundTurn for TLC. *)
EXTENDS InboundTurn, TLC

\* Events are interchangeable, and so are messages.
Interchangeable == Permutations(Deliveries) \cup Permutations(Msgs)
=============================================================================
