------------------------- MODULE MCOutboundDelivery -------------------------
(* Instances of OutboundDelivery for TLC: one conversation, so that every  *)
(* row and every event meet.                                               *)
EXTENDS OutboundDelivery, TLC

CONSTANT lead

OneConversation == {lead}
\* Runners are interchangeable: no definition singles one out.
RunnerSymmetry == Permutations(Runners)
AllInOne == [m \in Msgs |-> lead]
\* Bound: a row of the agent's or one of the staff's, whichever is accepted first.
OneRow == Cardinality(Created) <= 1
=============================================================================
