--------------------------- MODULE MCSessionManager ---------------------------
(* Instances of SessionManager for TLC. *)
EXTENDS SessionManager, TLC

\* Sessions are interchangeable, and so are requests.
SessionSymmetry == Permutations(Sessions) \cup Permutations(Callers)
=============================================================================
