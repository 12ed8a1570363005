----------------------------- MODULE LeasedJob -----------------------------
(***************************************************************************)
(* What a queue of leased jobs promises, apart from tokens, clocks and     *)
(* attempts: only the worker that holds a job gives it back or ends it;    *)
(* a job may be taken from a holder, and an ended job stays ended.         *)
(***************************************************************************)
CONSTANTS Jobs, Workers, Nobody

VARIABLES ended, holder

Init == ended = {} /\ holder = [j \in Jobs |-> Nobody]

\* Free, or taken over from a holder whose lease ran out.
Take(w, j) ==
    /\ j \notin ended
    /\ holder' = [holder EXCEPT ![j] = w]
    /\ UNCHANGED ended

GiveBack(w, j) ==
    /\ holder[j] = w /\ j \notin ended
    /\ holder' = [holder EXCEPT ![j] = Nobody]
    /\ UNCHANGED ended

End(w, j) ==
    /\ holder[j] = w /\ j \notin ended
    /\ ended' = ended \cup {j}
    /\ holder' = [holder EXCEPT ![j] = Nobody]

\* Its worker is gone, or has lost it.
Forget(j) ==
    /\ holder' = [holder EXCEPT ![j] = Nobody]
    /\ UNCHANGED ended

Next == \E j \in Jobs : Forget(j) \/ \E w \in Workers : Take(w, j) \/ GiveBack(w, j) \/ End(w, j)

Spec == Init /\ [][Next]_<<ended, holder>>
=============================================================================
