-------------------------- MODULE CommitmentRetry --------------------------
(***************************************************************************)
(* Reading a lead's message again when the classifier did not answer: one  *)
(* row for each message, claimed under a lease with a fresh token, and     *)
(* deleted, given up or handed back only by whoever still has the token.   *)
(*                                                                         *)
(* The token of a claim is the count of claims the row has had.  Due times *)
(* and leases are "not yet" or "past": ready and lease.                    *)
(***************************************************************************)
EXTENDS Integers

CONSTANTS
    Messages,      \* messages whose reading failed
    Retriers,      \* processes draining the queue
    Nobody,        \* no worker
    MaxReadings,   \* MAX_COMMITMENT_RETRY_ATTEMPTS
    MaxMishaps     \* bound on crashes, failed writes and stalled workers

RetryAssumption ==
    MaxReadings \in Nat \ {0} /\ MaxMishaps \in Nat /\ Nobody \notin Retriers

VARIABLES
    row,       \* commitment_retries
    retrier,   \* what each worker is doing
    readings,  \* history: how often the classifier was asked again
    mishaps

vars == <<row, retrier, readings, mishaps>>

Resting == [stage |-> "idle"]
NoRow == [status |-> "none", ready |-> FALSE, lease |-> "none", token |-> 0, attempts |-> 0]

Init ==
    /\ row = [m \in Messages |-> NoRow]
    /\ retrier = [w \in Retriers |-> Resting]
    /\ readings = [m \in Messages |-> 0]
    /\ mishaps = 0

At(w, s) == retrier' = [retrier EXCEPT ![w] = s]
Mishap == mishaps < MaxMishaps /\ mishaps' = mishaps + 1

\* enqueueCommitmentRetry: the upsert inserts, or changes nothing.
Enqueue(m) ==
    /\ row[m].status = "none"
    /\ row' = [row EXCEPT ![m].status = "pending"]
    /\ UNCHANGED <<retrier, readings, mishaps>>

BackoffEnds(m) ==
    /\ row[m].status = "pending" /\ ~row[m].ready
    /\ row' = [row EXCEPT ![m].ready = TRUE]
    /\ UNCHANGED <<retrier, readings, mishaps>>

ToBeRead(r) == r.status \in {"pending", "claimed"} /\ r.ready /\ r.lease # "held"

OutOfReadings(attempts) == attempts > MaxReadings

\* claimCommitmentRetry
Claim(w, m) ==
    /\ retrier[w] = Resting /\ ToBeRead(row[m])
    /\ LET n == row[m].attempts + 1
       IN  /\ row' = [row EXCEPT ![m] = [@ EXCEPT !.status = "claimed", !.lease = "held",
                                                  !.token = n, !.attempts = n]]
           /\ At(w, [stage |-> IF OutOfReadings(n) THEN "abandon" ELSE "read",
                     msg |-> m, token |-> n])
    /\ UNCHANGED <<readings, mishaps>>

\* extractLeadCommitment, without its own enqueue: settled, still no answer, or
\* an error that asking again will not cure.
Reads(w) ==
    /\ retrier[w].stage = "read"
    /\ readings' = [readings EXCEPT ![retrier[w].msg] = @ + 1]
    /\ \E next \in {"delete", "release", "abandon"} :
           At(w, [retrier[w] EXCEPT !.stage = next])
    /\ UNCHANGED <<row, mishaps>>

\* Mutant: the writes go by the message alone.
OwnedByAnyone(w) == row[retrier[w].msg].status # "none"

Owned(w) == row[retrier[w].msg].token = retrier[w].token

\* deleteCommitmentRetry, abandonCommitmentRetry, rescheduleCommitmentRetry
After(r, stage) ==
    CASE stage = "delete" -> [r EXCEPT !.status = "deleted", !.token = 0, !.lease = "none"]
      [] stage = "abandon" -> [r EXCEPT !.status = "failed_permanent", !.token = 0, !.lease = "none"]
      [] stage = "release" -> [r EXCEPT !.status = "pending", !.token = 0, !.lease = "none",
                                        !.ready = FALSE]

Writes(w) ==
    /\ retrier[w].stage \in {"delete", "abandon", "release"}
    /\ LET m == retrier[w].msg
       IN  row' = IF Owned(w) THEN [row EXCEPT ![m] = After(@, retrier[w].stage)] ELSE row
    /\ At(w, Resting)
    /\ UNCHANGED <<readings, mishaps>>

\* A delete that throws is treated as a failed reading.
DeleteFails(w) ==
    /\ retrier[w].stage = "delete" /\ Mishap
    /\ \E next \in {"release", "abandon"} : At(w, [retrier[w] EXCEPT !.stage = next])
    /\ UNCHANGED <<row, readings>>

\* A crash, or another write that throws and ends the sweep.
Stops(w) ==
    /\ retrier[w] # Resting /\ Mishap
    /\ At(w, Resting)
    /\ UNCHANGED <<row, readings>>

Holds(w, m) == retrier[w] # Resting /\ retrier[w].msg = m /\ retrier[w].token = row[m].token

\* The lease ages past its end: behind a crash, or under a slow worker.
LeaseExpires(m) ==
    /\ row[m].lease = "held"
    /\ row' = [row EXCEPT ![m].lease = "expired"]
    /\ IF \E w \in Retriers : Holds(w, m) THEN Mishap ELSE UNCHANGED mishaps
    /\ UNCHANGED <<retrier, readings>>

Drains(w) == (\E m \in Messages : Claim(w, m)) \/ Reads(w) \/ Writes(w)
Next ==
    \/ \E m \in Messages : Enqueue(m) \/ BackoffEnds(m) \/ LeaseExpires(m)
    \/ \E w \in Retriers : Drains(w) \/ DeleteFails(w) \/ Stops(w)

Spec == Init /\ [][Next]_vars

\* The reminder runner drains the queue each tick; time passes.
FairSpec ==
    /\ Spec
    /\ \A w \in Retriers : WF_vars(Drains(w))
    /\ \A m \in Messages : WF_vars(BackoffEnds(m)) /\ WF_vars(LeaseExpires(m))

-----------------------------------------------------------------------------
(* Properties. *)

\* Types of the rows and the workers.
TypeOK ==
    /\ row \in [Messages ->
         [status : {"none", "pending", "claimed", "deleted", "failed_permanent"},
          ready : BOOLEAN, lease : {"none", "held", "expired"},
          token : 0 .. MaxReadings + 1 + MaxMishaps, attempts : 0 .. MaxReadings + 1 + MaxMishaps]]
    /\ retrier \in [Retriers ->
         {Resting} \cup [stage : {"read", "delete", "abandon", "release"}, msg : Messages,
                         token : 1 .. MaxReadings + 1 + MaxMishaps]]
    /\ readings \in [Messages -> Nat] /\ mishaps \in 0 .. MaxMishaps

\* A worker whose row was claimed by another cannot end it or hand it back: the
\* queue implements the contract of leased jobs.
Holder(m) ==
    IF row[m].status = "claimed" /\ \E w \in Retriers : Holds(w, m)
    THEN CHOOSE w \in Retriers : Holds(w, m) ELSE Nobody
Ended == {m \in Messages : row[m].status \in {"deleted", "failed_permanent"}}
Jobs == INSTANCE LeasedJob WITH Jobs <- Messages, Workers <- Retriers,
                                ended <- Ended, holder <- [m \in Messages |-> Holder(m)]
OnlyTheHolderEnds == Jobs!Spec

\* A queued message, to be settled or given up.
Unsettled(m) == row[m].status \in {"pending", "claimed"}
=============================================================================
