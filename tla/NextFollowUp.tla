---------------------------- MODULE NextFollowUp ----------------------------
(***************************************************************************)
(* Conversation.nextFollowUpAt: the earliest due time among the pending    *)
(* tasks of one conversation, stored beside them so that the inbox can     *)
(* sort on it.  Requests change tasks; most of them then read the earliest *)
(* pending due time and, one await later, store it.  The owner's WhatsApp  *)
(* command and an extracted promise that move a task do not.               *)
(***************************************************************************)
EXTENDS Integers

CONSTANTS
    Tasks,      \* tasks of the conversation
    Requests,   \* requests in progress at a time
    Dues,       \* due times, as numbers
    Edits       \* bound on the changes of tasks

HintAssumption == Dues \subseteq Nat \ {0} /\ Dues # {} /\ Edits \in Nat

VARIABLES
    due,        \* due time of each pending task; None of any other
    known,      \* tasks that exist
    hint,       \* nextFollowUpAt
    request,    \* how far each request is
    stale,      \* history: no undisturbed sync since the last change
    edits

vars == <<due, known, hint, request, stale, edits>>

None == 0
Resting == [stage |-> "idle"]

Init ==
    /\ due = [t \in Tasks |-> None] /\ known = {}
    /\ hint = None
    /\ request = [q \in Requests |-> Resting]
    /\ stale = FALSE /\ edits = 0

\* Mutant: the latest of the pending due times.
LatestPending(d) ==
    LET pending == {d[t] : t \in Tasks} \ {None}
    IN  IF pending = {} THEN None ELSE CHOOSE x \in pending : \A y \in pending : x >= y

\* findEarliestPendingDueAt
EarliestPending(d) ==
    LET pending == {d[t] : t \in Tasks} \ {None}
    IN  IF pending = {} THEN None ELSE CHOOSE x \in pending : \A y \in pending : x <= y

\* The syncs of other requests no longer tell the whole truth.
Disturb(q) == [p \in Requests |-> IF p # q /\ request[p].stage = "write"
                                  THEN [request[p] EXCEPT !.alone = FALSE] ELSE request[p]]

Edit(q, d, stage) ==
    /\ request[q] = Resting /\ edits < Edits
    /\ edits' = edits + 1 /\ due' = d /\ stale' = TRUE
    /\ request' = [Disturb(q) EXCEPT ![q] = [stage |-> stage]]
    /\ UNCHANGED hint

\* createFollowUpForActor, an extracted promise, a call's outcome, an ad lead's chase
Create(q, t, x) ==
    /\ t \notin known /\ known' = known \cup {t}
    /\ Edit(q, [due EXCEPT ![t] = x], "read")

\* rescheduleFollowUpForActor and a call's outcome
Move(q, t, x) ==
    /\ t \in known /\ UNCHANGED known
    /\ Edit(q, [due EXCEPT ![t] = x], "read")

\* The owner's command, and a promise that supersedes a pending task.
MoveUnsynced(q, t, x) ==
    /\ due[t] # None /\ UNCHANGED known
    /\ Edit(q, [due EXCEPT ![t] = x], "idle")

\* Completed or cancelled, from the dashboard or by command.
Close(q, t) ==
    /\ due[t] # None /\ UNCHANGED known
    /\ Edit(q, [due EXCEPT ![t] = None], "read")

\* syncNextFollowUpAt reads...
Reads(q) ==
    /\ request[q].stage = "read"
    /\ request' = [request EXCEPT ![q] = [stage |-> "write", value |-> EarliestPending(due),
                                          alone |-> TRUE]]
    /\ UNCHANGED <<due, known, hint, stale, edits>>

\* ... and stores what it read.
Stores(q) ==
    /\ request[q].stage = "write"
    /\ hint' = request[q].value
    /\ stale' = ~request[q].alone
    /\ request' = [Disturb(q) EXCEPT ![q] = Resting]
    /\ UNCHANGED <<due, known, edits>>

\* A sync that fails is logged; the next change on the conversation repairs it.
FailsQuietly(q) ==
    /\ request[q] # Resting
    /\ stale' = TRUE
    /\ request' = [request EXCEPT ![q] = Resting]
    /\ UNCHANGED <<due, known, hint, edits>>

Changes(q, t) ==
    \/ Close(q, t)
    \/ \E x \in Dues : Create(q, t, x) \/ Move(q, t, x) \/ MoveUnsynced(q, t, x)
Next == \E q \in Requests :
    \/ Reads(q) \/ Stores(q) \/ FailsQuietly(q)
    \/ \E t \in Tasks : Changes(q, t)

Spec == Init /\ [][Next]_vars

-----------------------------------------------------------------------------
(* Properties. *)

\* Types of the tasks, the hint and the requests.
TypeOK ==
    /\ due \in [Tasks -> Dues \cup {None}] /\ known \subseteq Tasks
    /\ hint \in Dues \cup {None}
    /\ request \in [Requests ->
           [stage : {"idle", "read"}]
             \cup [stage : {"write"}, value : Dues \cup {None}, alone : BOOLEAN]]
    /\ stale \in BOOLEAN /\ edits \in 0 .. Edits

\* "It self-heals": a sync that nothing disturbed leaves the hint equal to the
\* earliest pending due time, whatever races and failures came before it.
SelfHeals ==
    LET pending == {t \in Tasks : due[t] # None}
    IN  ~stale => IF pending = {} THEN hint = None
                  ELSE /\ \E t \in pending : due[t] = hint
                       /\ \A t \in pending : hint <= due[t]
=============================================================================
