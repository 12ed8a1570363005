--------------------------- MODULE ReminderSweep ---------------------------
(***************************************************************************)
(* Telling the owner about a reminder that has fallen due: the sweep that  *)
(* claims it, pushes to the handset, sends on WhatsApp, records what came  *)
(* of it and retires it, while the owner (or a promise extracted from a    *)
(* lead's message) moves the reminder and closes it.                       *)
(*                                                                         *)
(* A step is what the code does between two awaits.  A claim's lease is    *)
(* short beside the distance of due times, so its age is "held" or         *)
(* "expired" rather than a number.  The bound of 25 reminders a tick and   *)
(* the set of those already handled in it only delay a reminder.           *)
(***************************************************************************)
EXTENDS Integers, FiniteSets

CONSTANTS
    Tasks,          \* follow-up tasks
    Workers,        \* processes running the sweep
    MaxDeliveries,  \* REMINDER_MAX_DELIVERY_ATTEMPTS
    LastTime,       \* bound on the clock
    MaxMoves,       \* bound on how often a reminder is moved
    MaxUpsets       \* bound on crashes, failed writes and stalled workers

SweepAssumption ==
    /\ MaxDeliveries \in Nat \ {0} /\ LastTime \in Nat
    /\ MaxMoves \in Nat /\ MaxUpsets \in Nat

VARIABLES
    time,
    todo,       \* the task documents
    sweeper,    \* what each worker is doing
    closing,    \* tasks read as pending by a request that will close them
    rung,       \* history: WhatsApp messages about the task at its present time
    disturbed,  \* history: tasks moved, or whose lease ran out, while a sweep held them
    upsets

vars == <<time, todo, sweeper, closing, rung, disturbed, upsets>>

DueTimes == 1 .. LastTime
Outcomes == {"pending", "sent", "skipped", "failed"}
Off == [stage |-> "idle"]
NoTask == [status |-> "none", due |-> 0, notified |-> FALSE, claim |-> "free",
           outcome |-> "pending", attempts |-> 0, pushed |-> FALSE, version |-> 0]

Init ==
    /\ time = 0
    /\ todo = [r \in Tasks |-> NoTask]
    /\ sweeper = [w \in Workers |-> Off]
    /\ closing = {} /\ disturbed = {}
    /\ rung = [r \in Tasks |-> 0]
    /\ upsets = 0

Held(r) == \E w \in Workers : sweeper[w] # Off /\ sweeper[w].task = r
Set(r, t) == todo' = [todo EXCEPT ![r] = t]
At(w, s) == sweeper' = [sweeper EXCEPT ![w] = s]
Upset == upsets < MaxUpsets /\ upsets' = upsets + 1

-----------------------------------------------------------------------------
(* The task list. *)

\* A reminder is set for a moment in the future.
Create(r, due) ==
    /\ todo[r].status = "none" /\ due > time
    /\ Set(r, [NoTask EXCEPT !.status = "pending", !.due = due, !.version = 1])
    /\ UNCHANGED <<time, sweeper, closing, rung, disturbed, upsets>>

\* rescheduleReminder, whatever the status.  The push stamp stays.
Move(r, due) ==
    /\ todo[r].status # "none" /\ due > time /\ todo[r].version <= MaxMoves
    /\ Set(r, [NoTask EXCEPT !.status = "pending", !.due = due,
                             !.pushed = todo[r].pushed, !.version = todo[r].version + 1])
    /\ rung' = [rung EXCEPT ![r] = 0]
    /\ disturbed' = IF Held(r) THEN disturbed \cup {r} ELSE disturbed
    /\ UNCHANGED <<time, sweeper, closing, upsets>>

\* transitionTask reads the task first and writes in a transaction later.
StartsClosing(r) ==
    /\ todo[r].status = "pending" /\ r \notin closing
    /\ closing' = closing \cup {r}
    /\ UNCHANGED <<time, todo, sweeper, rung, disturbed, upsets>>

Closes(r) ==
    /\ r \in closing
    /\ closing' = closing \ {r}
    /\ Set(r, [todo[r] EXCEPT !.status = "closed"])
    /\ UNCHANGED <<time, sweeper, rung, disturbed, upsets>>

-----------------------------------------------------------------------------
(* The sweep. *)

FreeToTake(t) ==
    t.status = "pending" /\ t.due <= time /\ ~t.notified /\ t.claim # "held"

\* claimDueReminder, the most overdue first
Claim(w, r) ==
    /\ sweeper[w] = Off /\ FreeToTake(todo[r])
    /\ \A q \in Tasks : FreeToTake(todo[q]) => todo[r].due <= todo[q].due
    /\ Set(r, [todo[r] EXCEPT !.claim = "held"])
    /\ At(w, [stage |-> "push", task |-> r, attempts |-> todo[r].attempts,
              pushed |-> todo[r].pushed, version |-> todo[r].version])
    /\ UNCHANGED <<time, closing, rung, disturbed, upsets>>

Goes(w, stage) == At(w, [sweeper[w] EXCEPT !.stage = stage])

\* notifyReminderDueQuietly: at least one handset took it, or none did.
Pushes(w) ==
    /\ sweeper[w].stage = "push"
    /\ \/ ~sweeper[w].pushed /\ Goes(w, "mark")
       \/ Goes(w, "whatsapp")
    /\ UNCHANGED <<time, todo, closing, rung, disturbed, upsets>>

\* markReminderPushed
MarksPushed(w) ==
    /\ sweeper[w].stage = "mark"
    /\ LET r == sweeper[w].task IN Set(r, [todo[r] EXCEPT !.pushed = TRUE])
    /\ Goes(w, "whatsapp")
    /\ UNCHANGED <<time, closing, rung, disturbed, upsets>>

Verdict(w, v) ==
    At(w, [stage |-> "record", task |-> sweeper[w].task,
           version |-> sweeper[w].version, verdict |-> v])

\* deliverWhatsApp: out of attempts; no account, session or owner number; the
\* send fails; or it succeeds.
GivesUp(w) ==
    /\ sweeper[w].stage = "whatsapp" /\ sweeper[w].attempts >= MaxDeliveries
    /\ Verdict(w, "failed")
    /\ UNCHANGED <<time, todo, closing, rung, disturbed, upsets>>

SendsNothing(w) ==
    /\ sweeper[w].stage = "whatsapp" /\ sweeper[w].attempts < MaxDeliveries
    /\ \E v \in {"skipped", "retry"} : Verdict(w, v)
    /\ UNCHANGED <<time, todo, closing, rung, disturbed, upsets>>

Sends(w) ==
    /\ sweeper[w].stage = "whatsapp" /\ sweeper[w].attempts < MaxDeliveries
    /\ Verdict(w, "sent")
    /\ LET r == sweeper[w].task
       IN  rung' = IF sweeper[w].version = todo[r].version
                   THEN [rung EXCEPT ![r] = @ + 1] ELSE rung
    /\ UNCHANGED <<time, todo, closing, disturbed, upsets>>

\* Mutant: a failed attempt retires the reminder as well.
EndsDeliveryAlways(v) == TRUE

\* Every verdict but a retry is final; a retry leaves the claim as it is.
EndsDelivery(v) == v # "retry"

\* recordReminderDelivery
Records(w) ==
    /\ sweeper[w].stage = "record"
    /\ LET r == sweeper[w].task
           v == sweeper[w].verdict
       IN  /\ Set(r, [todo[r] EXCEPT !.outcome = IF v = "retry" THEN "pending" ELSE v,
                                     !.attempts = @ + 1])
           /\ IF EndsDelivery(v)
              THEN At(w, [stage |-> "finish", task |-> r, version |-> sweeper[w].version])
              ELSE At(w, Off)
    /\ UNCHANGED <<time, closing, rung, disturbed, upsets>>

\* The write throws.  Behind a send that is a failed attempt; elsewhere it ends
\* the sweep, as a crash does.
LosesRecord(w) ==
    /\ sweeper[w].stage = "record" /\ sweeper[w].verdict \in {"sent", "skipped"}
    /\ Upset /\ Verdict(w, "retry")
    /\ UNCHANGED <<time, todo, closing, rung, disturbed>>

\* finishReminderDelivery, whatever the task says by now
Finishes(w) ==
    /\ sweeper[w].stage = "finish"
    /\ LET r == sweeper[w].task
       IN  Set(r, [todo[r] EXCEPT !.notified = TRUE, !.claim = "free"])
    /\ At(w, Off)
    /\ UNCHANGED <<time, closing, rung, disturbed, upsets>>

Stops(w) ==
    /\ sweeper[w] # Off /\ Upset
    /\ At(w, Off)
    /\ UNCHANGED <<time, todo, closing, rung, disturbed>>

\* The lease runs out: behind a retry, a crash, or under a slow worker.
LeaseExpires(r) ==
    /\ todo[r].claim = "held"
    /\ Set(r, [todo[r] EXCEPT !.claim = "expired"])
    /\ IF Held(r) THEN Upset /\ disturbed' = disturbed \cup {r}
                  ELSE UNCHANGED <<upsets, disturbed>>
    /\ UNCHANGED <<time, sweeper, closing, rung>>

Tick == time < LastTime /\ time' = time + 1
        /\ UNCHANGED <<todo, sweeper, closing, rung, disturbed, upsets>>

Sweep(w) ==
    \/ \E r \in Tasks : Claim(w, r)
    \/ Pushes(w) \/ MarksPushed(w) \/ GivesUp(w) \/ SendsNothing(w) \/ Sends(w)
    \/ Records(w) \/ Finishes(w)
Changes(r) == \/ StartsClosing(r) \/ Closes(r)
              \/ \E due \in DueTimes : Create(r, due) \/ Move(r, due)

Next ==
    \/ Tick
    \/ \E r \in Tasks : Changes(r) \/ LeaseExpires(r)
    \/ \E w \in Workers : Sweep(w) \/ LosesRecord(w) \/ Stops(w)

Spec == Init /\ [][Next]_vars

\* The runner's interval fires and leases age; nothing is assumed of the owner
\* nor that any send succeeds.
FairSpec ==
    /\ Spec
    /\ \A w \in Workers : WF_vars(Sweep(w))
    /\ \A r \in Tasks : WF_vars(LeaseExpires(r))

-----------------------------------------------------------------------------
(* Properties. *)

\* Types of the tasks and of what the workers hold.
TypeOK ==
    /\ time \in 0 .. LastTime
    /\ todo \in [Tasks ->
         [status : {"none", "pending", "closed"}, due : 0 .. LastTime,
          notified : BOOLEAN, claim : {"free", "held", "expired"}, outcome : Outcomes,
          attempts : Nat, pushed : BOOLEAN, version : 0 .. MaxMoves + 1]]
    /\ sweeper \in [Workers ->
         {Off}
         \cup [stage : {"push", "mark", "whatsapp"}, task : Tasks, attempts : Nat,
               pushed : BOOLEAN, version : 1 .. MaxMoves + 1]
         \cup [stage : {"record"}, task : Tasks, version : 1 .. MaxMoves + 1,
               verdict : {"sent", "skipped", "failed", "retry"}]
         \cup [stage : {"finish"}, task : Tasks, version : 1 .. MaxMoves + 1]]
    /\ closing \subseteq Tasks /\ disturbed \subseteq Tasks
    /\ rung \in [Tasks -> Nat] /\ upsets \in 0 .. MaxUpsets

\* A retired reminder has a verdict, and one recorded as sent was sent, unless
\* it was moved, or claimed again, under a delivery.
RetiredWithVerdict ==
    \A r \in Tasks \ disturbed :
        /\ todo[r].notified => todo[r].outcome # "pending"
        /\ todo[r].outcome = "sent" => rung[r] > 0

\* A reminder that has fallen due, and is to be retired, closed or moved.
Overdue(r) == todo[r].status = "pending" /\ todo[r].due <= time /\ ~todo[r].notified
=============================================================================
