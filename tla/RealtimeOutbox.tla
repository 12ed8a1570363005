--------------------------- MODULE RealtimeOutbox ---------------------------
(***************************************************************************)
(* Telling open dashboards that a conversation changed: the row written in *)
(* the transaction of the change, claimed by a publisher under a lease,    *)
(* sent on the Redis channel, and marked published or handed back.         *)
(*                                                                         *)
(* A claim carries no token: mark and release go by the row's status.      *)
(* Due times and leases are "not yet" or "past": ready and lease.  The     *)
(* limit of a drain (100 rows) and the order of rows only delay a row.     *)
(***************************************************************************)
EXTENDS Integers

CONSTANTS
    Signals,      \* rows of the outbox
    Publishers,   \* processes draining it
    MaxTries,     \* maxAttempts of a claim
    MaxStumbles   \* bound on crashes, failed writes and stalled publishers

VARIABLES
    signal,     \* realtime_outbox_events
    publisher,  \* what each publisher is doing
    told,       \* history: how often the signal went out on the channel
    stumbles

vars == <<signal, publisher, told, stumbles>>

OutboxAssumption == MaxTries \in Nat \ {0} /\ MaxStumbles \in Nat

Waiting == [stage |-> "idle"]
Unwritten == [status |-> "none", ready |-> FALSE, lease |-> "none", attempts |-> 0]

Init ==
    /\ signal = [e \in Signals |-> Unwritten]
    /\ publisher = [p \in Publishers |-> Waiting]
    /\ told = [e \in Signals |-> 0]
    /\ stumbles = 0

At(p, s) == publisher' = [publisher EXCEPT ![p] = s]
Stumble == stumbles < MaxStumbles /\ stumbles' = stumbles + 1

\* enqueueConversationChanged: due at once
Enqueue(e) ==
    /\ signal[e].status = "none"
    /\ signal' = [signal EXCEPT ![e] = [@ EXCEPT !.status = "pending", !.ready = TRUE]]
    /\ UNCHANGED <<publisher, told, stumbles>>

BackoffEnds(e) ==
    /\ signal[e].status = "pending" /\ ~signal[e].ready
    /\ signal' = [signal EXCEPT ![e].ready = TRUE]
    /\ UNCHANGED <<publisher, told, stumbles>>

\* Mutant: an off-by-one in the budget.
OneTryTooMany(s) ==
    /\ s.attempts <= MaxTries
    /\ \/ s.status = "pending" /\ s.ready
       \/ s.status = "publishing" /\ s.lease = "expired"

ToBeTold(s) ==
    /\ s.attempts < MaxTries
    /\ \/ s.status = "pending" /\ s.ready
       \/ s.status = "publishing" /\ s.lease = "expired"

Overdue(s) == s.status = "publishing" /\ s.lease = "expired" /\ s.attempts >= MaxTries

\* What a look for work does first: rows lost in their last attempt are closed.
Closed == [e \in Signals |-> IF Overdue(signal[e])
                             THEN [signal[e] EXCEPT !.status = "failed_permanent"] ELSE signal[e]]

\* claimNextRealtimeOutboxEvent
Claim(p, e) ==
    /\ publisher[p] = Waiting /\ ToBeTold(Closed[e])
    /\ LET taken == [Closed[e] EXCEPT !.status = "publishing", !.lease = "held",
                                      !.attempts = @ + 1]
       IN  signal' = [Closed EXCEPT ![e] = taken]
    /\ At(p, [stage |-> "publish", row |-> e])
    /\ UNCHANGED <<told, stumbles>>

FindsNothing(p) ==
    /\ publisher[p] = Waiting
    /\ \A e \in Signals : ~ToBeTold(Closed[e])
    /\ signal' = Closed
    /\ UNCHANGED <<publisher, told, stumbles>>

\* publishConversationChanged: true once Redis has taken it.
Publishes(p) ==
    /\ publisher[p].stage = "publish"
    /\ told' = [told EXCEPT ![publisher[p].row] = @ + 1]
    /\ At(p, [publisher[p] EXCEPT !.stage = "mark"])
    /\ UNCHANGED <<signal, stumbles>>

\* Mutant: an unavailable channel counts as published.
UnavailableIsMarked(p) ==
    /\ publisher[p].stage = "publish"
    /\ At(p, [publisher[p] EXCEPT !.stage = "mark"])
    /\ UNCHANGED <<signal, told, stumbles>>

\* Redis is not ready, or the call throws.
Unavailable(p) ==
    /\ publisher[p].stage = "publish"
    /\ At(p, [publisher[p] EXCEPT !.stage = "release"])
    /\ UNCHANGED <<signal, told, stumbles>>

StillPublishing(s) == s.status = "publishing"

\* markRealtimeOutboxEventPublished, releaseRealtimeOutboxEvent
Settles(p) ==
    /\ publisher[p].stage \in {"mark", "release"}
    /\ LET e == publisher[p].row
           marked == [signal[e] EXCEPT !.status = "published", !.lease = "none"]
           released == [signal[e] EXCEPT !.status = "pending", !.lease = "none", !.ready = FALSE]
       IN  signal' = IF StillPublishing(signal[e])
                     THEN [signal EXCEPT ![e] = IF publisher[p].stage = "mark"
                                                THEN marked ELSE released]
                     ELSE signal
    /\ At(p, Waiting)
    /\ UNCHANGED <<told, stumbles>>

\* The write that marks throws: the row is handed back, and told again.
MarkFails(p) ==
    /\ publisher[p].stage = "mark" /\ Stumble
    /\ At(p, [publisher[p] EXCEPT !.stage = "release"])
    /\ UNCHANGED <<signal, told>>

\* A crash, or the write that releases throws.
Stops(p) ==
    /\ publisher[p] # Waiting /\ Stumble
    /\ At(p, Waiting)
    /\ UNCHANGED <<signal, told>>

\* The lease runs out: behind a crash, or under a slow publisher.
LeaseExpires(e) ==
    /\ signal[e].lease = "held"
    /\ signal' = [signal EXCEPT ![e].lease = "expired"]
    /\ IF \E p \in Publishers : publisher[p] # Waiting /\ publisher[p].row = e
       THEN Stumble ELSE UNCHANGED stumbles
    /\ UNCHANGED <<publisher, told>>

Drains(p) ==
    \/ \E e \in Signals : Claim(p, e)
    \/ FindsNothing(p) \/ Publishes(p) \/ Unavailable(p) \/ Settles(p)
Ages(e) == BackoffEnds(e) \/ LeaseExpires(e)
Next ==
    \/ \E e \in Signals : Enqueue(e) \/ Ages(e)
    \/ \E p \in Publishers : Drains(p) \/ MarkFails(p) \/ Stops(p)

Spec == Init /\ [][Next]_vars

\* The runner's interval fires, and time passes.
FairSpec ==
    /\ Spec
    /\ \A p \in Publishers : WF_vars(Drains(p))
    /\ \A e \in Signals : WF_vars(Ages(e))

-----------------------------------------------------------------------------
(* Properties. *)

\* Types of the rows and of the publishers.
TypeOK ==
    /\ signal \in [Signals ->
         [status : {"none", "pending", "publishing", "published", "failed_permanent"},
          ready : BOOLEAN, lease : {"none", "held", "expired"}, attempts : 0 .. MaxTries]]
    /\ publisher \in [Publishers ->
         {Waiting} \cup [stage : {"publish", "mark", "release"}, row : Signals]]
    /\ told \in [Signals -> Nat] /\ stumbles \in 0 .. MaxStumbles

\* A row is marked published only when its signal has gone out, and goes out at
\* most once for each try, whatever leases expire and writes fail; a publisher
\* that lost its lease may settle the row of another, but not untruthfully.
PublishedWasTold ==
    \A e \in Signals : /\ signal[e].status = "published" => told[e] > 0
                       /\ told[e] <= MaxTries

\* A signal to be published or given up while it has tries left.
Underway(e) == signal[e].status \in {"pending", "publishing"} /\ signal[e].attempts < MaxTries
=============================================================================
