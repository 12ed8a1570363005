----------------------------- MODULE Background -----------------------------
(***************************************************************************)
(* The services that work in the background and share no state with each   *)
(* other in the models: which one a behaviour is about is chosen at the    *)
(* start, the others stay as they begin, so that one run explores each of  *)
(* them in full and one specification is about all of them.                *)
(***************************************************************************)
EXTENDS AuthSessions

CONSTANTS
    Tasks, Reminders, Workers, Nobody, Forms, FirstForm, Clients, Doors,
    MaxDeliveries, LastDue, MaxMoves, MaxUpsets,      \* ReminderSweep
    MaxReadings, MaxMishaps,                          \* CommitmentRetry
    MaxTries, MaxStumbles,                            \* RealtimeOutbox
    MaxTime, MaxVersion, MaxUpheavals,                \* HandsetAlarms
    Dues, Edits,                                      \* NextFollowUp
    History, Limit, Cap, PageSize, MaxPages, Backfill, MaxMisses,   \* MetaPoll
    MaxAttempts, MaxTrouble,                          \* CallChase
    MaxBlows,                                         \* LeadIntake
    Horizon, MaxFailures,                             \* EventReminder
    Delay, LastTime, MaxSlips                         \* OwnerCall

VARIABLE which   \* the service this behaviour is about

VARIABLES time, todo, sweeper, closing, rung, disturbed, upsets
reminding == <<time, todo, sweeper, closing, rung, disturbed, upsets>>

VARIABLES row, retrier, readings, mishaps
retrying == <<row, retrier, readings, mishaps>>

VARIABLES signal, publisher, told, stumbles
signalling == <<signal, publisher, told, stumbles>>

VARIABLES clock, task, fresh, phone, alarms, armed, granted, missed, upheavals
ringing == <<clock, task, fresh, phone, alarms, armed, granted, missed, upheavals>>

VARIABLES due, known, hint, request, stale, edits
hinting == <<due, known, hint, request, stale, edits>>

VARIABLES form, source, ledger, poll, whole, looked, skipped, misses
polling == <<form, source, ledger, poll, whole, looked, skipped, misses>>

VARIABLES attempt, hour, chat, chasing, ownerTask, chaser, trouble
callchasing == <<attempt, hour, chat, chasing, ownerTask, chaser, trouble>>

VARIABLES rows, thread, may, door, opener, pinged, opened, undone, blows
takingIn == <<rows, thread, may, door, opener, pinged, opened, undone, blows>>

VARIABLES won, ahead, reminded, eve, ownerTold, echoes, lost, failures
reminderOfEvent == <<won, ahead, reminded, eve, ownerTold, echoes, lost, failures>>

VARIABLES now, lead, heard, ring, line, dials, crowded, botched, slips
callingOwner == <<now, lead, heard, ring, line, dials, crowded, botched, slips>>

RS == INSTANCE ReminderSweep WITH Tasks <- Reminders, LastTime <- LastDue
CR == INSTANCE CommitmentRetry WITH Messages <- Reminders, Retriers <- Workers
RO == INSTANCE RealtimeOutbox WITH Signals <- Reminders, Publishers <- Workers
HA == INSTANCE HandsetAlarms
NF == INSTANCE NextFollowUp WITH Requests <- Workers
MP == INSTANCE MetaPoll
CC == INSTANCE CallChase WITH Sweepers <- Workers
LI == INSTANCE LeadIntake WITH Submissions <- Clients, Openers <- Workers
ER == INSTANCE EventReminder WITH
    Bookings <- Clients, Sweepers <- Workers, MaxBlows <- MaxFailures,
    sweep <- eve, told <- ownerTold, blows <- failures
OC == INSTANCE OwnerCall WITH Leads <- Clients, Ringers <- Workers

\* The constants are as the modules want them.
ASSUME BoundsAreSound ==
    /\ RS!SweepAssumption /\ CR!RetryAssumption /\ RO!OutboxAssumption
    /\ HA!HandsetAssumption /\ NF!HintAssumption /\ MP!PollAssumption /\ CC!ChaseAssumption
    /\ LI!IntakeAssumption /\ ER!EventAssumption /\ OC!OwnerCallAssumption

-----------------------------------------------------------------------------
Rest(part) ==
    /\ which = part /\ UNCHANGED which
    /\ IF part = "auth" THEN TRUE ELSE UNCHANGED vars
    /\ IF part = "reminders" THEN TRUE ELSE UNCHANGED reminding
    /\ IF part = "retries" THEN TRUE ELSE UNCHANGED retrying
    /\ IF part = "outbox" THEN TRUE ELSE UNCHANGED signalling
    /\ IF part = "handset" THEN TRUE ELSE UNCHANGED ringing
    /\ IF part = "hint" THEN TRUE ELSE UNCHANGED hinting
    /\ IF part = "metapoll" THEN TRUE ELSE UNCHANGED polling
    /\ IF part = "callchase" THEN TRUE ELSE UNCHANGED callchasing
    /\ IF part = "intake" THEN TRUE ELSE UNCHANGED takingIn
    /\ IF part = "events" THEN TRUE ELSE UNCHANGED reminderOfEvent
    /\ IF part = "ownercall" THEN TRUE ELSE UNCHANGED callingOwner

BackgroundInit ==
    /\ which \in {"auth", "reminders", "retries", "outbox", "handset", "hint", "metapoll",
                  "callchase", "intake", "events", "ownercall"}
    /\ Init /\ RS!Init /\ CR!Init /\ RO!Init /\ NF!Init /\ CC!Init /\ LI!Init /\ OC!Init
    /\ ER!Init /\ (which # "events" => \A b \in Clients : ahead[b] = 0)
    /\ HA!Init /\ (which # "handset" => granted)
    /\ MP!Init
    /\ which # "metapoll" => whole /\ \A l \in DOMAIN form : form[l] = FirstForm

BackgroundNext ==
    \/ Rest("auth") /\ Next
    \/ Rest("reminders") /\ RS!Next
    \/ Rest("retries") /\ CR!Next
    \/ Rest("outbox") /\ RO!Next
    \/ Rest("handset") /\ HA!Next
    \/ Rest("hint") /\ NF!Next
    \/ Rest("metapoll") /\ MP!Next
    \/ Rest("callchase") /\ CC!Next
    \/ Rest("intake") /\ LI!Next
    \/ Rest("events") /\ ER!Next
    \/ Rest("ownercall") /\ OC!Next

Everything ==
    <<which, vars, reminding, retrying, signalling, ringing, hinting, polling, callchasing, takingIn,
      reminderOfEvent, callingOwner>>

\* Each service's own fairness: the runners' intervals fire and time passes.
BackgroundSpec ==
    /\ BackgroundInit /\ [][BackgroundNext]_Everything
    /\ \A w \in Workers :
           /\ WF_reminding(which = "reminders" /\ RS!Sweep(w))
           /\ WF_retrying(which = "retries" /\ CR!Drains(w))
           /\ WF_signalling(which = "outbox" /\ RO!Drains(w))
           /\ WF_callchasing(which = "callchase" /\ CC!Sweeps(w))
           /\ WF_takingIn(which = "intake" /\ LI!Greeting(w))
           /\ WF_callingOwner(which = "ownercall" /\ OC!Sweeps(w))
    /\ \A r \in Reminders :
           /\ WF_reminding(which = "reminders" /\ RS!LeaseExpires(r))
           /\ WF_retrying(which = "retries" /\ CR!BackoffEnds(r))
           /\ WF_retrying(which = "retries" /\ CR!LeaseExpires(r))
           /\ WF_signalling(which = "outbox" /\ RO!Ages(r))
    /\ WF_callchasing(which = "callchase" /\ CC!TimePasses)
    /\ WF_polling(which = "metapoll" /\ MP!Polls)

-----------------------------------------------------------------------------
(* Properties. *)

\* Types of the state of every service.
TypesOK ==
    /\ TypeOK /\ RS!TypeOK /\ CR!TypeOK /\ RO!TypeOK /\ HA!TypeOK /\ NF!TypeOK
    /\ MP!TypeOK /\ CC!TypeOK /\ LI!TypeOK /\ ER!TypeOK /\ OC!TypeOK

\* ReminderSweep: a retired reminder has its verdict, and "sent" means sent.
RetiredWithVerdict == RS!RetiredWithVerdict

\* RealtimeOutbox: a row is published only when its signal has gone out.
PublishedWasTold == RO!PublishedWasTold

\* HandsetAlarms: between syncs the handset rings for what the server has.
InStep == HA!InStep

\* HandsetAlarms: an alarm is never armed on top of one still pending.
NeverStacked == HA!NeverStacked

\* NextFollowUp: an undisturbed sync leaves the hint equal to the earliest due time.
SelfHeals == NF!SelfHeals

\* MetaPoll: no watermark while a lead of the source's history is unread, but for
\* one cut off in the middle of a page where pages do not fit the cap.
HistoryFirst == MP!HistoryFirst

\* CallChase: a chase called completed has told the owner and written to the lead.
CompletedMeansDone == CC!CompletedMeansDone

\* LeadIntake: one alert and one opening for a person, whichever doors they came by.
OneOpening == LI!OneOpening

\* EventReminder: the owner is told of a booked event once, and a claim that stands
\* has told.
ToldOnceAndNotLost == ER!ToldOnceAndNotLost

\* OwnerCall: the owner is rung once about a lead, and a sweep rings once.
RingsSparingly == OC!RingsSparingly

\* CommitmentRetry: only the worker holding a message's lease ends it, as the
\* contract of leased jobs has it.
OnlyTheHolderEnds == CR!OnlyTheHolderEnds

\* Whatever a service takes up it comes to the end of: a reminder that fell due,
\* a message to be read again, a signal to be told, the history of a source, a
\* chase, a greeting, a call whose outcome can be read.
WorkWaiting ==
    \/ \E r \in Reminders : RS!Overdue(r) \/ CR!Unsettled(r) \/ RO!Underway(r)
    \/ which = "metapoll" /\ MP!HistoryUnread
    \/ CC!UnderWay
    \/ LI!GreetingDue
    \/ OC!OutcomeUnread
WorkEnds == []<>~WorkWaiting
=============================================================================
