----------------------------- MODULE FollowUps -----------------------------
(***************************************************************************)
(* Chasing one lead: the silence cadence (nurture sweep), the one message  *)
(* a promise is owed (promise sweep) and the extraction of promises from   *)
(* what the lead writes, at once or when CommitmentRetry reads the turn    *)
(* again.  All of them meet in one conversation document, which the lead's *)
(* own messages and the owner change at any time.                          *)
(*                                                                         *)
(* A step is what the code does between two awaits.  What a sweep holds    *)
(* while it waits for a drafted text is its entry in nurturers or          *)
(* promisers.  Whether a model call succeeds and what it answers is a      *)
(* choice.  Times are whole units; NoTime stands for null.                 *)
(***************************************************************************)
EXTENDS Integers, FiniteSets

CONSTANTS
    Msgs,             \* messages the lead may write, each in a burst of its own
    PromiseWorkers,   \* processes running the promise sweep
    NurtureWorkers,   \* processes running the nurture sweep
    NoMsg,            \* no message
    FirstFollowUp,    \* SILENCE_FIRST_FOLLOW_UP_MS
    SecondFollowUp,   \* SILENCE_SECOND_FOLLOW_UP_MS
    MinGap,           \* SILENCE_MIN_GAP_AFTER_OUR_MESSAGE_MS
    SlotHours,        \* SILENCE_SLOT_HOURS
    Day,              \* units in a day
    MaxFollowUps,     \* SILENCE_MAX_FOLLOW_UPS
    MaxLateness,      \* PROMISE_MAX_LATENESS_MS
    MaxAttempts,      \* MAX_COMMITMENT_RETRY_ATTEMPTS
    Delays,           \* how far ahead a promised time may lie
    EventDates,       \* event dates the lead may have given
    MaxTime,          \* bound on the clock
    MaxChanges,       \* bound on what the owner and the lead's decisions change
    MaxFaults         \* bound on crashes and stalled workers

ASSUMPTION MessageAssumption == NoMsg \notin Msgs /\ IsFiniteSet(Msgs)
ASSUMPTION ScheduleAssumption ==
    /\ FirstFollowUp \in Nat /\ SecondFollowUp \in Nat /\ MinGap \in Nat
    /\ Day \in Nat \ {0} /\ SlotHours \subseteq 0 .. Day - 1 /\ SlotHours # {}
    /\ MaxFollowUps \in Nat /\ MaxLateness \in Nat /\ MaxAttempts \in Nat
ASSUMPTION BoundAssumption ==
    /\ MaxTime \in Nat /\ MaxChanges \in Nat /\ MaxFaults \in Nat
    /\ Delays \subseteq Nat \ {0} /\ EventDates \subseteq Nat

VARIABLES
    now,        \* the clock
    conv,       \* the conversation document
    turn,       \* for each message, how far its extraction is
    retries,    \* readings left to a message queued in commitment_retries
    promisers, nurturers,   \* what each sweep is in the middle of
    keys,       \* idempotency keys of the rows in the outbound queue
    promised,   \* messages queued because of each commitment
    nudged,     \* <<anchor, step>> of the nudges queued
    changes, faults

vars == <<now, conv, turn, retries, promisers, nurturers, keys,
          promised, nudged, changes, faults>>

NoTime == -1
Times == 0 .. MaxTime
Instants == Times \cup {NoTime}
Later(a, b) == IF a > b THEN a ELSE b

-----------------------------------------------------------------------------
(* The schedule of silence-schedule.ts. *)

\* silenceAnchor: the resume or the lead's last word, else the creation, at 0.
Anchor(c) == Later(Later(c.lastInbound, c.resumed), 0)

\* nextSlotAfter
NextSlotAfter(t) ==
    CHOOSE s \in t + 1 .. t + Day :
        /\ s % Day \in SlotHours
        /\ \A r \in t + 1 .. s - 1 : r % Day \notin SlotHours

\* dueAtForStep
DueAtForStep(anchor, step) ==
    LET slot[k \in Nat] == IF k <= 1 THEN anchor + SecondFollowUp
                                     ELSE NextSlotAfter(slot[k - 1])
    IN  IF step = 0 THEN anchor + FirstFollowUp ELSE slot[step]

\* The due time, put off when our own message came after it.
EffectiveDueAt(c) ==
    LET due == DueAtForStep(Anchor(c), c.step)
    IN  IF c.lastOutbound > due THEN c.lastOutbound + MinGap ELSE due

AwaitingOurReply(c) ==
    c.lastOutbound = NoTime \/ c.lastOutbound <= Later(c.lastInbound, 0)

\* daysUntilEventDate, for a conversation with an event date
DaysUntilEvent(c) == c.event \div Day - now \div Day

\* findNurturableConversations and the two checks that open processConversation
Nurturable(c) ==
    /\ ~c.deleted /\ c.open /\ c.automation /\ c.nurture
    /\ ~c.optedOut /\ ~c.rejected
    /\ c.lastOutbound # NoTime
    /\ c.event = NoTime \/ c.event >= now
    /\ c.promiseAt = NoTime

\* The event has passed, or the window has expired.
GoneCold(c) ==
    \/ c.event # NoTime /\ DaysUntilEvent(c) < 0
    \/ /\ c.event = NoTime \/ (DaysUntilEvent(c) # 0 /\ now < c.event)
       /\ ~AwaitingOurReply(c) /\ c.step >= MaxFollowUps

\* decideSilenceFollowUp answers "send"
NudgeIsDue(c) ==
    /\ c.event = NoTime \/ (DaysUntilEvent(c) # 0 /\ now < c.event)
    /\ ~AwaitingOurReply(c)
    /\ c.step < MaxFollowUps
    /\ now >= EffectiveDueAt(c)

-----------------------------------------------------------------------------
(* The document.  messagesHeard and setAfter serve the properties only: how *)
(* many messages of the lead are recorded, and how many were when the       *)
(* promise was written.                                                     *)

Conversations ==
    [open: BOOLEAN, automation: BOOLEAN, nurture: BOOLEAN, optedOut: BOOLEAN,
     rejected: BOOLEAN, deleted: BOOLEAN, event: EventDates \cup {NoTime},
     lastInbound: Instants, lastOutbound: Instants, resumed: Instants,
     step: 0 .. MaxFollowUps, promiseAt: Instants, promiseOf: Msgs \cup {NoMsg},
     setAfter: 0 .. Cardinality(Msgs)]

Heard == {m \in Msgs : turn[m] # "unheard"}
messagesHeard == Cardinality(Heard)

Idle == [stage |-> "idle"]

Init ==
    /\ now = 0
    /\ \E e \in EventDates \cup {NoTime} :
         conv = [open |-> TRUE, automation |-> TRUE, nurture |-> TRUE,
                 optedOut |-> FALSE, rejected |-> FALSE, deleted |-> FALSE,
                 event |-> e, lastInbound |-> NoTime, lastOutbound |-> NoTime,
                 resumed |-> NoTime, step |-> 0, promiseAt |-> NoTime,
                 promiseOf |-> NoMsg, setAfter |-> 0]
    /\ turn = [m \in Msgs |-> "unheard"]
    /\ retries = [m \in Msgs |-> 0]
    /\ promisers = [w \in PromiseWorkers |-> Idle]
    /\ nurturers = [w \in NurtureWorkers |-> Idle]
    /\ keys = {} /\ nudged = {}
    /\ promised = [m \in Msgs |-> 0]
    /\ changes = 0 /\ faults = 0

Sweeps == <<promisers, nurturers>>
Queue == <<keys, promised, nudged>>

-----------------------------------------------------------------------------
(* The lead and the owner. *)

\* The times of two messages differ; the unit is coarse, so at most one
\* anchor is set per unit.  The first may come with the conversation.
NewInstant == Anchor(conv) < now \/ Later(conv.lastInbound, conv.resumed) = NoTime

\* Mutant: the promise outlives the answer.
AnsweredKeepingPromise(c) ==
    [c EXCEPT !.lastInbound = now, !.step = 0, !.deleted = FALSE]

\* updateConversationPreview, for an inbound message
Answered(c) ==
    [c EXCEPT !.lastInbound = now, !.step = 0, !.deleted = FALSE,
              !.promiseAt = NoTime, !.promiseOf = NoMsg]

\* A message arrives.  Extraction does not run for a lead who asked to stop.
LeadWrites(m) ==
    /\ turn[m] = "unheard" /\ NewInstant
    /\ conv' = Answered(conv)
    /\ turn' = [turn EXCEPT ![m] = IF conv.optedOut THEN "done" ELSE "waiting"]
    /\ UNCHANGED <<now, retries, Sweeps, Queue, changes, faults>>

\* Any outbound message of ours that is not one of the two modelled here.
WeWrite ==
    /\ conv.lastInbound < now /\ conv.lastOutbound < now
    /\ conv' = [conv EXCEPT !.lastOutbound = now]
    /\ UNCHANGED <<now, turn, retries, Sweeps, Queue, changes, faults>>

Change(c) ==
    /\ changes < MaxChanges /\ c # conv
    /\ changes' = changes + 1 /\ conv' = c
    /\ UNCHANGED <<now, turn, retries, Sweeps, Queue, faults>>

\* What the owner switches back on is not counted.
Reopen(c) ==
    /\ c # conv /\ conv' = c
    /\ UNCHANGED <<now, turn, retries, Sweeps, Queue, changes, faults>>

MarkOptedOut == Change([conv EXCEPT !.optedOut = TRUE, !.automation = FALSE])

\* markSalesRejected: the rejection, the pause and the promise in one write
MarkSalesRejected ==
    /\ ~conv.rejected
    /\ Change([conv EXCEPT !.rejected = TRUE, !.automation = FALSE,
                           !.promiseAt = NoTime, !.promiseOf = NoMsg])

\* setAutomationForActor: switching on reopens a rejected lead.
SetAutomation(on) ==
    IF on THEN Reopen([conv EXCEPT !.automation = TRUE, !.rejected = FALSE])
          ELSE Change([conv EXCEPT !.automation = FALSE])

\* setNurtureEnabled: switching on restarts the cadence.
SetNurture(on) ==
    /\ on => NewInstant
    /\ Change(IF on THEN [conv EXCEPT !.nurture = TRUE, !.resumed = now, !.step = 0]
                    ELSE [conv EXCEPT !.nurture = FALSE])

UpdateStage == Change([conv EXCEPT !.open = ~@])

SoftDelete == Change([conv EXCEPT !.deleted = TRUE, !.automation = FALSE])
Restore == Reopen([conv EXCEPT !.deleted = FALSE])

-----------------------------------------------------------------------------
(* Extraction of a promise, at the end of a burst and on retry. *)

\* setPromisedFollowUp, whatever the document says by now
PromiseSet(m, due) ==
    conv' = [conv EXCEPT !.promiseAt = due, !.promiseOf = m,
                         !.setAfter = messagesHeard]

\* The classifier found a promise and its time lies ahead.
TurnCommits(m, delay) ==
    /\ turn[m] = "waiting" /\ now + delay <= MaxTime
    /\ turn' = [turn EXCEPT ![m] = "done"]
    /\ PromiseSet(m, now + delay)
    /\ UNCHANGED <<now, retries, Sweeps, Queue, changes, faults>>

\* No promise, an unusable time, a terminal failure, or the process stopped.
TurnFindsNothing(m) ==
    /\ turn[m] = "waiting"
    /\ turn' = [turn EXCEPT ![m] = "done"]
    /\ UNCHANGED <<now, conv, retries, Sweeps, Queue, changes, faults>>

\* The classifier did not answer: the turn is queued to be read again.
TurnFailsTransiently(m) ==
    /\ turn[m] = "waiting"
    /\ turn' = [turn EXCEPT ![m] = "done"]
    /\ retries' = [retries EXCEPT ![m] = MaxAttempts]
    /\ UNCHANGED <<now, conv, Sweeps, Queue, changes, faults>>

\* A later reading of the turn, with the time it is resolved against by then.
\* A crash before the row is deleted lets the same turn be read again.
RetryCommits(m, delay) ==
    /\ retries[m] > 0 /\ now + delay <= MaxTime
    /\ retries' = [retries EXCEPT ![m] = @ - 1]
    /\ PromiseSet(m, now + delay)
    /\ UNCHANGED <<now, turn, Sweeps, Queue, changes, faults>>

\* Mutant: an off-by-one in the budget.
RetryEndsOnce(m) ==
    /\ retries[m] >= 0
    /\ retries' = [retries EXCEPT ![m] = @ - 1]
    /\ UNCHANGED <<now, conv, turn, Sweeps, Queue, changes, faults>>

RetryEnds(m) ==
    /\ retries[m] > 0
    /\ retries' = [retries EXCEPT ![m] = 0]
    /\ UNCHANGED <<now, conv, turn, Sweeps, Queue, changes, faults>>

-----------------------------------------------------------------------------
(* The promise sweep. *)

Promiser(w, p) == promisers' = [promisers EXCEPT ![w] = p]

\* Mutant: the query looks at running leads only.
FindDuePromiseOfRunning(w) ==
    /\ promisers[w].stage = "idle" /\ conv.automation
    /\ ~conv.deleted /\ conv.promiseAt # NoTime /\ conv.promiseAt <= now
    /\ Promiser(w, [stage |-> "found", due |-> conv.promiseAt, at |-> now])
    /\ UNCHANGED <<now, conv, turn, retries, nurturers, Queue, changes, faults>>

\* findDuePromisedFollowUps
FindDuePromise(w) ==
    /\ promisers[w].stage = "idle"
    /\ ~conv.deleted /\ conv.promiseAt # NoTime /\ conv.promiseAt <= now
    /\ Promiser(w, [stage |-> "found", due |-> conv.promiseAt, at |-> now])
    /\ UNCHANGED <<now, conv, turn, retries, nurturers, Queue, changes, faults>>

\* The compare of claimPromisedFollowUp.
StillDue(w) == conv.promiseAt = promisers[w].due

\* The guards processConversation reads from the claimed document.
MayKeepPromise(w) ==
    /\ ~conv.optedOut /\ ~conv.rejected /\ conv.automation /\ conv.open
    /\ promisers[w].at - promisers[w].due <= MaxLateness

\* claimPromisedFollowUp clears the due time and returns the document as it was.
ClaimPromise(w) ==
    /\ promisers[w].stage = "found" /\ StillDue(w)
    /\ conv' = [conv EXCEPT !.promiseAt = NoTime]
    /\ IF MayKeepPromise(w)
       THEN Promiser(w, [stage |-> "drafting", due |-> promisers[w].due,
                         msg |-> conv.promiseOf, setAfter |-> conv.setAfter,
                         takenAfter |-> messagesHeard])
       ELSE Promiser(w, Idle)
    /\ UNCHANGED <<now, turn, retries, nurturers, Queue, changes, faults>>

LosePromise(w) ==
    /\ promisers[w].stage = "found" /\ ~StillDue(w)
    /\ Promiser(w, Idle)
    /\ UNCHANGED <<now, conv, turn, retries, nurturers, Queue, changes, faults>>

\* Mutant: the key is minted from the time the message is due.
PromiseKeyByTime(m, due) == <<"promise", m, due>>

\* promisedFollowUpKey, minted from the message that held the commitment
PromiseKey(m, due) == <<"promise", m>>

\* enqueueOutboundMessage: a row of a key that exists changes nothing.
EnqueuePromise(w) ==
    /\ promisers[w].stage = "drafting"
    /\ LET m == promisers[w].msg
           key == PromiseKey(m, promisers[w].due)
       IN  IF key \in keys
           THEN UNCHANGED <<keys, promised, conv>>
           ELSE /\ keys' = keys \cup {key}
                /\ promised' = [promised EXCEPT ![m] = @ + 1]
                /\ conv' = [conv EXCEPT !.lastOutbound = now]
    /\ Promiser(w, Idle)
    /\ UNCHANGED <<now, turn, retries, nurturers, nudged, changes, faults>>

\* The draft is empty or fails, or the process stops: the promise is dropped.
DropPromise(w) ==
    /\ promisers[w].stage = "drafting"
    /\ Promiser(w, Idle)
    /\ UNCHANGED <<now, conv, turn, retries, nurturers, Queue, changes, faults>>

-----------------------------------------------------------------------------
(* The nurture sweep.  It decides on the document as it was read. *)

Nurturer(w, n) == nurturers' = [nurturers EXCEPT ![w] = n]

DecideCold(w) ==
    /\ nurturers[w].stage = "idle" /\ Nurturable(conv) /\ GoneCold(conv)
    /\ Nurturer(w, [stage |-> "cold"])
    /\ UNCHANGED <<now, conv, turn, retries, promisers, Queue, changes, faults>>

\* markConversationCold
MarkCold(w) ==
    /\ nurturers[w].stage = "cold"
    /\ conv' = [conv EXCEPT !.automation = FALSE]
    /\ Nurturer(w, Idle)
    /\ UNCHANGED <<now, turn, retries, promisers, Queue, changes, faults>>

DecideNudge(w) ==
    /\ nurturers[w].stage = "idle" /\ Nurturable(conv) /\ NudgeIsDue(conv)
    /\ Nurturer(w, [stage |-> "drafting", anchor |-> Anchor(conv), step |-> conv.step + 1])
    /\ UNCHANGED <<now, conv, turn, retries, promisers, Queue, changes, faults>>

\* Mutant: the key of a nudge before the anchor became part of it.
NurtureKeyByStep(anchor, step) == <<"nurture", step>>

NurtureKey(anchor, step) == <<"nurture", anchor, step>>

EnqueueNudge(w) ==
    /\ nurturers[w].stage = "drafting"
    /\ LET n == nurturers[w]
           key == NurtureKey(n.anchor, n.step)
       IN  /\ IF key \in keys
              THEN UNCHANGED <<keys, nudged, conv>>
              ELSE /\ keys' = keys \cup {key}
                   /\ nudged' = nudged \cup {<<n.anchor, n.step>>}
                   /\ conv' = [conv EXCEPT !.lastOutbound = now]
           /\ Nurturer(w, [n EXCEPT !.stage = "bump"])
    /\ UNCHANGED <<now, turn, retries, promisers, promised, changes, faults>>

\* bumpNurtureStep
BumpStep(w) ==
    /\ nurturers[w].stage = "bump"
    /\ conv' = [conv EXCEPT !.step = nurturers[w].step]
    /\ Nurturer(w, Idle)
    /\ UNCHANGED <<now, turn, retries, promisers, Queue, changes, faults>>

\* The draft or a write fails, or the process stops.
NurtureFails(w) ==
    /\ nurturers[w].stage # "idle" /\ faults < MaxFaults
    /\ faults' = faults + 1
    /\ Nurturer(w, Idle)
    /\ UNCHANGED <<now, conv, turn, retries, promisers, Queue, changes>>

-----------------------------------------------------------------------------
Tick == now < MaxTime /\ now' = now + 1
        /\ UNCHANGED <<conv, turn, retries, Sweeps, Queue, changes, faults>>

\* The history is over: the clock stands at its bound.
Stop == now = MaxTime /\ UNCHANGED vars

Lead == \E m \in Msgs : LeadWrites(m)
Owner == \/ WeWrite \/ MarkOptedOut \/ MarkSalesRejected \/ UpdateStage
         \/ SoftDelete \/ Restore
         \/ \E on \in BOOLEAN : SetAutomation(on) \/ SetNurture(on)
Turn(m) == \/ TurnFindsNothing(m) \/ TurnFailsTransiently(m)
           \/ RetryEnds(m)
           \/ \E d \in Delays : TurnCommits(m, d) \/ RetryCommits(m, d)
PromiseSweep(w) ==
    \/ FindDuePromise(w) \/ ClaimPromise(w) \/ LosePromise(w)
    \/ EnqueuePromise(w) \/ DropPromise(w)
NurtureSweep(w) ==
    \/ DecideCold(w) \/ MarkCold(w) \/ DecideNudge(w) \/ EnqueueNudge(w) \/ BumpStep(w)

Next ==
    \/ Tick \/ Stop \/ Lead \/ Owner
    \/ \E m \in Msgs : Turn(m)
    \/ \E w \in PromiseWorkers : PromiseSweep(w)
    \/ \E w \in NurtureWorkers : NurtureSweep(w) \/ NurtureFails(w)

Spec == Init /\ [][Next]_vars

\* Time passes and the runners' intervals fire; nothing is assumed of people,
\* nor that a draft ever succeeds.
FairSpec ==
    /\ Spec /\ WF_vars(Tick)
    /\ \A w \in PromiseWorkers : WF_vars(PromiseSweep(w))
    /\ \A w \in NurtureWorkers : WF_vars(NurtureSweep(w))
-----------------------------------------------------------------------------
(* Properties. *)

\* Types of the state of the chase.
TypeOK ==
    /\ now \in Times /\ conv \in Conversations
    /\ turn \in [Msgs -> {"unheard", "waiting", "done"}]
    /\ retries \in [Msgs -> 0 .. MaxAttempts]
    /\ promisers \in [PromiseWorkers ->
           [stage : {"idle"}]
             \cup [stage : {"found"}, due : Times, at : Times]
             \cup [stage : {"drafting"}, due : Times, msg : Msgs,
                   setAfter : Nat, takenAfter : Nat]]
    /\ nurturers \in [NurtureWorkers ->
           [stage : {"idle", "cold"}]
             \cup [stage : {"drafting", "bump"}, anchor : Times, step : 1 .. MaxFollowUps]]
    /\ promised \in [Msgs -> Nat]
    /\ nudged \subseteq Times \X (1 .. MaxFollowUps)
    /\ changes \in 0 .. MaxChanges /\ faults \in 0 .. MaxFaults

\* A commitment brings the lead at most one message, however often the turn is
\* read again, the promise moved or the sweep run: the row's key comes from the
\* message that held the commitment.
OneMessagePerCommitment == \A m \in Msgs : promised[m] <= 1

\* A sweep never takes a promise the lead has answered since it was written:
\* the answer clears the due time and the claim compares it.
NotAfterAnAnswer ==
    \A w \in PromiseWorkers :
        promisers[w].stage = "drafting" => promisers[w].setAfter = promisers[w].takenAfter

\* A step that is about to be counted was really queued for its sequence: a
\* nudge of a later silence is not taken for one of an earlier silence.
CountedNudgeWasQueued ==
    \A w \in NurtureWorkers :
        nurturers[w].stage = "bump" => <<nurturers[w].anchor, nurturers[w].step>> \in nudged

\* An outstanding promise does not stay for ever, which would also keep the
\* silence cadence from ever running again; unless its chat is deleted.
PromiseEnds == conv.promiseAt # NoTime ~> conv.promiseAt = NoTime \/ conv.deleted
=============================================================================
