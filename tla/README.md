# Verification of the lead-management backend

TLA+ models, TLC runs and TLAPS proofs for the backend of this repository: a
Node.js process (`src/backend`) that answers leads on WhatsApp for a sales team,
a Python service that drafts the replies (`src/ai-brain-service`, a LangGraph
graph), MongoDB, Redis, and a dashboard. Paths below are relative to
`src/backend/src/modules/` unless they start with `src/`.

Contents: 1 the system; 2 what is hard in it; 3 the models; 4 the runs; 5 the
proofs; 6 what the checks found; 7 what is not modelled; 8 the plan.

To run a check: `tlc -workers 2 -config <cfg> <module>` with a row of section 4;
to check the proofs: `tlapm <module>.tla` for the eight `*Proofs.tla`.

## 1. The system

One process serves one business. Everything it must remember is in MongoDB;
what it holds between two awaits, the burst windows and the WhatsApp sockets die
with it. There are no locks: two activities exclude each other only by what a
database write filters on, or by a map in memory.

| Component | State | Operations | Talks to |
|---|---|---|---|
| Outbound queue (`messages/`) | `messages` rows: status, deliveryAttempts, scheduledAt, nextAttemptAt, statusUpdatedAt; an idempotency key per enqueue | enqueue, claim with a lease, mark sent or failed, hold to the end of quiet hours, cancel with a deleted chat | written by AI turns, the dashboard and the sweeps; drained by delivery |
| Delivery (`whatsapp/delivery`) | the row being worked on, in memory | an interval drains the queue: guards, socket call, bookkeeping | queue, conversation, session, echo guard |
| Echo guard and router (`whatsapp/automation`) | Redis: ids of recent sends | remember a send, recognise its reflection, take any other `fromMe` message for the owner taking over | delivery, conversation |
| Session manager (`whatsapp/sessions`) and accounts (`whatsapp-accounts`) | the sessions map, one timer and one socket per session; the account's status | connect, disconnect, pause, resume, reset, remove, reconnect with a cap, restore at startup | the Baileys library's events |
| Owner approvals (`ai-brain/`) | `ai_brain_approvals` cards; the conversation's automation flag | a lead's turn asks the graph; a person approves, edits or skips the card; outcome checks and the morning read raise cards of their own | graph service, queue, conversation |
| Graph (`src/ai-brain-service`) | one LangGraph thread per conversation, checkpointed in Postgres | run on a lead's message, pause for a person, resume with the decision | called by the approvals |
| Conversation (`conversations/`) | automation, opt-out, rejection, deletion, stage, timestamps | one small atomic update per decision | everyone |
| Inbound ingestion and burst window (`whatsapp/ingestion`) | stored messages; pending windows and per-conversation chains in memory | ingest, opt-out, collect, flush one turn | conversation, approvals |
| Chasing a lead (`ai-brain/nurture-sweep`, `followups/promise-follow-up`, `followups/lead-commitment`, `lead-sources/call-scheduling*`) | the cadence's step and the promised time on the conversation; retry rows; one chase attempt per submission | claim by compare-and-set or lease, draft, queue one message | queue, approvals, conversation |
| Reminders (`followups/`) and the handset (`src/frontend`) | follow-up tasks with a delivery claim and an outcome; the inbox's earliest-due hint; alarms and a cursor on the phone | create, move, close; push and WhatsApp when due; sync to the phone | push, session manager |
| Telling the owner (`ai-brain/new-lead-alert`, `event-reminder`, `owner-call-escalation`) | one claim per lead or booking; the id and outcome of a phone call; the owner's last activity | claim, notify, hand back; ring the owner and read the call back | session manager, telephony service |
| Lead import (`lead-sources/`) | cursor, watermark and finished forms of a source; one ledger row per submission | poll a source's forms, receive the webhook, alert, book the greeting, greet | contacts, conversation, approvals |
| Auth (`auth/`) | refresh sessions; login counters in Redis | sign in, rotate, detect a replayed token, revoke | dashboard |
| Realtime outbox (`realtime/`) | outbox rows | append with the change, claim, publish, retry | dashboard |

A lead's message travels: Baileys event → router → ingestion → burst window →
turn (rejection, eligibility, graph) → a queued question, an approval card or an
escalation → a person's decision → queue → delivery → socket → reflection.

What makes each correct:

- **Queue and delivery.** Every accepted row is closed; it is tried a limited
  number of times; a closed row is never touched again; the record of a send is
  true; a lead who said stop is left alone.
- **Sessions.** An account has one socket; a lost connection comes back or the
  account says it did not.
- **Approvals.** What goes out for a card is what a person approved on it, once;
  the card shows what the graph holds.
- **Inbound.** Every stored message is considered in exactly one turn; the turns
  of a conversation are serial; a rejection is not answered with a pitch.
- **Chasing.** One message for each promise and for each step of a silence, and
  none on account of a promise the lead has answered; no promise blocks the
  cadence for ever.
- **Reminders.** A retired reminder has a true verdict; the phone rings for what
  the server has; the hint heals.
- **Telling the owner.** Told once, and not lost without a crash; rung once about
  a lead, and only while silent.
- **Import.** A person is alerted about and greeted once whichever way the forms
  arrive; no lead is overtaken by the watermark.
- **Auth, outbox, retries.** One usable token in a family and none in a
  compromised one; a row marked published was told; only the holder of a lease
  ends a job.

## 2. What is hard in it

`PROJECT.json` lists the hazards with their lines. They fall into five groups.

1. *Guards read before an await and used after it*: delivery reads the
   conversation and then sends; a turn looks for an open card and then asks a
   model for seconds; `connectAccount` looks at the map and then writes.
2. *Writes that filter on the id alone*: `markOutboundMessageSent`,
   `markOutboundMessageFailed`, `resolveApproval`, account status writes,
   `finishReminderDelivery`, the marks of the realtime outbox (by status only).
3. *Two stores that must agree*: the card in MongoDB and the graph's thread in
   Postgres; the row in MongoDB and the message on the lead's phone; the id in
   Redis and the reflection on the socket; the reminders on the server and the
   alarms on the phone; a task and the hint copied from it.
4. *Crashes and lost answers between two such steps*, and claims that are handed
   back, or not, when what they were taken for fails.
5. *Clocks and cursors*: lease, backoff, quiet hours, staleness, watermarks, and
   the provider's timestamps that stand for arrival times.

## 3. The models

A step of every module is what the code does between two awaits: one database
write, one read with the decisions taken on it, one call. What an activity holds
between two steps is a record with a `stage`. Operators whose comment begins
with "Mutant" are plausible wrong versions of the operator they precede; the
specification does not use them, and replacing the one by the other must make a
property fail.

### OutboundDelivery (with DeliveryContract)

| Model | Code |
|---|---|
| `row[m]` | the row of one idempotency key; `since`, `retry`, `age` are scheduledAt, nextAttemptAt and statusUpdatedAt relative to now |
| `conv[c]` | the fields the send-time guards read; `lastInbound` counts in rows created |
| `run[w]` | what `deliverNext` of one server process holds |
| `EnqueueAi`, `EnqueueHuman` | `enqueueOutboundMessage` and its callers' checks |
| `Claim`, `ClaimNothing` | `claimNextOutboundMessage`: the sweep of expired leases, then the sorted `findOneAndUpdate` |
| `Undeliverable`, `CheckAi`, `CheckHuman`, `Drop`, `Hold` | the guards, `markOutboundMessageFailed(permanent)`, `rescheduleOutboundMessage` |
| `Send`, `SendFails`, `MarkSent`, `Remember`, `Confirm`, `Publish`, `AfterSendFails`, `MarkFailed` | the `try` block from the socket call on, and its `catch` |
| `Abort` | a crash, or an exception that escapes `deliverNext` |
| `Inbound`, `OptOut`, `RejectSale`, `PauseAutomation`, `ResumeAutomation`, `ResumeByInstruction`, `DeleteChat`, `RestoreChat` | every writer of those conversation fields |
| `RouteEcho` | a `fromMe` event reaching the router, at any time after the send |
| `Tick` | one unit of time and the business's local hour |

Time is kept relative and each quantity saturates one past the last value the
code tells apart, so the state space needs no horizon. Contacts, text, media,
providers' ids and the random part of a delay are left out; whether a row can be
delivered at all is a choice (`Undeliverable`). The attempts of a row are
counted past the limit, as the code's `$inc` does; `MaxClaims`, which exceeds
`MaxAttempts`, is where the count saturates, and no guard tells the counts at or
above the limit apart.

`DeliveryContract` is what the rest of the system may rely on: a row is
`absent`, `pending`, `sent` or `dropped`; it is tried at most `Limit` times; it
becomes `sent` only if it reached the lead; a closed row stays closed. The
refinement maps a row marked sent to `sent` only once no runner works on it,
which is the weakest reading under which the code keeps the contract (section 6
says what happens before that).

### SessionManager

One account. `account` is its document, `current` its entry in the sessions map,
`sess` the `ManagedSession` objects (attempts, timer, socket being opened,
sockets, linked), `calls` the requests being served, `handlers` the connection
updates past their first await. `ConnectAccount`/`StartSession`/`Opened`/
`ConnectFails` are `connectAccount`; `FireTimer`/`ReconnectFails` are the timer
of `scheduleReconnect`; `ConnectionUpdate`/`Handled`/`HandlerFails` are the
halves of `applyConnectionUpdate` before and after its write; `DisconnectAccount`/
`ResumeAccount`/`StopWritten`/`RequestFails` are the account operations;
`Restart` is the process stopping and `reconnectPersistedSessions`. A session
object that nothing refers to may stand for a new one, so `Sessions` bounds how
many exist at a time. The library is external: it closes a socket it reports as
closed, and reports in any order otherwise.

### OwnerApproval

One conversation, both services. `thread` is the graph's latest checkpoint
(finished, unfinished or paused, and the draft in it), `orphans` the runs whose
caller has given up, `cards` and `queue` the two collections, `reviews`, `turns`
and `readers` the activities, and texts are numbers. `TurnStarts` …
`TurnRecords`, `TurnFails` are `handleInboundMessageForAutomation`;
`InstructionTurn` is `resumeEscalatedConversationWithInstruction`; `Look` …
`CloseCard`, `ReviewFails` are `resolveApprovalForActor`; `AnswerHandover` is
`applyHandoverDecision`; `ReadStarts`/`ReadRaises` are `checkOutcomeForActor`
and the morning read; `LeadRun`, `Resumed`, `ResultToResponse` and
`OwnerDecisionResponse` are `graph.py`, `nodes.py` and `main.py`.

Assumptions: the thread exists; resuming a finished thread runs nothing and
returns its state, resuming an unfinished one goes on with it (any outcome of a
lead's run); checkpoints survive a restart (the compose file configures the
Postgres checkpointer). What the model decides is a choice. Approval codes and
their matching are left out: a decision looks at the open card and later
decides on that card.

`lost` is set when an unfinished run, or the answer to an edit or a skip, is
given up. From then on the card may show a draft the graph no longer holds, so
`SentAsReviewed`, `OpenCardIsTheGraphs` and `QuestionsAreNotDrafts` except it.

### InboundTurn

One conversation, from the lead's messages to the turns of the sales agent.
`conv` is the document (automation, opt-out, rejection, whether a message was
heard before), `ingests` the ingestions between two awaits with the document
they read, `window` and `flushes` the pending burst and the chain of turns in
memory. `Load`, `Store`, `Preview`, `ReadForm`, `Silence` and `Collect` are
`ingestInboundMessage` in its order; `Fire` is the timer; `Begin`, `Judge`,
`Reject`, `Gate` and `Answer` are the flush: the closure of the burst's last
message, `detectSalesRejection` and `handleInboundMessageForAutomation`.
`IngestFails`, `RejectFails` and `FlushFails` are the three places that catch an
exception; `Restart` is the process stopping. `SetAutomation` and
`OwnerInstructs` are the other writers of what a turn reads.

A message may be delivered any number of times, also at the same time. A turn
works on the snapshot of its last collected message, which need not be the
newest one. Whether a card is open and what the model answers are choices
(`OwnerApproval` models both). What ingestion also writes and no turn reads is
left out: contact, media, lead score, the new-lead alert's claim, the mark that
ends the call-scheduling chase.

### FollowUps

One lead being chased. `conv` is what the three activities read and write of the
conversation; `promisers` and `nurturers` are the sweeps between two awaits;
`turn` and `retries` are the extraction of promises from each message the lead
wrote, at once or when the queue reads it again; `keys` the idempotency keys in
the outbound queue. `Anchor`, `NextSlotAfter`, `DueAtForStep` and `NudgeIsDue`
are `silence-schedule.ts`, with its slots, its least gap and the event that ends
the cadence. `FindDuePromise` … `DropPromise` are `promise-follow-up.service.ts`,
`DecideCold` … `NurtureFails` `nurture-sweep.service.ts`, `TurnCommits` …
`RetryEnds` `lead-commitment.service.ts` and its retry. The lead writes, opts
out, rejects; the owner writes, takes over, changes the stage, deletes. The text
of a message is a model call: whether it comes is a choice. Time is absolute and
bounded; the provider's timestamp of a message is its arrival time here.

### The background services (Background)

Eleven services that share no state with each other in the models. Each has a
module of its own; `Background` holds the state of all and a variable `which`
that is chosen at the start: the chosen service moves and the others stay as they
begin. One run so explores every service in full, at the sum of their costs. It
is a union and not a composition: no step of one service is seen by another.

| Module | Code | State and steps |
|---|---|---|
| AuthSessions | `auth/auth.service.ts`, `refresh-session.repository.ts` | `session`, `family`; a request reads (`ReadsForRefresh`, `ReadsForLogout`) and one await later writes (`Rotates`, `LosesRotation`, `Compromises`, `ClosesById`), each transaction one step |
| ReminderSweep | `followups/reminder-sweep.service.ts`, `follow-up-task.repository.ts` | `todo` the tasks, `sweeper` the stage of a delivery: claim, push, mark, WhatsApp, record, finish; `Move` and `Closes` by the owner at any time |
| HandsetAlarms | `src/frontend`: `useReminderAlarms.ts`, `reminder-alarms.ts`; `reminder-sync.service.ts` | `phone` the running sync (page, cancel, schedule, store, cursor), `alarms` and `armed` on the phone, `fresh` what was written since its cursor; the app is killed between any two |
| NextFollowUp | `followups/next-follow-up.service.ts` and its callers | `due` of each task, `hint` on the conversation; a request changes a task, `Reads`, `Stores`; two callers never sync |
| CommitmentRetry, LeasedJob | `followups/commitment-retry.*` | a row with lease, token and attempts; `LeasedJob` is the abstract queue it implements, with `ended` and `holder` read off row and tokens |
| RealtimeOutbox | `realtime/realtime-outbox.*`, `realtime.publisher.ts` | a row with lease and attempts, no token: a publisher past its lease settles another's row |
| MetaPoll | `lead-sources/meta-lead-import.service.ts`, `meta-graph.client.ts` | `source` the stored progress, `poll` what a tick holds: form, pages, imports, cursor or watermark; a page may be cut in the middle by the cap, and the cursor is that of its end (`AfterPage`); `whole` says that Meta fills its pages, `skipped` which leads were cut off behind a stored cursor; leads arrive, come by webhook, fail |
| LeadIntake | `lead-sources/lead-pipeline.service.ts`, `ai-brain/new-lead-alert`, `auto-greet-sweep`, `imported-lead-greeting` | `thread` the person's conversation; `door` an import between ledger, alert, notification and booking; `opener` a greeting sweep |
| CallChase | `lead-sources/call-scheduling*.ts` | `attempt` the chase of one submission with lease and token; look, owner's task, gate, message, settle |
| EventReminder | `ai-brain/event-reminder.service.ts` | `won`, `ahead` the bookings, `reminded` the claims; look, claim, notify, hand back. A window of 24 hours is one unit of time |
| OwnerCall | `ai-brain/owner-call-escalation.service.ts`, `calls/vapi.client.ts` | `lead` alert, claim, call id and outcome; `heard` the owner's last activity; a sweep reads back, looks, claims, dials, notes. The telephony service is external (`line`) |

Leases and backoffs that are long or short beside everything else in their
module are "not yet" or "past" and not numbers; batch limits above the number of
items in the instance are left out.

## 4. The runs

| Run (`…_<run>.cfg`) | Question | Bounds |
|---|---|---|
| OutboundDelivery `queue` | closed rows stay closed; the queue implements its contract; every accepted row is closed in the end; types | 1 runner, one row of the agent's or of the staff's (`OneRow`), 3 attempts, lease 2, backoff 2 capped at 3, a 3-hour day with one quiet hour, 1 abort, fairness |
| `runners` | late replies, exclusive claims, honest records | 2 runners (symmetric), one AI row, 3 attempts, lease 2, quiet hours, 2 aborts |
| `resend` | a statement of a comment that the code does not keep | as small as shows it; no aborts needed |
| SessionManager `recovers` | one thing at a time; recovery; types | 2 session objects, 1 caller plus the startup, 1 reconnect, 1 fault, fairness |
| OwnerApproval `reviewers` | what is approved goes out once and, for one person at a time, unchanged; the services agree | two settings: one person at a time, 3 texts, 2 faults; or 2 reviewers (symmetric) and a reader at once, 2 texts, no faults; 1 turn |
| `unreviewed` (module OwnerApproval) | a card from outside the graph sends an unreviewed text | 1 of each, no faults |
| InboundTurn `turns` | one answer per message, serial turns, opt-out and rejection respected, every message considered | 2 messages, any of which ask to stop, 2 ingestions at a time, 1 fault, fairness |
| FollowUps `chase` | one message for each promise, none after an answer, nudges counted as queued, promises end | 2 messages, 2 promise sweeps, 1 nurture sweep, 2 nudges, 2 readings, clock to 2, 1 change, 1 fault, fairness |
| Background `background` | each service's own promise (below); what is taken up comes to an end | 1 or 2 items, 2 workers, 1 or 2 mishaps each, 2 tries; see `Background.tla`; fairness |
| MetaPoll `overtaken` | a poll cut short moves the watermark all the same | no history, 2 forms, 4 leads, 1 lead a poll |
| `skipped` (module MetaPoll) | the cap cuts a page and the walk resumes behind it | history of 5 leads of one form, pages of 2, 2 pages and 3 leads a poll, no failures |
| OwnerCall `called` | an owner who saw the alert is rung | 1 lead, 1 sweep, delay 1, clock to 3, no slips |

What `background` asks, service by service:

| Property | Promise |
|---|---|
| `SoundFamilies` | a family has at most one session that can be used, and none once it was compromised |
| `RetiredWithVerdict` | a retired reminder has a verdict and "sent" means sent, unless it was moved or claimed again under a delivery |
| `InStep`, `NeverStacked` | between syncs the phone rings for exactly what the server has, wherever earlier syncs were cut off; no alarm is armed on top of one pending |
| `SelfHeals` | a sync nothing disturbed leaves the hint equal to the earliest due time, whatever races came before |
| `OnlyTheHolderEnds` | the retry queue implements `LeasedJob` |
| `PublishedWasTold` | a row marked published went out, at most once for each try |
| `HistoryFirst` | no watermark while a lead of the source's history was neither looked at nor cut off in mid-page; where Meta fills its pages and they add up to the cap, all were looked at |
| `OneOpening` | one alert for a person, and one greeting for each that was not handed back |
| `CompletedMeansDone` | a chase called completed gave the owner the task and the lead the message |
| `ToldOnceAndNotLost` | a claim that stands has told the owner, and twice only for a send that threw after it had gone out |
| `RingsSparingly` | one call for a lead; a second call of one sweep takes a call that was placed unnoticed or could not be noted |
| `WorkEnds` | reminders due, messages to be read again, signals with tries left, the walk of a source's history (what the cap cut off a page excepted, see `skipped`), chases, booked greetings and calls whose outcome can be read all come to an end |

Why the bounds are enough to meet the hard cases:

- *Delivery.* Rows interact only through a runner's choice of the oldest and the
  deletion of their chat, and each row's own promise is the same whichever is
  chosen: `queue` and `runners` have one row, `resend` two, and theorems
  `LoneRunnerClosesForGood` and `LoneRunnerKeepsContract` hold for any number; that
  a row is closed in the end, `SettlesEveryRow`, is checked of a row by itself. Two
  attempts are the least at which a retry and a last attempt differ; three, a
  capped and an uncapped backoff. A lease of 2 lets a runner be inside, at, and past
  it. Two runners are needed for `OneLateReply`, `ExclusiveClaim` and
  `HonestRecords`; the theorems cover every number.
- *`ClosedForGood`, `KeepsContract`, `SettlesEveryRow` are stated for one
  runner*, which is how the service is deployed (one process; the tick refuses to
  overlap itself). With two, a runner that outlives its lease writes over a row
  the other has closed: no status write looks at the status it replaces.
- *Sessions.* Two objects at a time are what a replaced session and its
  successor need. With `MaxReconnects = 1` the first failure schedules and the
  second gives up. `recovers` has one request at a time: two overlapping
  connects give one account two sockets (section 6).
- *Approvals.* Three texts are a draft, its revision and the next turn's; two
  faults allow a lost answer and then a lost write after it. `crowd` chooses the
  setting at the start. In a crowd there are no faults, since theorem `OneSend`
  covers them for any number of reviewers, and a VIEW drops the texts of the
  history, which no action reads and `OneSendPerCard` does not ask for. The
  `Alone…` properties speak of the other setting: `unreviewed` shows a reader
  breaking the first of them, and with two reviewers one edits while the other
  approves what is on the screen.
- *Turns.* Two messages give one burst of two, two bursts of one, a stop before,
  after or within a burst, and two deliveries of one message at a time. Which of
  them ask to stop is part of the initial state, so one run has all the cases.

- *Chasing.* Two messages give a promise answered, moved or superseded by a
  second; two promise sweeps race for one claim; the clock reaches past the first
  follow-up, its slot and the latest time a promise may be kept; one fault is a
  crash between any two steps of a sweep.
- *Background.* Two workers and one item are what an expired lease needs: the
  first writes after the second has claimed. Two tries make the first and the last
  differ. Sessions are three, for a founder, its successor and a replay; the forms
  of a source are two, with four leads of history and one more, pages of two and at
  most two pages and four leads a poll: a poll takes a form in part or whole and is
  cut at a page's end or, after a page Meta did not fill, in the middle of one;
  bookings and
  leads are two, so that a sweep goes on from a failure to the next. One or two
  mishaps allow a failure and a failure of its repair.

Deadlock is checked in every run but `background` and `called`: a service with
nothing to do and a clock at its bound really stops there.

**Fairness.** Delivery: the interval fires every few seconds, so each runner
goes on (`WF(Deliver)`), and time passes (`WF(Tick)`). Strong fairness for
claiming, checking and holding *in allowed hours* says that the process does
not work at night only: an iteration takes seconds and the hours in which
sending is allowed are long; without it a behaviour in which every look at the
row falls in quiet hours would be allowed. Sessions: awaits end, timers
fire, and a socket that does not get through is closed by the library in the
end (an unscanned QR code times out). Inbound turns: awaits
end and the window's timer fires in the end, that is, the lead stops typing at
some time (the code sets no longest wait). Chasing and background: each runner's
interval fires and its awaits end, leases and backoffs run out, and the clock goes
on to its bound; of a sweep only the progress of its steps is assumed, never that
a send, a push, a page or a model call succeeds. No fairness is assumed of what leads
and people do otherwise, nor of crashes or faults. `EveryMessageIsConsidered` excepts what a restart
or a failed ingestion took, since the code loses those turns (two hazards record
it). `RecoversOrIsDropped` is promised only while no status write
has thrown: the one that does stops the update before it reconnects (a hazard
records it).

## 5. The proofs

For every value of the constants that the named assumptions allow.

| Theorem | Statement | Inductive invariant |
|---|---|---|
| `OutboundDeliveryProofs!TypeCorrect` | `Spec => []TypeOK`: types only, the limit on tries is `LoneRunnerKeepsContract`'s | `TypeOK` |
| `AtMostOneLateReply` | `Spec => []OneLateReply` | `LateInv`: a runner about to send has sent that lead nothing since the stop |
| `ClaimIsExclusive` | `Spec => []ExclusiveClaim` | `HeldInv`: within its lease a held row is one no claim, sweep or delete selects |
| `RecordsAreHonest` | `Spec => []HonestRecords` | `ReachedInv`: past a socket call without an error, the row is out |
| `LoneRunnerClosesForGood` | one runner: `Spec => ClosedForGood` | `LoneInv`: a lone runner's row is `sending` or `sent`, whatever its lease |
| `LoneRunnerKeepsContract` | one runner: `Spec => KeepsContract` | `LoneInv`, `ReachedInv` and `TriesInv`: the socket calls of a row are at most its attempts and the limit, fewer while one is still to come; then a step simulation of `DeliveryContract` |
| `SessionManagerProofs!SessionHasOneThingAtATime` | `Spec => []OneThingAtATime` | `Inv`: also, a close being handled is the only thing its session has going |
| `SessionManagerProofs!TypeCorrect` | `Spec => []TypeOK` | `TypeOK` with `Inv`: what a request refers to is a session that exists |
| `OwnerApprovalProofs!TypeCorrect` | `Spec => []TypeOK` | `TypeOK` |
| `OneSend` | `Spec => []OneSendPerCard` | `SendInv`: a review carries a verdict that was given on its card, and a skip is never answered `sent` |
| `SendsWhatWasReviewed` | one turn: `SettingSpec => []AloneSentAsReviewed` | `AloneInv`: while nothing was given up halfway, the open card is the one the graph is paused on, and what a review or turn holds between two calls is what the graph and the card say |
| `ServicesAgree` | one turn: `SettingSpec => []AloneOpenCardIsTheGraphs` | `AloneInv` |
| `QuestionsOnly` | one turn: `SettingSpec => []AloneQuestionsAreNotDrafts` | `AloneInv` |
| `InboundTurnProofs!TypeCorrect` | `Spec => []TypeOK` | `TypeOK` with `OnePlace` |
| `OneAnswer` | `Spec => []OneAnswerPerMessage` | `OnePlace`: a stored message is with one ingestion, in the window, in one turn, answered, or nowhere |
| `OneTurn` | `Spec => []OneTurnAtATime` | `HeadOnly`: only the head of the chain is under way |
| `NoAnswerAfterStop` | `Spec => []StopIsRespected` | `LateInv`: a late message is nowhere but with its own ingestion, which knows |
| `RejectionIsSilent` | `Spec => []RejectingTurnIsSilent` | `RecordedInv`: having recorded a rejection, a turn is at the gate with automation off |
| `FollowUpsProofs!TypeCorrect` | `Spec => []TypeOK` | `IInv`: `TypeOK` with `PromiseIsCurrent`, that an outstanding promise names its message and was written after all the lead has said |
| `OneMessage` | `Spec => []OneMessagePerCommitment` | `PromiseKeyed`: a commitment a message was queued for has its key in the queue |
| `NoneAfterAnswer` | `Spec => []NotAfterAnAnswer` | `PromiseIsCurrent` |
| `CountedNudges` | `Spec => []CountedNudgeWasQueued` | `NudgeKeyed`: a nudge whose key is taken was queued |
| `BackgroundProofs!TypesAreRight` | `BackgroundSpec => []TypesOK` | `ServicesInv`: the invariants of the rows below together; no attempt, claim or mishap is counted past its bound |
| `FamiliesAreSound` | `[]SoundFamilies` | `SessionsInv`: a used session's founder is used, so no sign-in or rotation meets a family of its own id |
| `SignalsWereTold` | `[]PublishedWasTold` | `OutboxInv`: the sends of a row and the publishers about to make one are together at most its attempts |
| `RemindersEndWithVerdict` | `[]RetiredWithVerdict` | `SweepInv`: on a reminder nobody disturbed one sweeper is at work, and its stage says what the row has |
| `HandsetsAreInStep`, `AlarmsAreNeverStacked` | `[]InStep`, `NeverStacked` | `HandInv`: at each stage of a sync, a reminder not yet dealt with is still listed, later, or written since the cursor |
| `EventsAreTold` | `[]ToldOnceAndNotLost` | `EventInv`: a claim in hand is nobody else's, and one that stands with nobody at work on it has told |
| `ImplementsLeasedJobs` | `OnlyTheHolderEnds` | `QueueInv`: a token was given once, and only a claimed row has one; then a step simulation of `LeasedJob` |
| `HistoryComesFirst` | `[]HistoryFirst` | `PollInv`: what a poll was to read it has fetched or cut off, down to the place of its walk; what the cursor has passed was looked at or skipped. `FitInv`: with full pages that add up to the cap, what was fetched is a whole number of pages, so nothing is cut |
| `OneAlertOneOpening` | `[]OneOpening` | `IntakeInv`: before a claim nobody is about to act, after it one is, or nobody and it was done at most once |
| `CompletedIsDone` | `[]CompletedMeansDone` | `ChaseInv`: a sweep past the task or the message has seen it written, and its token is no newer than the row's |
| `HintsHeal` | `[]SelfHeals` | `HintInv`: a sync nothing disturbed carries what is the earliest due time now |
| `OwnerIsRungSparingly` | `[]RingsSparingly` | `CallInv`: who is about to ring holds the claim alone, and a sweep that may ring again has a call behind it that it does not know of |

None of the four properties of delivery is inductive. `OneLateReply` counts
sends and says nothing of the runner that is about to make one; `ExclusiveClaim`
says who holds a row, not that the row looks held to the database;
`HonestRecords` needs to know which stages come after a successful call;
`ClosedForGood` needs that the row a runner is about to write is not a closed
one. `InboundTurn`'s `TypeOK` is not inductive either: that what is done or lost
was stored depends on where the message was. `DeliveryContract`'s limit on
tries needs `TriesInv`, since the code counts claims and the contract counts
socket calls: the hold of a quiet hour and an expired lease use up a claim
without a call, so the two counters drift apart in one direction only. The
strengthenings are in `OutboundDelivery` and `InboundTurn` next to the
properties; those of the other modules precede the lemmas that keep them. Each
proof has one step (or a lemma) per action, framing lemmas for what leaves the
invariant's variables alone, and ends with the temporal rule from `Init`, the
step and the implication.

*The background services* are proved where they run together. A step of
`Background` is, for each service, a step of its own `Next` or a stutter of its
own variables (`ServicesStep`); the invariant `ServicesInv` is the conjunction of
eleven, each kept by the steps of its own service alone. `LeadServicesProofs`
(MetaPoll, LeadIntake, CallChase, OwnerCall, NextFollowUp) and
`ReminderServicesProofs` (ReminderSweep, HandsetAlarms, EventReminder,
CommitmentRetry) hold for each service three lemmas, `…Starts`, `…Step` and
`…Promises`: the invariant begins, is kept, and implies what is promised.
`BackgroundProofs` adds RealtimeOutbox and AuthSessions and draws the
conclusions. Since the lemmas speak of a service's own variables and
`[Next]_vars`, they hold of the service by itself as well.

*The hypotheses.* A runner alone (`Runners = {w}`) is how the service is deployed:
one process, and a tick that refuses to overlap itself; a second one breaks
`ClosedForGood` and `KeepsContract` once it outlives its lease. One turn
(`Turns = {t}`) is the sales agent's turn of a conversation at a time, which
theorem `OneTurn` shows of the chain of flushes; a turn finishes and the next
begins, any number of times. The one way to two at once is an owner's instruction
that arrives during a lead's turn, which no chain serialises. Then two runs are on
one thread, and TLC shows a turn that queues as a question a text on which the
graph paused for review in the other (`AloneQuestionsAreNotDrafts`, no faults
needed). One person (`~crowd`) is needed too, as section 4 says.

Assumptions used: `MessagesAssumption`, `LimitsAssumption`, `ClockAssumption`,
`SessionsAssumption`, `FaultsAssumption`, `BoundsAssumption`, of FollowUps
`MessageAssumption`, `ScheduleAssumption` and `BoundAssumption`, and of the
background services `BoundsAreSound`, which gathers theirs in `Background`. All
are checked by TLC on the instances. They say of what kind the constants are
(limits are numbers, and positive where zero would mean that nothing is tried;
a set that is counted is finite) and not how large.

*Model-checked only.* Liveness: `SettlesEveryRow`, `RecoversOrIsDropped`,
`EveryMessageIsConsidered`, `PromiseEnds`, `WorkEnds`. The prover has no rule for
fairness and `ENABLED`. Every safety invariant and action property of a passing
run is a theorem.

## 6. What the checks found

Five statements of the repository's comments are not what the code does. Each is
a run that TLC ends with a counterexample and a finding in `PROJECT.json`.

| Run | The repository says | The code |
|---|---|---|
| `resend` | bookkeeping must not turn a delivered message into a failed one | the read in `publishStatusChange` is inside the same `try`: a throw marks the sent row failed, and it goes out again |
| `unreviewed` | every sales reply waits for the owner's approval | a reply card from an outcome check or the morning read is resolved through the graph, which answers with the draft it was left with |
| `overtaken` | a poll cut short withholds the watermark (`meta-lead-import.service.ts:298`) | the incremental branch records the newest lead whatever `truncated` says, and leads it did not fetch are never asked for again |
| `skipped` | a truncated walk is resumed exactly where it stopped (`meta-graph.client.ts:418`), and the watermark is not touched while history remains (`meta-lead-import.service.ts:170`) | the cap drops the rest of a page, the cursor is that of the page's end and `truncated` comes from `paging.next` alone: the leads cut off are never read, and the last page counts as the end of its form |
| `called` | the owner is rung when they have not touched WhatsApp since the alert (`owner-call-escalation.service.ts:2`, `:275`) | the last activity is compared with now less the delay, and not with the alert: an owner who answered and then rested is rung |

Others the models have as behaviours, without a run of their own.

- *Echo* (`echo-guard.service.ts:27`): the id of a sent message is remembered two
  writes after the send, so an earlier reflection is taken for the owner's and
  switches automation off.
- *Sessions* (`session-manager.service.ts:151`): two connects both pass the check
  of the map, and one account has two sockets.
- *Rejections*: a turn whose rejection another turn recorded first is told there
  was none, and answers on its old copy of the conversation.
- *Instructions* (`ai-brain.service.ts:786`): the turn of an owner's instruction is
  not in the chain of the lead's turns; a message meanwhile puts a second run on
  the thread, and the text one run paused on can go out as the other's question.
- *Queue* (`message.repository.ts:515`, `:467`): a quiet-hours hold keeps the
  attempt the claim has counted, though its comment says it is not counted: one
  night and one failed send close a row of two attempts after a single socket
  call. A queued row is claimed whatever its count, so after enough holds
  `deliveryAttempts` passes the limit, and the next failure is the last. A row
  being sent while its chat is deleted waits again when the send fails.
- *Lead pipeline* (`lead-pipeline.service.ts:11-14`): after a crash between the
  ledger row and the bookings the next poll sees a duplicate, so neither alert
  nor greeting is made up for. An alert's claim is kept when the notification
  fails, and a greeting's when the consent is off.
- *Meta polls*: with the default cap of 200 and pages of 100 nothing is cut as long
  as Meta fills its pages, which its API does not promise; `HistoryFirst` and
  theorem `HistoryComesFirst` state both cases.
- *Meta watermark*: one serves several forms; an overlapping manual sync can
  store one form's cursor for another (not modelled: one poll at a time).
- *Call chase*: a crash between the gate and the message lets the next sweep settle
  the attempt as replied though nobody replied; a reply after the gate is still
  followed by "we have not received your response".
- *Chasing*: the nudge's count is written without a compare after a reply; a
  crash between a promise's claim and its message loses the promise.
- *Hint* (`next-follow-up.service.ts`): it can drift through overlapping syncs,
  and where the owner's command and a superseding promise do not sync.
- *Reminders*: `finishReminderDelivery` is unconditional, so one moved under a
  delivery is retired at its new time, unsent; a sync without permission moves
  the cursor past what it did not arm.
- *Event reminder*: a crash, or a hand-back that fails, after the claim loses the
  one reminder; a date moved after it brings no second.
- *Owner's call*: the comment at `:324` gives one call at a time as the reason for
  one call a tick, but a second process, a next tick while the phone rings, or a
  bookkeeping write that fails makes two at once.
- *Outbox*: a row handed back after its last try stays pending for ever.
- *Auth*: a sign-out that has read the old session leaves the successor of a
  rotation in between active.

## 7. What is not modelled

`PROJECT.json` lists every component with its status. The map names about a tenth
of the repository's implementation lines. Most of the rest is the web frontend,
analytics, serializers, validation, routes, models of external services' answers
and CRUD: storage, pure I/O, data transformation or one write per request, with no
protocol a model would say more about than the code. What has some protocol and is
left out, with the reason:

- *Payment follow-up and booking countdown* (`ai-brain/payment-followup.service.ts`,
  `booking-countdown.service.ts`). Both call the owner's notification without an
  account (`:196`, `:148`), and `sendTextMessage` throws for an account it does not
  know (`session-manager.service.ts:486-494`). As wired, the payment question is
  never delivered, its claim always goes back, and no answer with a code can come;
  a faithful model would never leave its first states.
- *Call records* (`calls/`): the outcome dialog writes call, stage, mode and
  reminder one after the other, and a retry without an id makes a second record; no
  text says what should hold between them.
- *Limits of the owner's call sweep*: it reads back ten calls at a time, oldest
  claim first, so ten calls the telephony service can never answer for would keep
  later ones unread; OwnerCall has fewer leads than that.
- *Login limits*: a counter and its expiry are two Redis calls; a crash between them
  leaves a counter that never expires.
- *WhatsApp key store*: one upsert per key; a `saveCreds` that is not waited for can
  write after a deletion.
- *Delivery runner*: the loop over several accounts and the per-minute limit.
- *Composition*: the turns of an owner's instruction with a lead's
  (`InstructionTurn` is in OwnerApproval, its effects in InboundTurn); the chase,
  the greeting and the queue (their messages are keys or flags here).
- *Import*: sheets, CSV, OAuth, activation, the allowlist, field mapping.
- Media, drafts and knowledge base, subscriptions, digests and the hot-lead alert,
  privacy, audit, encryption, the CRM API.

## 8. The plan

1. *Proofs*: what of `KeepsContract` and `ClosedForGood` is left with two
   runners; the step that liveness rests on, that what is under way has a next
   step or waits for time alone, as an invariant without `ENABLED`.
2. *Composition*: LeadIntake's greeting, FollowUps' nudges and OutboundDelivery's
   queue on one conversation, to ask for one message after an opt-out across all.
3. *MetaPoll* with an overlapping manual sync, and sources of several forms whose
   times interleave.
4. *Several accounts* of one delivery runner, with the limit per minute.
