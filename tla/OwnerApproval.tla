----------------------------- MODULE OwnerApproval -----------------------------
(***************************************************************************)
(* Drafted replies and their review, for one conversation.  Two services   *)
(* take part: ai-brain-service keeps the conversation's LangGraph thread,  *)
(* which pauses on a draft; the backend keeps the approval cards a person  *)
(* decides on (ai-brain.service.ts, ai-brain-approval.repository.ts,       *)
(* owner-approval-card.service.ts, handover-read.service.ts).              *)
(*                                                                         *)
(* A text is a number, given out in order; 0 is the empty text.  A step is *)
(* what runs between two awaits of the backend, or an invocation's start,  *)
(* end or answer in the other service, which serves requests in parallel.  *)
(***************************************************************************)
EXTENDS Naturals, Sequences, FiniteSets

CONSTANTS
    Reviewers,  \* decisions being made at a time, from dashboard or WhatsApp
    Turns,      \* runs of handleInboundMessageForAutomation at a time
    Readers,    \* outcome checks and morning reads at a time
    MaxTexts,   \* bound on texts the model writes
    MaxFaults   \* bound on failed calls and writes

ASSUME BoundsAssumption == MaxTexts \in Nat /\ MaxFaults \in Nat

VARIABLES
    thread,      \* the latest checkpoint of the conversation's graph
    orphans,     \* invocations whose caller has given up on them
    cards,       \* the approvals of the conversation, oldest first
    queue,       \* AI messages queued: the card they answer (0: none), the text
    automation,  \* conversation.aiAutomationEnabled
    reviews,     \* decisions in progress
    turns,       \* lead turns in progress
    readers,     \* outcome checks and morning reads in progress
    texts,       \* texts written so far
    faults,      \* failures so far
    decided,     \* history: what was decided on which card, looking at which text
    drafts,      \* history: texts the graph has paused on
    lost         \* history: an unfinished run, an edit or a skip was given up

vars == <<thread, orphans, cards, queue, automation, reviews, turns, readers,
          texts, faults, decided, drafts, lost>>
backend == <<cards, queue, automation>>
history == <<decided, drafts, lost>>

-----------------------------------------------------------------------------
(* Values.                                                                 *)

Verdicts == {"approve", "edit", "skip"}
Text     == 0 .. MaxTexts
Checkpoint == [at : {"done", "busy", "paused"}, draft : Text]
At(at, draft) == [at |-> at, draft |-> draft]
Idle == [stage |-> "idle"]

Fresh == texts + 1

\* What an invocation leaves in the thread.  A lead's message starts the graph
\* over: a question, a draft to be reviewed, or an escalation.  A decision
\* resumes what it finds: a pause, the rest of an unfinished run, or nothing.
LeadRun == {At("done", Fresh), At("paused", Fresh), At("done", 0)}

Resumed(found, verdict) ==
    CASE found.at = "done"   -> {found}
      [] found.at = "busy"   -> LeadRun
      [] found.at = "paused" -> {CASE verdict = "approve" -> At("done", found.draft)
                                   [] verdict = "edit"    -> At("paused", Fresh)
                                   [] verdict = "skip"    -> At("done", 0)}

Outcomes(run) == IF run.op = "lead" THEN LeadRun ELSE Resumed(run.found, run.op)

Begun == IF thread.at = "done" THEN thread ELSE At("busy", thread.draft)

-----------------------------------------------------------------------------
(* Cards.                                                                  *)

IsPending(n) == cards[n].status = "pending"
Open         == {n \in DOMAIN cards : IsPending(n)}
OpenCard     == CHOOSE n \in Open : TRUE

Card(draft, kind) ==
    [draft |-> draft, kind |-> kind, status |-> "pending", resolution |-> "none"]

\* Mutant: a second card beside the open one.
UpsertAlwaysInserts(draft, kind) == Append(cards, Card(draft, kind))

\* upsertPendingApproval: the open card is rewritten, or a new one opened.
Upserted(draft, kind) ==
    IF Open = {} THEN Append(cards, Card(draft, kind))
                 ELSE [cards EXCEPT ![OpenCard] = Card(draft, kind)]

\* Mutant: the idempotency key is new with every call.
EnqueuedAgain(card, text) == Append(queue, [card |-> card, text |-> text])

\* enqueueOutboundMessage: a key that is there already adds nothing.
Enqueued(card, text) ==
    IF card # 0 /\ \E i \in DOMAIN queue : queue[i].card = card
    THEN queue ELSE Append(queue, [card |-> card, text |-> text])

\* resolveApproval filters on the id alone.
ResolvedCard(card, resolution) ==
    [cards EXCEPT ![card].status = "resolved", ![card].resolution = resolution]

-----------------------------------------------------------------------------
Init ==
    /\ thread = At("done", 0)
    /\ orphans = {}
    /\ cards = <<>> /\ queue = <<>>
    /\ automation = TRUE
    /\ reviews = [d \in Reviewers |-> Idle]
    /\ turns = [t \in Turns |-> Idle]
    /\ readers = [r \in Readers |-> "idle"]
    /\ texts = 0 /\ faults = 0
    /\ decided = {} /\ drafts = {} /\ lost = FALSE

-----------------------------------------------------------------------------
(* The graph.                                                              *)

\* An invocation ends, leaving a checkpoint.
Ends(run, left) ==
    /\ left \in Outcomes(run)
    /\ left.draft <= MaxTexts
    /\ thread' = left
    /\ texts' = IF left.draft > texts THEN left.draft ELSE texts
    /\ drafts' = IF left.at = "paused" THEN drafts \cup {left.draft} ELSE drafts

\* One that nobody waits for ends all the same.
OrphanEnds(run) ==
    /\ run \in orphans
    /\ \E left \in Outcomes(run) : Ends(run, left)
    /\ orphans' = orphans \ {run}
    /\ UNCHANGED <<backend, reviews, turns, readers, faults, decided, lost>>

\* A caller that gives up on an invocation does not stop it.
Abandoned(run) == orphans' \in {orphans, orphans \cup {run}}

-----------------------------------------------------------------------------
(* handleInboundMessageForAutomation.                                      *)

SetTurn(t, value) == turns' = [turns EXCEPT ![t] = value]

TurnStarts(t) ==
    /\ turns[t] = Idle /\ automation
    /\ SetTurn(t, [stage |-> "loaded"])
    /\ UNCHANGED <<thread, orphans, backend, reviews, readers, texts, faults, history>>

\* resumeEscalatedConversationWithInstruction: automation first, then a turn.
InstructionTurn(t) ==
    /\ turns[t] = Idle /\ ~automation /\ Open = {}
    /\ automation' = TRUE
    /\ SetTurn(t, [stage |-> "loaded"])
    /\ UNCHANGED <<thread, orphans, cards, queue, reviews, readers, texts, faults, history>>

\* The turn stops at an open card and at a message it need not answer, and
\* hands over one it cannot read.
TurnChecks(t) ==
    /\ turns[t].stage = "loaded"
    /\ \/ SetTurn(t, Idle) /\ UNCHANGED automation
       \/ Open = {} /\ SetTurn(t, Idle) /\ automation' = FALSE
       \/ Open = {} /\ SetTurn(t, [stage |-> "eligible"]) /\ UNCHANGED automation
    /\ UNCHANGED <<thread, orphans, cards, queue, reviews, readers, texts, faults, history>>

\* lead_message: a new input supersedes whatever the thread was waiting for.
LeadMessage(t) ==
    /\ turns[t].stage = "eligible"
    /\ thread' = At("busy", thread.draft)
    /\ SetTurn(t, [stage |-> "running", run |-> [op |-> "lead", found |-> thread]])
    /\ UNCHANGED <<orphans, backend, reviews, readers, texts, faults, history>>

TurnRunEnds(t) ==
    /\ turns[t].stage = "running"
    /\ \E left \in Outcomes(turns[t].run) :
         /\ Ends(turns[t].run, left)
         /\ SetTurn(t, [stage |-> "answering", left |-> left])
    /\ UNCHANGED <<orphans, backend, reviews, readers, faults, decided, lost>>

\* Mutant: a pause is not looked for; the run's own text is the answer.
ResultAsLeft(left) ==
    IF left.draft = 0 THEN [status |-> "escalated", text |-> 0]
                      ELSE [status |-> "asked", text |-> left.draft]

\* _result_to_response looks at the thread again, not at its own run.
ResultToResponse(left) ==
    CASE thread.at = "paused" -> [status |-> "awaiting_approval", text |-> thread.draft]
      [] thread.at # "paused" /\ left.draft = 0 -> [status |-> "escalated", text |-> 0]
      [] OTHER -> [status |-> "asked", text |-> left.draft]

TurnAnswers(t) ==
    /\ turns[t].stage = "answering"
    /\ LET reply == ResultToResponse(turns[t].left)
       IN  SetTurn(t, [stage |-> "replied", status |-> reply.status, text |-> reply.text])
    /\ UNCHANGED <<thread, orphans, backend, reviews, readers, texts, faults, history>>

TurnRecords(t) ==
    /\ turns[t].stage = "replied"
    /\ \/ /\ turns[t].status = "asked"
          /\ queue' = Enqueued(0, turns[t].text)
          /\ UNCHANGED <<cards, automation>>
       \/ /\ turns[t].status = "awaiting_approval"
          /\ cards' = Upserted(turns[t].text, "reply")
          /\ UNCHANGED <<queue, automation>>
       \/ /\ turns[t].status = "escalated"
          /\ automation' = FALSE
          /\ UNCHANGED <<cards, queue>>
    /\ SetTurn(t, Idle)
    /\ UNCHANGED <<thread, orphans, reviews, readers, texts, faults, history>>

\* Whatever throws, the turn is dropped.
TurnFails(t) ==
    /\ turns[t] # Idle /\ faults < MaxFaults
    /\ faults' = faults + 1
    /\ SetTurn(t, Idle)
    /\ IF turns[t].stage = "running"
       THEN Abandoned(turns[t].run) /\ lost' = TRUE
       ELSE UNCHANGED <<orphans, lost>>
    /\ UNCHANGED <<thread, backend, reviews, readers, texts, decided, drafts>>

-----------------------------------------------------------------------------
(* resolveApprovalForActor.                                                *)

SetReview(d, value) == reviews' = [reviews EXCEPT ![d] = value]

\* Somebody reads the open card, on the dashboard or by its WhatsApp code.
Look(d) ==
    /\ reviews[d] = Idle /\ Open # {}
    /\ SetReview(d, [stage |-> "looking", card |-> OpenCard, text |-> cards[OpenCard].draft])
    /\ UNCHANGED <<thread, orphans, backend, turns, readers, texts, faults, history>>

\* The decision names the conversation: whichever card is open then is decided.
Decide(d, verdict) ==
    /\ reviews[d].stage = "looking"
    /\ IF Open = {}
       THEN SetReview(d, Idle) /\ UNCHANGED decided
       ELSE /\ SetReview(d, [stage |-> "decided", card |-> OpenCard, verdict |-> verdict])
            /\ decided' = decided \cup
                 {[card |-> OpenCard, verdict |-> verdict, text |-> reviews[d].text]}
    /\ UNCHANGED <<thread, orphans, backend, turns, readers, texts, faults, drafts, lost>>

\* owner_decision: Command(resume=...).
Resume(d) ==
    /\ reviews[d].stage = "decided"
    /\ thread' = Begun
    /\ SetReview(d, [stage |-> "resuming", card |-> reviews[d].card,
                     run |-> [op |-> reviews[d].verdict, found |-> thread]])
    /\ UNCHANGED <<orphans, backend, turns, readers, texts, faults, history>>

ReviewRunEnds(d) ==
    /\ reviews[d].stage = "resuming"
    /\ \E left \in Outcomes(reviews[d].run) :
         /\ IF reviews[d].run.found.at = "done"
            THEN UNCHANGED <<thread, texts, drafts>>
            ELSE Ends(reviews[d].run, left)
         /\ SetReview(d, [stage |-> "answering", card |-> reviews[d].card,
                          verdict |-> reviews[d].run.op, left |-> left])
    /\ UNCHANGED <<orphans, backend, turns, readers, faults, decided, lost>>

\* Mutant: a skipped draft is answered like an approved one.
OwnerDecisionSent(verdict, left) ==
    IF thread.at = "paused" THEN [status |-> "awaiting_approval", text |-> thread.draft]
                            ELSE [status |-> "sent", text |-> left.draft]

\* owner_decision looks at the thread again, then at the verdict.
OwnerDecisionResponse(verdict, left) ==
    CASE thread.at = "paused" -> [status |-> "awaiting_approval", text |-> thread.draft]
      [] thread.at # "paused" /\ verdict = "skip" -> [status |-> "skipped", text |-> 0]
      [] OTHER -> [status |-> "sent", text |-> left.draft]

ReviewAnswers(d) ==
    /\ reviews[d].stage = "answering"
    /\ LET reply == OwnerDecisionResponse(reviews[d].verdict, reviews[d].left)
       IN  SetReview(d, [stage |-> "replied", card |-> reviews[d].card,
                         verdict |-> reviews[d].verdict,
                         status |-> reply.status, text |-> reply.text])
    /\ UNCHANGED <<thread, orphans, backend, turns, readers, texts, faults, history>>

\* Mutant: an edit is recorded as an edit.
ResolutionAsGiven(verdict) == verdict

Resolution(verdict) == IF verdict = "edit" THEN "approve" ELSE verdict

\* The revised draft becomes the open card.
RecordRevision(d) ==
    /\ reviews[d].stage = "replied" /\ reviews[d].status = "awaiting_approval"
    /\ cards' = Upserted(reviews[d].text, "reply")
    /\ SetReview(d, Idle)
    /\ UNCHANGED <<thread, orphans, queue, automation, turns, readers, texts, faults, history>>

\* The message is queued in a transaction of its own.
QueueReply(d) ==
    /\ reviews[d].stage = "replied" /\ reviews[d].status = "sent"
    /\ queue' = Enqueued(reviews[d].card, reviews[d].text)
    /\ SetReview(d, [stage |-> "closing", card |-> reviews[d].card,
                     verdict |-> reviews[d].verdict,
                     resolution |-> Resolution(reviews[d].verdict)])
    /\ UNCHANGED <<thread, orphans, cards, automation, turns, readers, texts, faults, history>>

Skipped(d) ==
    /\ reviews[d].stage = "replied" /\ reviews[d].status = "skipped"
    /\ SetReview(d, [stage |-> "closing", card |-> reviews[d].card,
                     verdict |-> reviews[d].verdict,
                     resolution |-> Resolution(reviews[d].verdict)])
    /\ UNCHANGED <<thread, orphans, backend, turns, readers, texts, faults, history>>

CloseCard(d) ==
    /\ reviews[d].stage = "closing"
    /\ cards' = ResolvedCard(reviews[d].card, reviews[d].resolution)
    /\ SetReview(d, Idle)
    /\ UNCHANGED <<thread, orphans, queue, automation, turns, readers, texts, faults, history>>

\* A call or a write throws; a run that had begun may go on by itself.
ReviewFails(d) ==
    /\ reviews[d].stage \notin {"idle", "looking"} /\ faults < MaxFaults
    /\ faults' = faults + 1
    /\ SetReview(d, Idle)
    /\ IF reviews[d].stage = "resuming"
       THEN Abandoned(reviews[d].run) /\ lost' = TRUE
       ELSE /\ lost' = (lost \/ (reviews[d].stage # "decided" /\ reviews[d].verdict # "approve"))
            /\ UNCHANGED orphans
    /\ UNCHANGED <<thread, backend, turns, readers, texts, decided, drafts>>

\* applyHandoverDecision: an answer by WhatsApp to a handover card.  The card is
\* closed some writes later, as QueueReply's is, and the graph is left alone.
AnswerHandover(d) ==
    /\ reviews[d].stage = "looking" /\ IsPending(reviews[d].card)
    /\ cards[reviews[d].card].kind = "handover"
    /\ \E resumes \in BOOLEAN :
         /\ automation' = (automation \/ resumes)
         /\ \E resolution \in {"approve", "skip"} :
              /\ resumes => resolution = "approve"
              /\ SetReview(d, [stage |-> "closing", card |-> reviews[d].card,
                               verdict |-> "approve", resolution |-> resolution])
    /\ UNCHANGED <<thread, orphans, cards, queue, turns, readers, texts, faults, history>>

-----------------------------------------------------------------------------
(* Cards that do not come from the graph.                                  *)

\* The morning read takes conversations the owner has taken over, and skips one
\* with an open card; an outcome check is asked for on the dashboard.
ReadStarts(r) ==
    /\ readers[r] = "idle"
    /\ \/ /\ ~automation /\ Open = {}
          /\ readers' = [readers EXCEPT ![r] = "morning"]
       \/ readers' = [readers EXCEPT ![r] = "outcome"]
    /\ UNCHANGED <<thread, orphans, backend, reviews, turns, texts, faults, history>>

\* The model's reading, one call later: a reply worth sending, a question for
\* the owner, a reason to wait, or nothing.
ReadRaises(r) ==
    /\ readers[r] # "idle"
    /\ readers' = [readers EXCEPT ![r] = "idle"]
    /\ \/ /\ Fresh <= MaxTexts /\ texts' = Fresh
          /\ \/ cards' = Upserted(Fresh, "reply")
             \/ readers[r] = "morning" /\ cards' = Upserted(Fresh, "handover")
          /\ UNCHANGED automation
       \/ /\ automation' = (automation /\ readers[r] # "morning")
          /\ UNCHANGED <<cards, texts>>
       \/ UNCHANGED <<cards, texts, automation>>
    /\ UNCHANGED <<thread, orphans, queue, reviews, turns, faults, history>>

\* setAutomationForActor, and the owner typing to the lead.
SetAutomation ==
    /\ automation' = ~automation
    /\ UNCHANGED <<thread, orphans, cards, queue, reviews, turns, readers, texts,
                   faults, history>>

-----------------------------------------------------------------------------
TurnStep(t) ==
    \/ TurnStarts(t) \/ InstructionTurn(t) \/ TurnChecks(t) \/ LeadMessage(t)
    \/ TurnRunEnds(t) \/ TurnAnswers(t) \/ TurnRecords(t) \/ TurnFails(t)

ReviewStep(d) ==
    \/ Look(d) \/ (\E verdict \in Verdicts : Decide(d, verdict)) \/ Resume(d)
    \/ ReviewRunEnds(d) \/ ReviewAnswers(d) \/ RecordRevision(d) \/ QueueReply(d)
    \/ Skipped(d) \/ CloseCard(d) \/ ReviewFails(d) \/ AnswerHandover(d)

Next ==
    \/ \E t \in Turns : TurnStep(t)
    \/ \E d \in Reviewers : ReviewStep(d)
    \/ \E r \in Readers : ReadStarts(r) \/ ReadRaises(r)
    \/ \E run \in orphans : OrphanEnds(run)
    \/ SetAutomation

Spec == Init /\ [][Next]_vars

-----------------------------------------------------------------------------
(* Properties.                                                             *)

Runs    == [op : Verdicts \cup {"lead"}, found : Checkpoint]
Closed  == {"approve", "skip"}
Cards   == [draft : Text, kind : {"reply", "handover"}, status : {"pending", "resolved"},
            resolution : Closed \cup {"none"}]
Entries(last) == [card : 0 .. last, text : Text]

ReviewStates(last) ==
    [stage : {"idle"}]
    \cup [stage : {"looking"}, card : 1 .. last, text : Text]
    \cup [stage : {"decided"}, card : 1 .. last, verdict : Verdicts]
    \cup [stage : {"resuming"}, card : 1 .. last, run : [op : Verdicts, found : Checkpoint]]
    \cup [stage : {"answering"}, card : 1 .. last, verdict : Verdicts, left : Checkpoint]
    \cup [stage : {"replied"}, card : 1 .. last, verdict : Verdicts, text : Text,
          status : {"awaiting_approval", "skipped", "sent"}]
    \cup [stage : {"closing"}, card : 1 .. last, verdict : Verdicts, resolution : Closed]

TurnStates ==
    [stage : {"idle", "loaded", "eligible"}]
    \cup [stage : {"running"}, run : [op : {"lead"}, found : Checkpoint]]
    \cup [stage : {"answering"}, left : Checkpoint]
    \cup [stage : {"replied"}, text : Text, status : {"awaiting_approval", "escalated", "asked"}]

\* Every variable keeps its type: a closed card was approved or skipped, and
\* nothing answers a card that does not exist.
TypeOK ==
    /\ thread \in Checkpoint
    /\ orphans \subseteq Runs
    /\ cards \in Seq(Cards)
    /\ queue \in Seq(Entries(Len(cards)))
    /\ automation \in BOOLEAN
    /\ reviews \in [Reviewers -> ReviewStates(Len(cards))]
    /\ turns \in [Turns -> TurnStates]
    /\ readers \in [Readers -> {"idle", "morning", "outcome"}]
    /\ texts \in Text /\ faults \in 0 .. MaxFaults /\ lost \in BOOLEAN
    /\ drafts \subseteq Text

\* A card is answered by one message at most, whatever is retried, decided twice
\* or answered late, and by none before somebody gave it a verdict that sends.
OneSendPerCard ==
    \A i \in DOMAIN queue : queue[i].card # 0 =>
        /\ \A j \in DOMAIN queue : queue[j].card = queue[i].card => i = j
        /\ \E x \in decided : x.card = queue[i].card /\ x.verdict # "skip"

\* The text that goes out for a card is one a person looked at on that card and
\* approved, unless a run, an edit or a skip was given up halfway (see lost).
\* It takes one reviewer at a time and no card from outside the graph.
SentAsReviewed ==
    lost \/ \A i \in DOMAIN queue : queue[i].card # 0 =>
        [card |-> queue[i].card, verdict |-> "approve", text |-> queue[i].text] \in decided

Quiet ==
    /\ \A d \in Reviewers : reviews[d].stage \in {"idle", "looking"}
    /\ \A t \in Turns : turns[t].stage = "idle"

\* The two services agree: when nothing is under way, the draft on an open card
\* is the one the graph would send if it were approved now.
OpenCardIsTheGraphs ==
    (Quiet /\ ~lost) => \A n \in Open : cards[n].draft = thread.draft

\* "Only qualifying questions send themselves": a text the graph paused on does
\* not go out as a question.
QuestionsAreNotDrafts ==
    lost \/ \A i \in DOMAIN queue : queue[i].card = 0 => queue[i].text \notin drafts
=============================================================================
