------------------------------ MODULE InboundTurn ------------------------------
(***************************************************************************)
(* How a lead's messages become turns of the sales agent, for one          *)
(* conversation: the ingestion of inbound-message.service.ts, the burst    *)
(* window and the chain of flushes of inbound-burst.ts, the check for a    *)
(* rejection (sales-rejection.service.ts) and what the turn writes in the  *)
(* end (handleInboundMessageForAutomation).                                *)
(*                                                                         *)
(* Events are ingested concurrently; each ingestion reads the conversation *)
(* once, at its start, and the turn it ends in works on that snapshot.     *)
(***************************************************************************)
EXTENDS Naturals, Sequences, FiniteSets

CONSTANTS
    Msgs,        \* messages of the lead, by provider id
    Deliveries,  \* events being ingested at a time
    MaxFaults    \* bound on calls and writes that throw

ASSUME FaultsAssumption == MaxFaults \in Nat

VARIABLES
    stops,       \* messages whose text asks to stop; never changes
    conv,        \* the conversation document
    stored,      \* messages in the messages collection
    ingests,     \* ingestions waiting on an await
    window,      \* the open burst window, in memory
    flushes,     \* the conversation's chain of turns, in memory
    faults,      \* failures so far
    done,        \* history: messages whose turn has ended, or that get none
    lost,        \* history: stored messages that a failure or a restart took
    late,        \* history: messages whose ingestion found the lead opted out
    answered,    \* history: turns that answered each message
    verdicts     \* history: verdicts of the turns that answered

vars == <<stops, conv, stored, ingests, window, flushes, faults,
          done, lost, late, answered, verdicts>>
history == <<done, lost, late, answered, verdicts>>

-----------------------------------------------------------------------------
(* Values.                                                                 *)

\* automation stands for both switches, aiAutomationEnabled and aiMode.
Conversation ==
    [automation : BOOLEAN, optedOut : BOOLEAN, rejected : BOOLEAN,
     heard : BOOLEAN]

\* What an ingestion keeps of the conversation it has read.
Snapshot == [automation : BOOLEAN, optedOut : BOOLEAN, rejected : BOOLEAN]

Read == [automation |-> conv.automation, optedOut |-> conv.optedOut,
         rejected |-> conv.rejected]

Idle == [stage |-> "idle"]

Underway == [stage : {"loaded", "stored", "shown"}, msg : Msgs, snap : Snapshot,
             first : BOOLEAN]

Verdicts == {"none", "firm", "recorded"}

\* A window, and the turn it becomes.  The last message's closure is the one
\* that runs, on the last message's snapshot.
Bursts == [msgs : SUBSET Msgs, snap : Snapshot]
Turns  == [stage : {"waiting", "judging", "rejecting", "gating", "drafting"},
           msgs : (SUBSET Msgs) \ {{}}, snap : Snapshot, verdict : Verdicts]

Closed == [msgs |-> {}, snap |-> [automation |-> FALSE, optedOut |-> FALSE,
                                  rejected |-> FALSE]]

-----------------------------------------------------------------------------
\* A new thread starts with automation on; an older one may have it off.
Init ==
    /\ stops \in SUBSET Msgs
    /\ conv \in [automation : BOOLEAN, optedOut : {FALSE}, rejected : {FALSE},
                 heard : BOOLEAN]
    /\ conv.heard \/ conv.automation
    /\ stored = {}
    /\ ingests = [e \in Deliveries |-> Idle]
    /\ window = Closed
    /\ flushes = <<>>
    /\ faults = 0
    /\ done = {} /\ lost = {} /\ late = {}
    /\ answered = [m \in Msgs |-> 0] /\ verdicts = {}

-----------------------------------------------------------------------------
(* ingestInboundMessage.                                                   *)

SetIngest(e, value) == ingests' = [ingests EXCEPT ![e] = value]

\* An event, perhaps not the first with its id: the conversation is read.
Load(e, m) ==
    /\ ingests[e] = Idle
    /\ SetIngest(e, [stage |-> "loaded", msg |-> m, snap |-> Read, first |-> ~conv.heard])
    /\ UNCHANGED <<stops, conv, stored, window, flushes, faults, history>>

\* createInboundMessage: a message whose id is there already goes no further.
Store(e) ==
    /\ ingests[e].stage = "loaded"
    /\ IF ingests[e].msg \in stored
       THEN SetIngest(e, Idle) /\ UNCHANGED <<stored, late>>
       ELSE /\ stored' = stored \cup {ingests[e].msg}
            /\ late' = IF ingests[e].snap.optedOut THEN late \cup {ingests[e].msg} ELSE late
            /\ SetIngest(e, [ingests[e] EXCEPT !.stage = "stored"])
    /\ UNCHANGED <<stops, conv, window, flushes, faults, done, lost, answered, verdicts>>

\* updateConversationPreview, and what else is written for every message.
Preview(e) ==
    /\ ingests[e].stage = "stored"
    /\ conv' = [conv EXCEPT !.heard = TRUE]
    /\ SetIngest(e, [ingests[e] EXCEPT !.stage = "shown"])
    /\ UNCHANGED <<stops, stored, window, flushes, faults, history>>

\* A first message with a pasted form: the merge returns a newer document, and
\* the turn is given that one.
ReadForm(e) ==
    /\ ingests[e].stage = "shown" /\ ingests[e].first
    /\ SetIngest(e, [ingests[e] EXCEPT !.snap.automation = conv.automation,
                                       !.first = FALSE])
    /\ UNCHANGED <<stops, conv, stored, window, flushes, faults, history>>

\* Mutant: only the request itself is looked for.
AsksToStop(e) == ingests[e].msg \in stops

\* Asked to stop now, or at some earlier point.
OptedOut(e) == ingests[e].snap.optedOut \/ ingests[e].msg \in stops

\* The message stays without a turn.  The first request is recorded; if the
\* write throws, the request goes unrecorded and the message unanswered.
Silence(e) ==
    /\ ingests[e].stage = "shown" /\ OptedOut(e)
    /\ \/ /\ ingests[e].snap.optedOut
          /\ UNCHANGED <<conv, faults>>
       \/ /\ ~ingests[e].snap.optedOut
          /\ conv' = [conv EXCEPT !.optedOut = TRUE, !.automation = FALSE]
          /\ UNCHANGED faults
       \/ /\ ~ingests[e].snap.optedOut /\ faults < MaxFaults
          /\ faults' = faults + 1
          /\ UNCHANGED conv
    /\ SetIngest(e, Idle)
    /\ done' = done \cup {ingests[e].msg}
    /\ UNCHANGED <<stops, stored, window, flushes, lost, late, answered, verdicts>>

\* Mutant: the window keeps its newest message only.
CollectedAlone(m, snap) == [msgs |-> {m}, snap |-> snap]

\* collect: the window opens, or its timer starts again.
Collected(m, snap) == [msgs |-> window.msgs \cup {m}, snap |-> snap]

Collect(e) ==
    /\ ingests[e].stage = "shown" /\ ~OptedOut(e)
    /\ window' = Collected(ingests[e].msg, ingests[e].snap)
    /\ SetIngest(e, Idle)
    /\ UNCHANGED <<stops, conv, stored, flushes, faults, history>>

\* A write throws: the provider logs it and goes on with the next message.
IngestFails(e) ==
    /\ ingests[e] # Idle /\ faults < MaxFaults
    /\ faults' = faults + 1
    /\ lost' = IF ingests[e].stage = "loaded" THEN lost ELSE lost \cup {ingests[e].msg}
    /\ SetIngest(e, Idle)
    /\ UNCHANGED <<stops, conv, stored, window, flushes, done, late, answered, verdicts>>

IngestStep(e) == Store(e) \/ Preview(e) \/ ReadForm(e) \/ Silence(e) \/ Collect(e)

-----------------------------------------------------------------------------
(* The window closes when its timer fires.                                 *)

Turn(burst) ==
    [stage |-> "waiting", msgs |-> burst.msgs, snap |-> burst.snap, verdict |-> "none"]

\* Mutant: the entry stays in the map of open windows.
FireAndKeep ==
    /\ window.msgs # {}
    /\ flushes' = Append(flushes, Turn(window))
    /\ UNCHANGED <<stops, conv, stored, ingests, window, faults, history>>

\* Mutant: a timer that was not cleared fires on no window.
FireWithoutWindow ==
    /\ flushes' = Append(flushes, Turn(window))
    /\ window' = Closed
    /\ UNCHANGED <<stops, conv, stored, ingests, faults, history>>

Fire ==
    /\ window.msgs # {}
    /\ flushes' = Append(flushes, Turn(window))
    /\ window' = Closed
    /\ UNCHANGED <<stops, conv, stored, ingests, faults, history>>

-----------------------------------------------------------------------------
(* The flush of a turn.                                                    *)

SetTurn(i, turn) == flushes' = [flushes EXCEPT ![i] = turn]

\* Mutant: a flush does not wait for the one before it.
MayBeginAtOnce(i) == TRUE

\* Each flush is chained to the one before it.
MayBegin(i) == i = 1

\* Tasks for the owner are extracted first; they change nothing here.
Begin(i) ==
    /\ flushes[i].stage = "waiting" /\ MayBegin(i)
    /\ SetTurn(i, [flushes[i] EXCEPT !.stage = "judging"])
    /\ UNCHANGED <<stops, conv, stored, ingests, window, faults, history>>

\* The turn is over, whatever came of it.
TurnEnds(i) ==
    /\ flushes' = SubSeq(flushes, 1, i - 1) \o SubSeq(flushes, i + 1, Len(flushes))
    /\ done' = done \cup flushes[i].msgs

\* detectSalesRejection: a lead known to have turned the sale down is not
\* judged again, and a model that fails has not said "firm".
Judge(i) ==
    /\ flushes[i].stage = "judging"
    /\ \/ SetTurn(i, [flushes[i] EXCEPT !.stage = "gating"])
       \/ /\ ~flushes[i].snap.rejected
          /\ SetTurn(i, [flushes[i] EXCEPT !.stage = "rejecting", !.verdict = "firm"])
    /\ UNCHANGED <<stops, conv, stored, ingests, window, faults, history>>

\* Mutant: the database is told, the snapshot is not.
SilencedInDatabase(turn) == [turn EXCEPT !.stage = "gating", !.verdict = "recorded"]

\* What the closure makes of its copy of the conversation.
Silenced(turn) ==
    [turn EXCEPT !.stage = "gating", !.verdict = "recorded", !.snap.automation = FALSE]

\* markSalesRejected finds the conversation not yet rejected, or finds nothing:
\* then the turn goes on as if there were no rejection.
Reject(i) ==
    /\ flushes[i].stage = "rejecting"
    /\ IF conv.rejected
       THEN /\ SetTurn(i, [flushes[i] EXCEPT !.stage = "gating"])
            /\ UNCHANGED conv
       ELSE /\ SetTurn(i, Silenced(flushes[i]))
            /\ conv' = [conv EXCEPT !.rejected = TRUE, !.automation = FALSE]
    /\ UNCHANGED <<stops, stored, ingests, window, faults, history>>

\* The write, or the activity record after it, throws: again no rejection.
RejectFails(i) ==
    /\ flushes[i].stage = "rejecting" /\ faults < MaxFaults
    /\ faults' = faults + 1
    /\ \/ UNCHANGED conv
       \/ /\ ~conv.rejected
          /\ conv' = [conv EXCEPT !.rejected = TRUE, !.automation = FALSE]
    /\ SetTurn(i, [flushes[i] EXCEPT !.stage = "gating"])
    /\ UNCHANGED <<stops, stored, ingests, window, history>>

\* handleInboundMessageForAutomation: its first checks.  Whether a card is open
\* is a choice here.
Gate(i) ==
    /\ flushes[i].stage = "gating"
    /\ \/ /\ flushes[i].snap.automation
          /\ SetTurn(i, [flushes[i] EXCEPT !.stage = "drafting"])
          /\ UNCHANGED done
       \/ TurnEnds(i)
    /\ UNCHANGED <<stops, conv, stored, ingests, window, faults, lost, late, answered, verdicts>>

\* A question keyed by the burst's last message, a card, an escalation (also of
\* a message the agent cannot read), or nothing: not an enquiry, or a failure.
Answer(i) ==
    /\ flushes[i].stage = "drafting"
    /\ \/ /\ UNCHANGED conv
          /\ answered' = [m \in Msgs |-> answered[m] + IF m \in flushes[i].msgs THEN 1 ELSE 0]
          /\ verdicts' = verdicts \cup {flushes[i].verdict}
       \/ /\ conv' \in {conv, [conv EXCEPT !.automation = FALSE]}
          /\ UNCHANGED <<answered, verdicts>>
    /\ TurnEnds(i)
    /\ UNCHANGED <<stops, stored, ingests, window, faults, lost, late>>

\* The flush throws: it is logged, and the chain goes on.
FlushFails(i) ==
    /\ flushes[i].stage # "waiting" /\ faults < MaxFaults
    /\ faults' = faults + 1
    /\ TurnEnds(i)
    /\ UNCHANGED <<stops, conv, stored, ingests, window, lost, late, answered, verdicts>>

FlushStep(i) == Begin(i) \/ Judge(i) \/ Reject(i) \/ Gate(i) \/ Answer(i)

-----------------------------------------------------------------------------
(* What the rest of the system does to the conversation.                   *)

Becomes(new) ==
    /\ conv' = new
    /\ UNCHANGED <<stops, stored, ingests, window, flushes, faults, history>>

\* setAutomationForActor: switching it on reopens a rejected lead.
SetAutomation(enabled) ==
    Becomes([conv EXCEPT !.automation = enabled, !.rejected = @ /\ ~enabled])

\* resumeEscalatedConversationWithInstruction: automation is back on, and the
\* owner's own turn runs beside the chain.
OwnerInstructs ==
    /\ ~conv.automation
    /\ Becomes([conv EXCEPT !.automation = TRUE])

\* The process stops: what was in memory is gone.  Open windows are not flushed.
Restart ==
    /\ ingests' = [e \in Deliveries |-> Idle]
    /\ window' = Closed
    /\ flushes' = <<>>
    /\ lost' = lost \cup (stored \ done)
    /\ UNCHANGED <<stops, conv, stored, faults, done, late, answered, verdicts>>

Next ==
    \/ \E e \in Deliveries, m \in Msgs : Load(e, m)
    \/ \E e \in Deliveries : IngestStep(e) \/ IngestFails(e)
    \/ Fire
    \/ \E i \in DOMAIN flushes : FlushStep(i) \/ RejectFails(i) \/ FlushFails(i)
    \/ \E enabled \in BOOLEAN : SetAutomation(enabled)
    \/ OwnerInstructs \/ Restart

Spec == Init /\ [][Next]_vars

(***************************************************************************)
(* Awaits end, and a lead stops typing in the end, so that the timer of    *)
(* the window fires.                                                       *)
(***************************************************************************)
Fairness ==
    /\ \A e \in Deliveries : WF_vars(IngestStep(e))
    /\ WF_vars(Fire)
    /\ WF_vars(\E i \in DOMAIN flushes : FlushStep(i))

FairSpec == Spec /\ Fairness

-----------------------------------------------------------------------------
(* Properties.                                                             *)

\* Every variable has its type; a turn holds at least one message.
TypeOK ==
    /\ stops \subseteq Msgs
    /\ conv \in Conversation
    /\ stored \subseteq Msgs
    /\ ingests \in [Deliveries -> {Idle} \cup Underway]
    /\ window \in Bursts
    /\ flushes \in Seq(Turns)
    /\ faults \in 0 .. MaxFaults
    /\ done \subseteq stored /\ lost \subseteq stored /\ late \subseteq stored
    /\ answered \in [Msgs -> Nat]
    /\ verdicts \subseteq Verdicts

\* A message is answered by one turn at most, however often it is delivered and
\* however its burst is extended, split by the timer or overtaken by a restart.
OneAnswerPerMessage == \A m \in Msgs : answered[m] <= 1

\* "Two bursts can never generate two replies in parallel for the same person":
\* one turn of the conversation is under way at a time.
OneTurnAtATime ==
    \A i, j \in DOMAIN flushes :
        flushes[i].stage # "waiting" /\ flushes[j].stage # "waiting" => i = j

\* A message that comes in after the lead's request to stop was recorded gets
\* no answer, even as part of a burst that began before it.
StopIsRespected == \A m \in late : answered[m] = 0

\* A turn that has recorded a rejection answers nothing, although it works on a
\* copy of the conversation that was read before.
RejectingTurnIsSilent == "recorded" \notin verdicts

\* Every stored message gets its turn, or a reason for none, in the end: the
\* timer, the chain and their failures leave nothing behind.  A restart and a
\* failed ingestion do (see lost).
EveryMessageIsConsidered == \A m \in Msgs : (m \in stored) ~> (m \in done \cup lost)

-----------------------------------------------------------------------------
(* What the proofs need in addition.                                       *)

Carries(e, m) == ingests[e].stage \in {"stored", "shown"} /\ ingests[e].msg = m

\* For OneAnswerPerMessage: a stored message is carried by one ingestion, is in
\* the window, is in one turn, has been answered, or is none of these; one that
\* is not stored is nowhere.
OnePlace ==
    /\ \A e \in Deliveries, m \in Msgs :
         Carries(e, m) => m \in stored /\ m \notin window.msgs /\ answered[m] = 0
    /\ \A d, e \in Deliveries, m \in Msgs : Carries(d, m) /\ Carries(e, m) => d = e
    /\ \A m \in window.msgs : m \in stored /\ answered[m] = 0
    /\ \A i \in DOMAIN flushes : \A m \in flushes[i].msgs :
         /\ m \in stored /\ m \notin window.msgs /\ answered[m] = 0
         /\ \A e \in Deliveries : ~Carries(e, m)
    /\ \A i, j \in DOMAIN flushes : \A m \in flushes[i].msgs : m \in flushes[j].msgs => i = j
    /\ \A m \in Msgs : answered[m] <= 1 /\ (answered[m] # 0 => m \in stored)

\* For OneTurnAtATime: the chain has one head.
HeadOnly == \A i \in DOMAIN flushes : flushes[i].stage # "waiting" => i = 1

\* For StopIsRespected: a message that came in after the stop goes no further
\* than its own ingestion.
LateInv ==
    /\ StopIsRespected
    /\ \A e \in Deliveries, m \in late : Carries(e, m) => ingests[e].snap.optedOut
    /\ late \cap window.msgs = {}
    /\ \A i \in DOMAIN flushes : late \cap flushes[i].msgs = {}

\* For RejectingTurnIsSilent: having recorded a rejection, a turn is about to end.
RecordedInv ==
    /\ RejectingTurnIsSilent
    /\ \A i \in DOMAIN flushes : flushes[i].verdict = "recorded" =>
          flushes[i].stage = "gating" /\ ~flushes[i].snap.automation
=============================================================================
