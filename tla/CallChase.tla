----------------------------- MODULE CallChase -----------------------------
(***************************************************************************)
(* The chase of a lead who does not answer the greeting's "may we call     *)
(* you?": one attempt row per submission, started when the greeting has    *)
(* been delivered and its hour run by sweepers that hold it by a lease.    *)
(* The lead may answer, the conversation may be deleted or taken over at   *)
(* any moment, a call may throw, a sweep may crash or be slow.             *)
(*                                                                         *)
(* A claim's token is the number of the claim: attempts grows by one with  *)
(* each, so it is fresh as randomUUID is.  An owner can always be found.   *)
(***************************************************************************)
EXTENDS Naturals, FiniteSets

CONSTANTS
    Sweepers,       \* sweeps, of one or several processes
    MaxAttempts,    \* MAX_CALL_SCHEDULING_ATTEMPTS
    MaxTrouble      \* bound on throws, crashes and sweeps slower than their lease

VARIABLES
    attempt,   \* the call scheduling attempt
    hour,      \* its deadline has passed
    chat,      \* the conversation it is about
    chasing,   \* what each sweep holds
    ownerTask, \* the owner's "call the customer today" exists
    chaser,    \* the message "we have not received your response" is queued
    trouble

vars == <<attempt, hour, chat, chasing, ownerTask, chaser, trouble>>

ChaseAssumption ==
    Sweepers # {} /\ MaxAttempts \in Nat \ {0} /\ MaxTrouble \in Nat

NoToken == 0
Idle == [at |-> "idle", token |-> NoToken, tasked |-> FALSE, sent |-> FALSE]

Init ==
    /\ attempt = [status |-> "none", lease |-> "none", token |-> NoToken, attempts |-> 0,
                  tasked |-> FALSE, gate |-> FALSE, sent |-> FALSE, repliedAt |-> FALSE]
    /\ hour = FALSE
    /\ chat = [wrote |-> FALSE, off |-> FALSE, gone |-> FALSE]
    /\ chasing = [w \in Sweepers |-> Idle]
    /\ ownerTask = FALSE /\ chaser = FALSE /\ trouble = 0

\* onOutboundMessageSent: the greeting has reached WhatsApp.  The lead may have
\* written between the delivery and this.
Registers ==
    /\ attempt.status = "none"
    /\ attempt' = [attempt EXCEPT !.status = "waiting"]
    /\ UNCHANGED <<hour, chat, chasing, ownerTask, chaser, trouble>>

DeadlinePasses ==
    /\ attempt.status # "none" /\ ~hour
    /\ hour' = TRUE
    /\ UNCHANGED <<attempt, chat, chasing, ownerTask, chaser, trouble>>

\* Ingestion stores the inbound message, and after that stops the chase.
LeadWrites ==
    /\ ~chat.wrote
    /\ chat' = [chat EXCEPT !.wrote = TRUE]
    /\ UNCHANGED <<attempt, hour, chasing, ownerTask, chaser, trouble>>

\* onInboundMessage, markCallSchedulingReplied
MarksReplied ==
    /\ chat.wrote /\ attempt.status = "waiting"
    /\ attempt' = [attempt EXCEPT !.status = "replied", !.repliedAt = TRUE]
    /\ UNCHANGED <<hour, chat, chasing, ownerTask, chaser, trouble>>

\* The owner takes the conversation over, or deletes it.
OwnerSteps ==
    /\ \/ ~chat.off /\ chat' = [chat EXCEPT !.off = TRUE]
       \/ ~chat.gone /\ chat' = [chat EXCEPT !.gone = TRUE]
    /\ UNCHANGED <<attempt, hour, chasing, ownerTask, chaser, trouble>>

-----------------------------------------------------------------------------
Goto(w, stage) == chasing' = [chasing EXCEPT ![w].at = stage]
Holds(w) == attempt.token = chasing[w].token

\* Mutant: a sweep that crashed keeps its claim.
FreeOnly == attempt.lease = "none"

Takeable == attempt.lease \in {"none", "over"}

\* claimDueCallSchedulingAttempt
Claims(w) ==
    /\ chasing[w].at = "idle"
    /\ attempt.status = "waiting" /\ hour /\ Takeable
    /\ attempt' = [attempt EXCEPT !.lease = "held", !.token = attempt.attempts + 1,
                                  !.attempts = @ + 1]
    /\ chasing' = [chasing EXCEPT ![w] =
           [at |-> IF attempt.attempts + 1 > MaxAttempts THEN "giveUp" ELSE "look",
            token |-> attempt.attempts + 1, tasked |-> attempt.tasked, sent |-> attempt.sent]]
    /\ UNCHANGED <<hour, chat, ownerTask, chaser, trouble>>

\* A lease runs out: of a sweep that is gone, or of one that took too long.
LeaseEnds ==
    /\ attempt.lease = "held"
    /\ attempt' = [attempt EXCEPT !.lease = "over"]
    /\ IF \E w \in Sweepers : chasing[w].at # "idle" /\ Holds(w)
       THEN trouble < MaxTrouble /\ trouble' = trouble + 1
       ELSE UNCHANGED trouble
    /\ UNCHANGED <<hour, chat, chasing, ownerTask, chaser>>

\* settleCallSchedulingAttempt, whatever the status has become meanwhile
Settles(w, status) ==
    /\ attempt' = IF Holds(w)
                  THEN [attempt EXCEPT !.status = status, !.lease = "none", !.token = NoToken]
                  ELSE attempt
    /\ chasing' = [chasing EXCEPT ![w] = Idle]
    /\ UNCHANGED <<hour, chat, ownerTask, chaser, trouble>>

GivesUp(w) == chasing[w].at = "giveUp" /\ Settles(w, "failed")

\* findConversationById and the last look before committing
NothingToChase(w) == chasing[w].at = "look" /\ (chat.gone \/ chat.off) /\ Settles(w, "completed")
FindsReply(w) ==
    chasing[w].at = "look" /\ ~chat.gone /\ ~chat.off /\ chat.wrote /\ Settles(w, "replied")
StillSilent(w) ==
    /\ chasing[w].at = "look" /\ ~chat.gone /\ ~chat.off /\ ~chat.wrote
    /\ Goto(w, IF ~chasing[w].tasked THEN "task" ELSE IF ~chasing[w].sent THEN "gate" ELSE "done")
    /\ UNCHANGED <<attempt, hour, chat, ownerTask, chaser, trouble>>

\* Action one: createFollowUpTask, and then recordCallSchedulingAction
TellsOwner(w) ==
    /\ chasing[w].at = "task"
    /\ ownerTask' = TRUE
    /\ Goto(w, "taskRow")
    /\ UNCHANGED <<attempt, hour, chat, chaser, trouble>>

RecordsTask(w) ==
    /\ chasing[w].at = "taskRow"
    /\ attempt' = IF Holds(w) THEN [attempt EXCEPT !.tasked = TRUE] ELSE attempt
    /\ Goto(w, IF chasing[w].sent THEN "done" ELSE "gate")
    /\ UNCHANGED <<hour, chat, ownerTask, chaser, trouble>>

GateOpen(w) == Holds(w) /\ attempt.status = "waiting" /\ ~attempt.sent /\ ~attempt.gate

\* claimFollowUpSend
PassesGate(w) ==
    /\ chasing[w].at = "gate" /\ GateOpen(w)
    /\ attempt' = [attempt EXCEPT !.gate = TRUE]
    /\ Goto(w, "send")
    /\ UNCHANGED <<hour, chat, ownerTask, chaser, trouble>>

\* Mutant: who finds the gate closed calls the chase completed.
ClosedGateStatus(w) == "completed"

\* Whoever finds it closed takes it for a reply.
ShutStatus(w) == "replied"

FindsGateShut(w) == chasing[w].at = "gate" /\ ~GateOpen(w) /\ Settles(w, ShutStatus(w))

\* Action two: enqueueOutboundMessage under the greeting's own key, and the record of it
Chases(w) ==
    /\ chasing[w].at = "send"
    /\ chaser' = TRUE
    /\ Goto(w, "sendRow")
    /\ UNCHANGED <<attempt, hour, chat, ownerTask, trouble>>

RecordsChaser(w) ==
    /\ chasing[w].at = "sendRow"
    /\ attempt' = IF Holds(w) THEN [attempt EXCEPT !.sent = TRUE] ELSE attempt
    /\ Goto(w, "done")
    /\ UNCHANGED <<hour, chat, ownerTask, chaser, trouble>>

Completes(w) == chasing[w].at = "done" /\ Settles(w, "completed")

\* A call throws: the gate and the claim are handed back.
Throws(w) ==
    /\ chasing[w].at \notin {"idle", "giveUp"} /\ trouble < MaxTrouble
    /\ trouble' = trouble + 1
    /\ attempt' = IF Holds(w)
                  THEN [attempt EXCEPT !.gate = FALSE, !.lease = "none", !.token = NoToken]
                  ELSE attempt
    /\ chasing' = [chasing EXCEPT ![w] = Idle]
    /\ UNCHANGED <<hour, chat, ownerTask, chaser>>

Crashes(w) ==
    /\ chasing[w].at # "idle" /\ trouble < MaxTrouble
    /\ trouble' = trouble + 1
    /\ chasing' = [chasing EXCEPT ![w] = Idle]
    /\ UNCHANGED <<attempt, hour, chat, ownerTask, chaser>>

Sweeps(w) ==
    \/ Claims(w) \/ GivesUp(w) \/ NothingToChase(w) \/ FindsReply(w) \/ StillSilent(w)
    \/ TellsOwner(w) \/ RecordsTask(w) \/ PassesGate(w) \/ FindsGateShut(w)
    \/ Chases(w) \/ RecordsChaser(w) \/ Completes(w)
TimePasses == DeadlinePasses \/ LeaseEnds
Next == \/ Registers \/ TimePasses \/ LeadWrites \/ MarksReplied \/ OwnerSteps
        \/ \E w \in Sweepers : Sweeps(w) \/ Throws(w) \/ Crashes(w)

Spec == Init /\ [][Next]_vars

\* The sweep runs on an interval, and a lease of a row nobody settles runs out.
FairSpec == Spec /\ WF_vars(TimePasses) /\ \A w \in Sweepers : WF_vars(Sweeps(w))

-----------------------------------------------------------------------------
(* Properties. *)

\* Types, and the lease with its token.
TypeOK ==
    /\ attempt.status \in {"none", "waiting", "replied", "completed", "failed"}
    /\ attempt.lease \in {"none", "held", "over"}
    /\ attempt.attempts \in Nat /\ attempt.token \in 0 .. attempt.attempts
    /\ attempt.lease = "none" <=> attempt.token = NoToken
    /\ \A w \in Sweepers :
           /\ chasing[w].at \in {"idle", "giveUp", "look", "task", "taskRow", "gate", "send",
                                 "sendRow", "done"}
           /\ chasing[w].token \in 0 .. attempt.attempts
    /\ trouble \in 0 .. MaxTrouble

\* A chase called completed has done both things, the owner's task and the
\* message, unless the owner had the conversation in hand or deleted it.
CompletedMeansDone ==
    attempt.status = "completed" => (ownerTask /\ chaser) \/ chat.off \/ chat.gone

\* A chase that was started, and is to come to an end.
UnderWay == attempt.status = "waiting"
=============================================================================
