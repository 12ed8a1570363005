--------------------------- MODULE OutboundDelivery ---------------------------
(***************************************************************************)
(* The outbound message queue and the runner that drains it through the    *)
(* WhatsApp socket: outbound-delivery.service.ts (deliverNext), the claim  *)
(* and status writes of message.repository.ts, the enqueue of              *)
(* outbound-message.service.ts, the echo guard, and the conversation       *)
(* fields the send-time guards read, with every writer of those fields.    *)
(*                                                                         *)
(* One step is what the code does between two awaits: a database write, a  *)
(* read with the decisions taken on it, or the socket call.  Everything a  *)
(* runner holds between two steps is in run[w] and dies with the process.  *)
(*                                                                         *)
(* Time is counted in ticks and kept relative, so that the state space is  *)
(* finite without a horizon: row[m].since is now - scheduledAt, .retry is  *)
(* nextAttemptAt - now, .age is now - statusUpdatedAt.  Each saturates at  *)
(* the first value past the last one the code tells apart.                 *)
(***************************************************************************)
EXTENDS Integers, FiniteSets

CONSTANTS
    Runners,        \* delivery runners, one per server process
    Convs,          \* conversations
    AiMsgs,         \* rows with authoredBy = AI, by idempotency key
    HumanMsgs,      \* rows with authoredBy = HUMAN, by idempotency key
    ConvOf,         \* the conversation of each row
    MaxAttempts,    \* WHATSAPP_OUTBOUND_MAX_ATTEMPTS
    MaxClaims,      \* bound: the attempts a row counts, past MaxAttempts; the
                    \* code tells no larger counts apart
    Lease,          \* WHATSAPP_OUTBOUND_LEASE_MS
    HumanDelays,    \* WHATSAPP_HUMAN_DELAY_MIN_MS .. WHATSAPP_HUMAN_DELAY_MAX_MS
    BackoffBase,    \* the delay after the first failed attempt
    BackoffCap,     \* the longest delay between two attempts
    StaleAfter,     \* NURTURE_STALE_AFTER_MS
    Day,            \* ticks in a day
    QuietStart,     \* WHATSAPP_QUIET_HOURS_START
    QuietEnd,       \* WHATSAPP_QUIET_HOURS_END
    MaxAborts       \* bound on crashes and escaping exceptions

Msgs == AiMsgs \cup HumanMsgs

ASSUME MessagesAssumption ==
    /\ IsFiniteSet(AiMsgs) /\ IsFiniteSet(HumanMsgs)
    /\ AiMsgs \cap HumanMsgs = {}
    /\ ConvOf \in [Msgs -> Convs]

ASSUME LimitsAssumption ==
    /\ MaxAttempts \in Nat \ {0} /\ Lease \in Nat \ {0}
    /\ MaxClaims \in Nat /\ MaxClaims > MaxAttempts
    /\ HumanDelays \subseteq Nat /\ HumanDelays # {}
    /\ BackoffCap \in Nat \ {0} /\ BackoffBase \in Nat \ {0}
    /\ StaleAfter \in Nat /\ MaxAborts \in Nat

ASSUME ClockAssumption ==
    /\ Day \in Nat \ {0}
    /\ QuietStart \in 0 .. Day - 1 /\ QuietEnd \in 0 .. Day - 1

VARIABLES
    row,        \* the messages collection: one outbound row per key
    conv,       \* the conversation fields the guards read
    run,        \* what each runner holds in memory
    hour,       \* local hour of the business timezone
    echo,       \* sends WhatsApp has still to reflect back as fromMe
    aborts,     \* crashes and escaping exceptions so far
    tries,      \* history: calls of the socket per row
    reached,    \* history: rows that reached the lead's phone at least once
    late,       \* history: AI sends by a runner after the lead said stop
    overran     \* history: rows being worked on past the lease of some claim

vars == <<row, conv, run, hour, echo, aborts,
          tries, reached, late, overran>>

history == <<tries, reached, late, overran>>

-----------------------------------------------------------------------------
(* Values.                                                                 *)

Waiting  == {"queued", "failed"}              \* what a delete cancels
Terminal == {"sent", "failed_permanent"}
Statuses == {"absent", "sending"} \cup Waiting \cup Terminal

\* No reflection to come, or one whose id the echo guard (does not yet) know.
Echoes == {"none", "unknown", "known"}

Stages == {"idle", "claimed", "dropping", "holding", "ready", "acked",
           "marked", "guarded", "confirmed", "failing"}

RowType ==
    [status : Statuses, attempts : 0 .. MaxClaims, createdAt : Nat,
     since : Int, retry : 0 .. BackoffCap, age : 0 .. Lease]

ConvType ==
    [automation : BOOLEAN, optedOut : BOOLEAN, rejected : BOOLEAN,
     deleted : BOOLEAN, qualified : BOOLEAN, lastInbound : Nat]

\* A claim: the row as read at the claim, and the time a hold will write.
RunType == [stage : {"idle"}]
    \cup [stage : Stages \ {"idle"}, msg : Msgs,
          attempts : 0 .. MaxClaims, resume : Int]

Idle == [stage |-> "idle"]

AtMost(n, limit) == IF n < limit THEN n ELSE limit

Holds(w, m) == run[w].stage # "idle" /\ run[w].msg = m

-----------------------------------------------------------------------------
(* Time: the delays of the code and the quiet-hours window.                *)

\* Mutant: the cap on the delay is forgotten.
BackoffWithoutCap(n) == BackoffBase * 2 ^ (n - 1)

\* Exponential from the first failure, capped.
Backoff(n) ==
    LET delay == BackoffBase * 2 ^ (n - 1)
    IN  IF delay \in 0 .. BackoffCap THEN delay ELSE BackoffCap

\* [start, end) on the local clock, wrapping midnight; start = end disables it.
IsWithinQuietHours(h) ==
    \/ QuietStart < QuietEnd /\ h >= QuietStart /\ h < QuietEnd
    \/ QuietStart > QuietEnd /\ (h >= QuietStart \/ h < QuietEnd)

\* Ticks until the next QuietEnd: today if it is still ahead, else tomorrow.
UntilAllowed(h) == (IF h < QuietEnd THEN 0 ELSE Day) + QuietEnd - h

\* One tick later, for a quantity that no longer matters past limit.
Aged(n, limit) == AtMost(n + 1, limit)

-----------------------------------------------------------------------------
(* What the claim query and the send-time guards ask.                      *)

Created == {m \in Msgs : row[m].status # "absent"}

LeaseExpired(m) == row[m].status = "sending" /\ row[m].age >= Lease

\* With the next tick.
LeaseRunsOut(m) == row[m].status = "sending" /\ row[m].age + 1 >= Lease

\* Mutant: an abandoned row may always be claimed again.
ClaimableWithoutLimit(m) ==
    \/ row[m].status = "queued" /\ row[m].since >= 0
    \/ row[m].status = "failed" /\ row[m].attempts < MaxAttempts /\ row[m].retry = 0
    \/ LeaseExpired(m)

Claimable(m) ==
    \/ row[m].status = "queued" /\ row[m].since >= 0
    \/ /\ row[m].status = "failed"
       /\ row[m].attempts < MaxAttempts /\ row[m].retry = 0
    \/ LeaseExpired(m) /\ row[m].attempts < MaxAttempts

\* The lead has said stop, or that they are not going ahead.
Silenced(c) == conv[c].optedOut \/ conv[c].rejected

\* Mutant: the automation flag alone is trusted.
MayAutomateIfEnabled(c) == ~conv[c].deleted /\ conv[c].automation

\* findConversationById does not see a deleted conversation.
MayAutomate(c) == ~Silenced(c) /\ ~conv[c].deleted /\ conv[c].automation

Stale(m) == row[m].since > StaleAfter

\* lastInboundAt > createdAt, both counted in rows created so far.
Superseded(m) == conv[ConvOf[m]].lastInbound >= row[m].createdAt

-----------------------------------------------------------------------------
Init ==
    /\ row = [m \in Msgs |-> [status |-> "absent", attempts |-> 0, createdAt |-> 0,
                              since |-> 0, retry |-> 0, age |-> 0]]
    /\ conv \in [Convs -> [automation : BOOLEAN, optedOut : {FALSE}, rejected : {FALSE},
                           deleted : {FALSE}, qualified : {FALSE}, lastInbound : {0}]]
    /\ run = [w \in Runners |-> Idle]
    /\ hour = 0
    /\ echo = [m \in Msgs |-> "none"] /\ aborts = 0
    /\ tries = [m \in Msgs |-> 0]
    /\ reached = {}
    /\ late = [w \in Runners |-> [c \in Convs |-> 0]]
    /\ overran = {}

-----------------------------------------------------------------------------
(* Producers: enqueueOutboundMessage.  Re-sending with a known key returns  *)
(* the existing row, so only the first call of a key is a step.             *)

NewRow(wait) ==
    [status |-> "queued", attempts |-> 0, createdAt |-> Cardinality(Created) + 1,
     since |-> -wait, retry |-> 0, age |-> 0]

\* An AI turn works on a conversation it loaded earlier: nothing is re-read.
EnqueueAi(m) ==
    /\ m \in AiMsgs /\ row[m].status = "absent"
    /\ \E delay \in HumanDelays : row' = [row EXCEPT ![m] = NewRow(delay)]
    /\ UNCHANGED <<conv, run, hour, echo, aborts, history>>

\* The dashboard loads the conversation first: a deleted one is not found.
EnqueueHuman(m) ==
    /\ m \in HumanMsgs /\ row[m].status = "absent"
    /\ ~conv[ConvOf[m]].deleted
    /\ row' = [row EXCEPT ![m] = NewRow(0)]
    /\ UNCHANGED <<conv, run, hour, echo, aborts, history>>

-----------------------------------------------------------------------------
(* deliverNext.                                                            *)

Goto(w, stage) == run' = [run EXCEPT ![w].stage = stage]

\* The runner lets go of its row.
Finish(w) ==
    /\ run' = [run EXCEPT ![w] = Idle]
    /\ overran' = {m \in overran : \E v \in Runners \ {w} : Holds(v, m)}

\* A status write stamps statusUpdatedAt and clears nextAttemptAt.
Moved(m, status) == [row[m] EXCEPT !.status = status, !.retry = 0, !.age = 0]

\* Mutant: rows abandoned on their last attempt are left alone.
ExpireNoLeases == row

\* The updateMany that opens claimNextOutboundMessage: a row abandoned on its
\* last attempt is closed.  The claim that follows selects none of these rows.
ExpireLeases ==
    [m \in Msgs |->
        IF LeaseExpired(m) /\ row[m].attempts >= MaxAttempts
        THEN Moved(m, "failed_permanent")
        ELSE row[m]]

\* Mutant: the claim does not renew the lease.
ClaimWithoutLease(w, m) ==
    /\ run[w] = Idle /\ Claimable(m)
    /\ \A n \in Msgs : Claimable(n) => row[m].createdAt <= row[n].createdAt
    /\ LET attempt == AtMost(row[m].attempts + 1, MaxClaims)
       IN  /\ row' = [ExpireLeases EXCEPT
                        ![m].status = "sending", ![m].attempts = attempt]
           /\ run' = [run EXCEPT ![w] = [stage |-> "claimed", msg |-> m,
                                         attempts |-> attempt, resume |-> 0]]
    /\ UNCHANGED <<conv, hour, echo, aborts, history>>

\* Every claim counts an attempt, a queued row's without regard to the limit:
\* one that quiet hours held again and again counts more than MaxAttempts.
Claim(w, m) ==
    /\ run[w] = Idle
    /\ Claimable(m)
    /\ \A n \in Msgs : Claimable(n) => row[m].createdAt <= row[n].createdAt
    /\ LET attempt == AtMost(row[m].attempts + 1, MaxClaims)
       IN  /\ row' = [ExpireLeases EXCEPT
                        ![m].status = "sending", ![m].age = 0, ![m].attempts = attempt]
           /\ run' = [run EXCEPT ![w] = [stage |-> "claimed", msg |-> m,
                                         attempts |-> attempt, resume |-> 0]]
    /\ UNCHANGED <<conv, hour, echo, aborts, history>>

\* Nothing to claim: the sweep still runs.
ClaimNothing(w) ==
    /\ run[w] = Idle
    /\ \A m \in Msgs : ~Claimable(m)
    /\ row' = ExpireLeases
    /\ UNCHANGED <<conv, run, hour, echo, aborts, history>>

\* No address for the contact, not on the allowlist, or an attachment that is
\* missing or that this session cannot carry: data outside this model.
Undeliverable(w) ==
    /\ run[w].stage \in {"claimed", "ready"}
    /\ Goto(w, "dropping")
    /\ UNCHANGED <<row, conv, hour, echo, aborts, history>>

\* The guards on an AI-authored row, decided on one read of the conversation.
CheckAi(w) ==
    /\ run[w].stage = "claimed" /\ run[w].msg \in AiMsgs
    /\ LET m == run[w].msg IN
         \/ /\ ~MayAutomate(ConvOf[m]) \/ Stale(m) \/ Superseded(m)
            /\ Goto(w, "dropping")
         \/ /\ MayAutomate(ConvOf[m]) /\ ~Stale(m) /\ ~Superseded(m)
            /\ IsWithinQuietHours(hour)
            /\ run' = [run EXCEPT ![w].stage = "holding",
                                  ![w].resume = -UntilAllowed(hour)]
         \/ /\ MayAutomate(ConvOf[m]) /\ ~Stale(m) /\ ~Superseded(m)
            /\ ~IsWithinQuietHours(hour)
            /\ Goto(w, "ready")
    /\ UNCHANGED <<row, conv, hour, echo, aborts, history>>

\* A human-authored row passes none of those guards.
CheckHuman(w) ==
    /\ run[w].stage = "claimed" /\ run[w].msg \in HumanMsgs
    /\ Goto(w, "ready")
    /\ UNCHANGED <<row, conv, hour, echo, aborts, history>>

\* markOutboundMessageFailed(permanent): no condition on the row's status.
Drop(w) ==
    /\ run[w].stage = "dropping"
    /\ row' = [row EXCEPT ![run[w].msg] = Moved(run[w].msg, "failed_permanent")]
    /\ Finish(w)
    /\ UNCHANGED <<conv, hour, echo, aborts, tries, reached, late>>

\* rescheduleOutboundMessage: only a row that is still "sending"; the attempt
\* the claim counted stays counted.
Hold(w) ==
    /\ run[w].stage = "holding"
    /\ LET m == run[w].msg
       IN  row' = IF row[m].status = "sending"
                  THEN [row EXCEPT ![m] = [Moved(m, "queued") EXCEPT !.since = run[w].resume]]
                  ELSE row
    /\ Finish(w)
    /\ UNCHANGED <<conv, hour, echo, aborts, tries, reached, late>>

\* What the socket call leaves behind once the message is out: the phone has
\* it, and WhatsApp will reflect it under a provider id nobody has stored yet.
Reaches(m) ==
    /\ reached' = reached \cup {m}
    /\ echo' = [echo EXCEPT ![m] = "unknown"]

SocketCall(w) ==
    LET m == run[w].msg
        c == ConvOf[m]
    IN  /\ run[w].stage = "ready"
        /\ tries' = [tries EXCEPT ![m] = AtMost(@ + 1, MaxAttempts + 1)]
        /\ late' = IF m \in AiMsgs /\ Silenced(c)
                   THEN [late EXCEPT ![w][c] = AtMost(@ + 1, 2)]
                   ELSE late

Send(w) ==
    /\ SocketCall(w)
    /\ Reaches(run[w].msg)
    /\ Goto(w, "acked")
    /\ UNCHANGED <<row, conv, hour, aborts, overran>>

\* Mutant: the error is swallowed and the row goes on as if it had been sent.
SendFailureSwallowed(w) ==
    /\ SocketCall(w)
    /\ Reaches(run[w].msg) \/ UNCHANGED <<reached, echo>>
    /\ Goto(w, "acked")
    /\ UNCHANGED <<row, conv, hour, aborts, overran>>

\* The call throws, whether or not the message left before it did.
SendFails(w) ==
    /\ SocketCall(w)
    /\ Reaches(run[w].msg) \/ UNCHANGED <<reached, echo>>
    /\ Goto(w, "failing")
    /\ UNCHANGED <<row, conv, hour, aborts, overran>>

\* markOutboundMessageSent: no condition on the row's status.
MarkSent(w) ==
    /\ run[w].stage = "acked"
    /\ row' = [row EXCEPT ![run[w].msg] = Moved(run[w].msg, "sent")]
    /\ Goto(w, "marked")
    /\ UNCHANGED <<conv, hour, echo, aborts, history>>

\* echoGuardService.remember: a Redis failure is swallowed.
Remember(w) ==
    /\ run[w].stage = "marked"
    /\ echo' \in {echo} \cup {[echo EXCEPT ![m] = "known"] :
                               m \in {n \in {run[w].msg} : echo[n] # "none"}}
    /\ Goto(w, "guarded")
    /\ UNCHANGED <<row, conv, hour, aborts, history>>

\* confirmLeadQualification for an AI-authored row; its failure is isolated.
Confirm(w) ==
    /\ run[w].stage = "guarded"
    /\ conv' \in {conv} \cup
           {[conv EXCEPT ![ConvOf[m]].qualified = TRUE] : m \in {run[w].msg} \cap AiMsgs}
    /\ Goto(w, "confirmed")
    /\ UNCHANGED <<row, hour, echo, aborts, history>>

\* publishStatusChange, the last call of the try block.
Publish(w) ==
    /\ run[w].stage = "confirmed"
    /\ Finish(w)
    /\ UNCHANGED <<row, conv, hour, echo, aborts, tries, reached, late>>

\* The two calls after the send that are not isolated: markOutboundMessageSent,
\* and the conversation read inside publishStatusChange.
AfterSendFails(w) ==
    /\ run[w].stage \in {"acked", "confirmed"}
    /\ Goto(w, "failing")
    /\ UNCHANGED <<row, conv, hour, echo, aborts, history>>

\* The catch block: markOutboundMessageFailed, again whatever the row's status.
MarkFailed(w) ==
    /\ run[w].stage = "failing"
    /\ LET m == run[w].msg
           n == run[w].attempts
       IN  row' = IF n >= MaxAttempts
                  THEN [row EXCEPT ![m] = Moved(m, "failed_permanent")]
                  ELSE [row EXCEPT ![m] = [Moved(m, "failed") EXCEPT !.retry = Backoff(n)]]
    /\ Finish(w)
    /\ UNCHANGED <<conv, hour, echo, aborts, tries, reached, late>>

\* The process dies, or an exception escapes deliverNext and ends the tick: the
\* row stays as it is, whatever the runner held is gone.
Abort(w) ==
    /\ run[w].stage # "idle" /\ aborts < MaxAborts
    /\ aborts' = aborts + 1
    /\ Finish(w)
    /\ UNCHANGED <<row, conv, hour, echo, tries, reached, late>>

Deliver(w) ==
    \/ \E m \in Msgs : Claim(w, m)
    \/ ClaimNothing(w)
    \/ Undeliverable(w) \/ CheckAi(w) \/ CheckHuman(w) \/ Drop(w) \/ Hold(w)
    \/ Send(w) \/ SendFails(w) \/ MarkSent(w) \/ Remember(w) \/ Confirm(w)
    \/ Publish(w) \/ AfterSendFails(w) \/ MarkFailed(w)

-----------------------------------------------------------------------------
(* The writers of the conversation fields the guards read.                 *)

ConvStep(c, new) ==
    /\ conv' = [conv EXCEPT ![c] = new]
    /\ UNCHANGED <<row, run, hour, echo, aborts, history>>

\* Ingestion of a lead's message.  lastInboundAt is the provider's timestamp,
\* not the time of arrival: it may fall before rows created since, and before
\* the one already stored.
Inbound(c) ==
    \E stamp \in 0 .. Cardinality(Created) :
        ConvStep(c, [conv[c] EXCEPT !.lastInbound = stamp, !.deleted = FALSE])

OptOut(c) ==
    /\ ~conv[c].optedOut
    /\ ConvStep(c, [conv[c] EXCEPT !.optedOut = TRUE, !.automation = FALSE])

RejectSale(c) ==
    /\ ~conv[c].rejected
    /\ ConvStep(c, [conv[c] EXCEPT !.rejected = TRUE, !.automation = FALSE])

\* Escalation, the owner taking over, the toggle switched off.
PauseAutomation(c) ==
    /\ conv[c].automation
    /\ ConvStep(c, [conv[c] EXCEPT !.automation = FALSE])

\* setAutomationForActor(enabled): also reopens a rejected lead.
ResumeAutomation(c) ==
    /\ ~conv[c].deleted
    /\ conv' = [conv EXCEPT ![c].automation = TRUE, ![c].rejected = FALSE]
    /\ late' = IF conv[c].optedOut THEN late
               ELSE [w \in Runners |-> [late[w] EXCEPT ![c] = 0]]
    /\ UNCHANGED <<row, run, hour, echo, aborts, tries, reached, overran>>

\* resumeEscalatedConversationWithInstruction: the owner answers an escalation.
ResumeByInstruction(c) ==
    /\ ~conv[c].automation
    /\ ConvStep(c, [conv[c] EXCEPT !.automation = TRUE])

\* Mutant: the delete also cancels a row that a runner is sending.
DeleteChatAndSends(c) ==
    /\ ~conv[c].deleted
    /\ conv' = [conv EXCEPT ![c].deleted = TRUE, ![c].automation = FALSE]
    /\ row' = [m \in Msgs |->
                 IF ConvOf[m] = c /\ row[m].status \in Waiting \cup {"sending"}
                 THEN Moved(m, "failed_permanent")
                 ELSE row[m]]
    /\ UNCHANGED <<run, hour, echo, aborts, history>>

\* deleteConversationForActor: one transaction over the conversation and its
\* waiting rows; a row already being sent is left alone.
DeleteChat(c) ==
    /\ ~conv[c].deleted
    /\ conv' = [conv EXCEPT ![c].deleted = TRUE, ![c].automation = FALSE]
    /\ row' = [m \in Msgs |->
                 IF ConvOf[m] = c /\ row[m].status \in Waiting
                 THEN Moved(m, "failed_permanent")
                 ELSE row[m]]
    /\ UNCHANGED <<run, hour, echo, aborts, history>>

RestoreChat(c) ==
    /\ conv[c].deleted
    /\ ConvStep(c, [conv[c] EXCEPT !.deleted = FALSE])

\* routeInboundMessage on a fromMe event: passed over when the echo guard knows
\* the id or cannot tell, taken for the owner typing otherwise.
RouteEcho(m) ==
    /\ echo[m] # "none"
    /\ echo' = [echo EXCEPT ![m] = "none"]
    /\ \/ UNCHANGED conv
       \/ /\ echo[m] = "unknown"
          /\ conv' = [conv EXCEPT ![ConvOf[m]].automation = FALSE]
    /\ UNCHANGED <<row, run, hour, aborts, history>>

ConversationEvent(c) ==
    \/ Inbound(c) \/ OptOut(c) \/ RejectSale(c)
    \/ PauseAutomation(c) \/ ResumeAutomation(c) \/ ResumeByInstruction(c)
    \/ DeleteChat(c) \/ RestoreChat(c)

-----------------------------------------------------------------------------
Tick ==
    /\ hour' = (hour + 1) % Day
    /\ row' = [m \in Msgs |->
                 [row[m] EXCEPT
                    !.since = IF m \in AiMsgs THEN Aged(@, StaleAfter + 1) ELSE @,
                    !.retry = IF @ = 0 THEN 0 ELSE @ - 1,
                    !.age   = IF row[m].status = "sending" THEN Aged(@, Lease) ELSE @]]
    /\ run' = [w \in Runners |->
                 IF run[w].stage = "holding"
                 THEN [run[w] EXCEPT !.resume = Aged(@, StaleAfter + 1)]
                 ELSE run[w]]
    /\ overran' = overran \cup
           {m \in Msgs : LeaseRunsOut(m) /\ \E w \in Runners : Holds(w, m)}
    /\ UNCHANGED <<conv, echo, aborts, tries, reached, late>>

Next ==
    \/ \E m \in Msgs : EnqueueAi(m) \/ EnqueueHuman(m) \/ RouteEcho(m)
    \/ \E w \in Runners : Deliver(w) \/ Abort(w)
    \/ \E c \in Convs : ConversationEvent(c)
    \/ Tick

Spec == Init /\ [][Next]_vars

(***************************************************************************)
(* The runner's interval fires every few seconds while the session is      *)
(* active, so Deliver is taken again and again.  An iteration takes        *)
(* seconds and the hours in which sending is allowed are long, so it does  *)
(* each of its steps in those hours too, and not only at night.            *)
(***************************************************************************)
InAllowedHours(A) == A /\ ~IsWithinQuietHours(hour)

Fairness ==
    /\ WF_vars(Tick)
    /\ \A w \in Runners :
         /\ WF_vars(Deliver(w))
         /\ SF_vars(InAllowedHours(\E m \in Msgs : Claim(w, m)))
         /\ SF_vars(InAllowedHours(CheckAi(w)))
         /\ SF_vars(InAllowedHours(Hold(w)))

FairSpec == Spec /\ Fairness

-----------------------------------------------------------------------------
(* Properties.                                                             *)

\* Every variable has its type: a delay never exceeds its cap, whatever number
\* of attempts it grew from, and a runner never holds a row without a stage.
TypeOK ==
    /\ row \in [Msgs -> RowType]
    /\ conv \in [Convs -> ConvType]
    /\ run \in [Runners -> RunType]
    /\ hour \in 0 .. Day - 1
    /\ echo \in [Msgs -> Echoes]
    /\ aborts \in 0 .. MaxAborts
    /\ tries \in [Msgs -> 0 .. MaxAttempts + 1]
    /\ reached \subseteq Msgs
    /\ late \in [Runners -> [Convs -> 0 .. 2]]
    /\ overran \subseteq Msgs

\* Once a lead has opted out or turned the sale down, a runner sends that
\* conversation at most the one automated message it had already cleared: the
\* guards are read before the send, in another await.  With any number of
\* runners, and even if the owner switches automation back on.
OneLateReply == \A w \in Runners, c \in Convs : late[w][c] <= 1

\* Two runners work on one row only if the lease of the first ran out while it
\* was still working: the claim is the only mutual exclusion between them.
ExclusiveClaim ==
    \A m \in Msgs \ overran, v, w \in Runners : Holds(v, m) /\ Holds(w, m) => v = w

\* What the database says of a send is true, whatever crashed in between: a row
\* marked sent reached the lead, and a conversation is a confirmed lead only if
\* an automated message reached it.
HonestRecords ==
    /\ \A m \in Msgs : row[m].status = "sent" => m \in reached
    /\ \A c \in Convs : conv[c].qualified => \E m \in AiMsgs \cap reached : ConvOf[m] = c

\* With one runner, a row closed as failed_permanent (dropped by a guard,
\* cancelled with its chat, out of attempts) is never sent or reopened, though
\* no status write of the runner looks at the status it replaces.
ClosedForGood ==
    [][\A m \in Msgs : row[m].status = "failed_permanent" =>
         row'[m].status = "failed_permanent" /\ tries'[m] = tries[m]]_vars

\* A row counts as closed once no runner still works on it.
Outcome(m) ==
    CASE row[m].status = "absent" -> "absent"
      [] row[m].status = "failed_permanent" -> "dropped"
      [] row[m].status = "sent" /\ ~\E w \in Runners : Holds(w, m) -> "sent"
      [] OTHER -> "pending"

Contract == INSTANCE DeliveryContract
    WITH Limit <- MaxAttempts, outcome <- [m \in Msgs |-> Outcome(m)], calls <- tries

\* With one runner, the queue keeps its promise: at most MaxAttempts calls of
\* the socket per row, sent only if it reached the lead, closed for good.
KeepsContract == Contract!ContractSafety

\* With one runner, every enqueued row is closed in the end: retries, leases of
\* crashed runs and quiet hours never leave one waiting for ever.
SettlesEveryRow == Contract!ContractLiveness

-----------------------------------------------------------------------------
(* Inductive invariants behind the properties above: what a runner may      *)
(* rely on between two of its steps.                                        *)

AboutToAutomate(w, c) ==
    run[w].stage = "ready" /\ run[w].msg \in AiMsgs /\ ConvOf[run[w].msg] = c

\* For OneLateReply: a runner about to send an automated message has sent none
\* to that lead since the lead said stop, and none is late before that.
LateInv ==
    \A w \in Runners, c \in Convs :
        /\ late[w][c] <= 1
        /\ ~Silenced(c) \/ AboutToAutomate(w, c) => late[w][c] = 0

\* For ExclusiveClaim: within its lease, a held row is one that no claim, sweep
\* or delete would touch.
HeldInv ==
    \A m \in Msgs \ overran, w \in Runners : Holds(w, m) =>
        /\ row[m].status \in {"sending", "sent"}
        /\ row[m].status = "sending" => row[m].age < Lease
        /\ \A v \in Runners : Holds(v, m) => v = w

\* For HonestRecords: past the socket call without an error, the row is out.
ReachedInv ==
    /\ HonestRecords
    /\ \A w \in Runners : run[w].stage \in {"acked", "marked", "guarded", "confirmed"}
                          => run[w].msg \in reached

\* For ClosedForGood: a lone runner's row is never a closed or a waiting one,
\* whatever its lease, since nobody else sweeps or claims.
LoneInv ==
    \A w \in Runners, m \in Msgs : Holds(w, m) => row[m].status \in {"sending", "sent"}

\* The attempts of a row that count against the limit: holds take it past it.
Counted(m) == AtMost(row[m].attempts, MaxAttempts)

\* For KeepsContract: a lone runner has called the socket less often than it
\* has claimed the row, and less often than the limit, until it makes the call
\* of the claim it is working on; a row that waits has a call left, a hold
\* having made none.
TriesOf(m) ==
    /\ tries[m] <= Counted(m)
    /\ row[m].status = "absent" => tries[m] = 0
    /\ row[m].status = "queued" => tries[m] < MaxAttempts
    /\ \A w \in Runners : Holds(w, m) /\ run[w].stage \in {"claimed", "holding", "ready"}
                         => tries[m] < Counted(m)

TriesInv == \A m \in Msgs : TriesOf(m)

-----------------------------------------------------------------------------
(* What a comment says of the queue and the code does not do.               *)

\* "a bookkeeping error must not turn a delivered message into a failed one,
\* which would resend it": a row marked sent stays sent.
SentStaysSent ==
    [][\A m \in Msgs : row[m].status = "sent" => row'[m].status = "sent"]_vars
=============================================================================
