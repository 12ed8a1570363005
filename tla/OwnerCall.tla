----------------------------- MODULE OwnerCall -----------------------------
(***************************************************************************)
(* The phone call that follows a new-lead alert nobody looked at: a sweep  *)
(* reads back the calls it placed, then, when the owner has been silent,   *)
(* claims the leads alerted long ago, oldest first, and has a telephony    *)
(* service ring the owner about one of them                                *)
(* (owner-call-escalation.service.ts, owner-call-escalation-runner.ts).    *)
(*                                                                         *)
(* One organization with an owner's number.  The telephony service is      *)
(* external: it takes a call and some time later says the call has ended.  *)
(***************************************************************************)
EXTENDS Naturals

CONSTANTS
    Leads,      \* conversations of the organization
    Ringers,    \* processes running the sweep
    Delay,      \* OWNER_CALL_ESCALATION_DELAY_SECONDS
    LastTime,   \* bound on the clock
    MaxSlips    \* bound on crashes and on calls and writes that throw

OwnerCallAssumption == Delay \in Nat \ {0} /\ LastTime \in Nat /\ MaxSlips \in Nat

VARIABLES
    now,
    lead,       \* per conversation: its alert, whether it may be rung about, its call
    heard,      \* lastOwnerWhatsAppActivityAt, Never at first
    ring,       \* per process: what its sweep is doing
    line,       \* external, per conversation: the call as the telephony service has it
    dials,      \* history, per conversation: calls the telephony service took
    crowded,    \* history: calls a sweep placed after one it had placed already
    botched,    \* history: calls taken whose sweep did not come to know or note it
    slips

vars == <<now, lead, heard, ring, line, dials, crowded, botched, slips>>

Times == 0 .. LastTime
Never == LastTime + 1
Idle == [stage |-> "idle"]

Init ==
    /\ now = 0 /\ heard = Never /\ slips = 0
    /\ lead = [l \in Leads |-> [alertAt |-> Never, out |-> FALSE, gone |-> FALSE,
                                claimed |-> FALSE, id |-> FALSE, outcome |-> FALSE]]
    /\ ring = [w \in Ringers |-> Idle]
    /\ line = [l \in Leads |-> "none"]
    /\ dials = [l \in Leads |-> 0] /\ crowded = 0 /\ botched = 0

Slip == slips < MaxSlips /\ slips' = slips + 1
pastCalls == <<dials, crowded, botched>>

-----------------------------------------------------------------------------
(* The lead, the owner, the telephony service. *)

TimePasses ==
    /\ now < LastTime /\ now' = now + 1
    /\ UNCHANGED <<lead, heard, ring, line, pastCalls, slips>>

\* claimNewLeadAlert
Alerts(l) ==
    /\ lead[l].alertAt = Never
    /\ lead' = [lead EXCEPT ![l].alertAt = now]
    /\ UNCHANGED <<now, heard, ring, line, pastCalls, slips>>

\* The lead opts out; the chat is deleted.
StepsAside(l) ==
    /\ \/ ~lead[l].out /\ lead' = [lead EXCEPT ![l].out = TRUE]
       \/ ~lead[l].gone /\ lead' = [lead EXCEPT ![l].gone = TRUE]
    /\ UNCHANGED <<now, heard, ring, line, pastCalls, slips>>

\* noteOwnerActivity; the write is not waited for and may fail.
OwnerWrites ==
    /\ \/ heard' = now /\ UNCHANGED slips
       \/ UNCHANGED heard /\ Slip
    /\ UNCHANGED <<now, lead, ring, line, pastCalls>>

CallEnds(l) ==
    /\ line[l] = "ringing" /\ line' = [line EXCEPT ![l] = "ended"]
    /\ UNCHANGED <<now, lead, heard, ring, pastCalls, slips>>

-----------------------------------------------------------------------------
(* The sweep. *)

Awaiting == {l \in Leads : lead[l].id /\ ~lead[l].outcome /\ ~lead[l].gone}

\* sweepOnce takes its reference and asks for the outstanding calls.  A
\* process's interval does not overlap itself.
Looks(w) ==
    /\ ring[w] = Idle
    /\ ring' = [ring EXCEPT ![w] = [stage |-> "settle", ref |-> now, todo |-> Awaiting]]
    /\ UNCHANGED <<now, lead, heard, line, pastCalls, slips>>

\* settleOutstandingCalls: a call that has not ended, or cannot be read, is for
\* a later sweep; the timeline entry after the outcome may fail.
ReadsBack(w, l) ==
    /\ ring[w].stage = "settle" /\ l \in ring[w].todo
    /\ ring' = [ring EXCEPT ![w].todo = @ \ {l}]
    /\ \/ line[l] = "ended" /\ lead' = [lead EXCEPT ![l].outcome = TRUE] /\ UNCHANGED slips
       \/ line[l] = "ringing" /\ UNCHANGED <<lead, slips>>
       \/ Slip /\ UNCHANGED lead
    /\ UNCHANGED <<now, heard, line, pastCalls>>

AlertedBefore(w) == {t \in Times : t + Delay <= ring[w].ref}

\* findConversationsNeedingOwnerCall
Needing(w) == {l \in Leads : /\ lead[l].alertAt \in AlertedBefore(w)
                             /\ ~lead[l].claimed /\ ~lead[l].out /\ ~lead[l].gone}

\* Active since the delay before this sweep, whichever lead it is about
OwnerIsActive(w) == heard # Never /\ heard + Delay >= ring[w].ref

\* The organization and the candidates; an active owner has each of them skipped.
FindsLeads(w) ==
    /\ ring[w].stage = "settle" /\ ring[w].todo = {}
    /\ ring' = [ring EXCEPT ![w] =
           IF OwnerIsActive(w) \/ Needing(w) = {} THEN Idle
           ELSE [stage |-> "claim", found |-> Needing(w), placed |-> FALSE]]
    /\ UNCHANGED <<now, lead, heard, line, pastCalls, slips>>

FailsToFind(w) ==
    /\ ring[w].stage = "settle" /\ Slip
    /\ ring' = [ring EXCEPT ![w] = Idle]
    /\ UNCHANGED <<now, lead, heard, line, pastCalls>>

\* On to the next candidate, or the end of the sweep.
GoesOn(w, found, placed) ==
    ring' = [ring EXCEPT ![w] =
        IF found = {} THEN Idle
        ELSE [stage |-> "claim", found |-> found, placed |-> placed]]

\* claimOwnerCallEscalation's filter
IsFree(l) == ~lead[l].claimed

Claims(w, l) ==
    /\ ring[w].stage = "claim" /\ l \in ring[w].found
    /\ \A k \in ring[w].found : lead[l].alertAt <= lead[k].alertAt
    /\ IF IsFree(l)
       THEN /\ lead' = [lead EXCEPT ![l].claimed = TRUE]
            /\ ring' = [ring EXCEPT ![w] = [stage |-> "dial", found |-> @.found \ {l}, at |-> l, placed |-> @.placed]]
       ELSE GoesOn(w, ring[w].found \ {l}, ring[w].placed) /\ UNCHANGED lead
    /\ UNCHANGED <<now, heard, line, pastCalls, slips>>

\* The telephony service takes the call.
Taken(w) ==
    LET l == ring[w].at IN
    /\ line' = [line EXCEPT ![l] = "ringing"]
    /\ dials' = [dials EXCEPT ![l] = @ + 1]
    /\ crowded' = IF ring[w].placed THEN crowded + 1 ELSE crowded

\* placeOutboundCall answers, throws, or throws with the call placed.
Dials(w) ==
    /\ ring[w].stage = "dial"
    /\ \/ /\ Taken(w) /\ ring' = [ring EXCEPT ![w].stage = "note", ![w].placed = TRUE]
          /\ UNCHANGED <<botched, slips>>
       \/ /\ Slip /\ GoesOn(w, ring[w].found, ring[w].placed)
          /\ UNCHANGED <<line, pastCalls>>
       \/ /\ Slip /\ Taken(w) /\ GoesOn(w, ring[w].found, TRUE)
          /\ botched' = botched + 1
    /\ UNCHANGED <<now, lead, heard>>

\* Mutant: the loop goes on to ring about the next lead.
AndTheNext(w) == GoesOn(w, ring[w].found, TRUE)

\* "One call per tick, per organization"
OneCallPerTick(w) == ring' = [ring EXCEPT ![w] = Idle]

\* The call's id, if the answer had one, and the timeline entry: two writes.
Notes(w) ==
    /\ ring[w].stage = "note"
    /\ lead' \in {lead, [lead EXCEPT ![ring[w].at].id = TRUE]}
    /\ \/ OneCallPerTick(w) /\ UNCHANGED <<botched, slips>>
       \/ GoesOn(w, ring[w].found, TRUE) /\ Slip /\ botched' = botched + 1
    /\ UNCHANGED <<now, heard, line, dials, crowded>>

Crashes(w) ==
    /\ ring[w] # Idle /\ Slip
    /\ ring' = [ring EXCEPT ![w] = Idle]
    /\ UNCHANGED <<now, lead, heard, line, pastCalls>>

Sweeps(w) ==
    \/ Looks(w) \/ FindsLeads(w) \/ Dials(w) \/ Notes(w)
    \/ \E l \in Leads : ReadsBack(w, l) \/ Claims(w, l)

Next ==
    \/ TimePasses \/ OwnerWrites
    \/ \E l \in Leads : Alerts(l) \/ StepsAside(l) \/ CallEnds(l)
    \/ \E w \in Ringers : Sweeps(w) \/ FailsToFind(w) \/ Crashes(w)

Spec == Init /\ [][Next]_vars

-----------------------------------------------------------------------------
\* Types of the variables.
TypeOK ==
    /\ now \in Times /\ heard \in Times \cup {Never} /\ slips \in 0 .. MaxSlips
    /\ lead \in [Leads -> [alertAt : Times \cup {Never}, out : BOOLEAN, gone : BOOLEAN,
                           claimed : BOOLEAN, id : BOOLEAN, outcome : BOOLEAN]]
    /\ ring \in [Ringers ->
          {Idle} \cup [stage : {"settle"}, ref : Times, todo : SUBSET Leads]
          \cup [stage : {"claim"}, found : SUBSET Leads, placed : BOOLEAN]
          \cup [stage : {"dial", "note"}, found : SUBSET Leads, at : Leads, placed : BOOLEAN]]
    /\ line \in [Leads -> {"none", "ringing", "ended"}]
    /\ dials \in [Leads -> Nat] /\ crowded \in Nat /\ botched \in 0 .. MaxSlips

\* The owner is never rung twice about one lead, whatever fails and however many
\* processes sweep, and a sweep rings once: a second call of one sweep takes a
\* call it placed before without coming to know it, or without noting it.
RingsSparingly == (\A l \in Leads : dials[l] <= 1) /\ crowded <= botched

\* "The owner has been active on WhatsApp at all since this specific lead's alert
\* went out": a lead of whom that is so when the sweep looks is not taken up.
SeenAlertsAreLeft ==
    [][\A w \in Ringers : \A l \in Leads :
          ring[w].stage = "settle" /\ ring'[w].stage = "claim" /\ l \in ring'[w].found
             => heard = Never \/ heard <= lead[l].alertAt]_vars

\* A call that has ended and whose id is known is waiting for its outcome.
OutcomeUnread == \E l \in Awaiting : line[l] = "ended"
=============================================================================
