---------------------------- MODULE AuthSessions ----------------------------
(***************************************************************************)
(* The refresh sessions of one user.  A sign-in starts a family; a refresh *)
(* replaces its session by a new one of the family, a token used twice     *)
(* ends the family, and sign-outs revoke.  A request reads the session of  *)
(* its token and decides; what it decided is written one await later, each *)
(* transaction as one step: two that touch one family write to a document  *)
(* both have read, so that one of them has to start again.                 *)
(*                                                                         *)
(* A family is named by the session that began it.  Passwords, addresses   *)
(* and the limit on sign-ins are not modelled.                             *)
(***************************************************************************)
EXTENDS Integers, FiniteSets

CONSTANTS
    Sessions,  \* ids of refresh sessions
    Calls      \* requests in progress at a time

VARIABLES
    session,   \* the session documents
    family,    \* the family of each
    call,      \* what each request is about to write
    enabled    \* the user and the organisation are active

vars == <<session, family, call, enabled>>

Statuses == {"none", "active", "rotated", "expired", "revoked", "compromised"}
NoCall == [does |-> "nothing"]

Init ==
    /\ session = [s \in Sessions |-> [status |-> "none", over |-> FALSE]]
    /\ family = [s \in Sessions |-> s]
    /\ call = [c \in Calls |-> NoCall]
    /\ enabled = TRUE

Unused(s) == session[s].status = "none"
Fresh == [status |-> "active", over |-> FALSE]
Family(s) == {q \in Sessions : ~Unused(q) /\ family[q] = family[s]}

\* loginWithPassword: createAuthenticatedSession in a transaction
SignIn(s) ==
    /\ Unused(s) /\ enabled
    /\ session' = [session EXCEPT ![s] = Fresh]
    /\ family' = [family EXCEPT ![s] = s]
    /\ UNCHANGED <<call, enabled>>

\* What a refresh does about the session it has read.
Decision(s) ==
    LET found == session[s]
    IN  CASE found.status = "rotated" -> "compromise"
          [] found.status = "active" /\ found.over -> "expire"
          [] found.status = "active" /\ ~found.over /\ ~enabled -> "revoke"
          [] found.status = "active" /\ ~found.over /\ enabled -> "rotate"
          [] found.status \notin {"active", "rotated"} -> "nothing"

\* refreshAuthenticatedSession, up to its writes
ReadsForRefresh(c, s) ==
    /\ call[c] = NoCall /\ ~Unused(s) /\ Decision(s) # "nothing"
    /\ call' = [call EXCEPT ![c] = [does |-> Decision(s), on |-> s]]
    /\ UNCHANGED <<session, family, enabled>>

\* Mutant: the rotation does not ask whether the session is still active.
ClaimedBlindly(s) == TRUE

\* markRefreshSessionRotated is a compare-and-set on the status.
ClaimsRotation(s) == session[s].status = "active"

\* The successor and the rotation commit together or not at all.
Rotates(c, new) ==
    /\ call[c].does = "rotate" /\ ClaimsRotation(call[c].on)
    /\ Unused(new)
    /\ session' = [session EXCEPT ![new] = Fresh, ![call[c].on].status = "rotated"]
    /\ family' = [family EXCEPT ![new] = family[call[c].on]]
    /\ call' = [call EXCEPT ![c] = NoCall]
    /\ UNCHANGED enabled

LosesRotation(c) ==
    /\ call[c].does = "rotate" /\ ~ClaimsRotation(call[c].on)
    /\ call' = [call EXCEPT ![c].does = "compromise"]
    /\ UNCHANGED <<session, family, enabled>>

\* What revokeRefreshSessionFamily closes.
Compromised(s) == {q \in Family(s) : session[q].status \in {"active", "rotated"}}

Compromises(c) ==
    /\ call[c].does = "compromise"
    /\ session' = [q \in Sessions |-> IF q \in Compromised(call[c].on)
                                      THEN [session[q] EXCEPT !.status = "compromised"]
                                      ELSE session[q]]
    /\ call' = [call EXCEPT ![c] = NoCall]
    /\ UNCHANGED <<family, enabled>>

\* logoutCurrentSession reads an active session
ReadsForLogout(c, s) ==
    /\ call[c] = NoCall /\ session[s].status = "active"
    /\ call' = [call EXCEPT ![c] = [does |-> "revoke", on |-> s]]
    /\ UNCHANGED <<session, family, enabled>>

\* revokeRefreshSessionById and markRefreshSessionExpired write whatever the
\* session has become.
ClosesById(c) ==
    /\ call[c].does \in {"revoke", "expire"}
    /\ session' = [session EXCEPT ![call[c].on].status =
                       IF call[c].does = "revoke" THEN "revoked" ELSE "expired"]
    /\ call' = [call EXCEPT ![c] = NoCall]
    /\ UNCHANGED <<family, enabled>>

\* logoutAllUserSessions; changeOwnPassword keeps the session that asked.
RevokesActive(except) ==
    /\ session' = [q \in Sessions |-> IF session[q].status = "active" /\ q \notin except
                                      THEN [session[q] EXCEPT !.status = "revoked"]
                                      ELSE session[q]]
    /\ session' # session
    /\ UNCHANGED <<family, call, enabled>>

\* A request fails between its read and its writes.
Fails(c) ==
    /\ call[c] # NoCall
    /\ call' = [call EXCEPT ![c] = NoCall]
    /\ UNCHANGED <<session, family, enabled>>

\* A session's time runs out; the account is switched off and on.
Lapses(s) ==
    /\ session[s].status = "active" /\ ~session[s].over
    /\ session' = [session EXCEPT ![s].over = TRUE]
    /\ UNCHANGED <<family, call, enabled>>
Switches == enabled' = ~enabled /\ UNCHANGED <<session, family, call>>

Next ==
    \/ Switches
    \/ \E s \in Sessions : SignIn(s) \/ Lapses(s)
    \/ \E except \in {{}} \cup {{s} : s \in Sessions} : RevokesActive(except)
    \/ \E c \in Calls : LosesRotation(c) \/ Compromises(c) \/ ClosesById(c) \/ Fails(c)
    \/ \E c \in Calls, s \in Sessions : ReadsForRefresh(c, s) \/ ReadsForLogout(c, s) \/ Rotates(c, s)

Spec == Init /\ [][Next]_vars

-----------------------------------------------------------------------------
(* Properties. *)

\* Types of the sessions and the requests.
TypeOK ==
    /\ session \in [Sessions -> [status : Statuses, over : BOOLEAN]]
    /\ family \in [Sessions -> Sessions]
    /\ call \in [Calls -> {NoCall} \cup
         [does : {"rotate", "compromise", "revoke", "expire"}, on : Sessions]]
    /\ enabled \in BOOLEAN

Active(s) == session[s].status = "active"

\* However refreshes, sign-outs and replayed tokens overlap, a family has at most
\* one session in use, and none once it was ended because a token came twice.
SoundFamilies ==
    \A s \in Sessions : Active(s) =>
        {q \in Family(s) : session[q].status \in {"active", "compromised"}} = {s}
=============================================================================
