---------------------------- MODULE SessionManager ----------------------------
(***************************************************************************)
(* The WhatsApp sessions of one account: session-manager.service.ts, the   *)
(* account operations that drive it (whatsapp-account.service.ts), the     *)
(* status it keeps in the database, and the startup that restores it.      *)
(* Sessions of different accounts share nothing, so one account is enough. *)
(*                                                                         *)
(* A step is what runs between two awaits.  A session object that nothing  *)
(* refers to any more may stand for a new one, so Sessions bounds how many *)
(* exist at a time and not how many are ever created.                      *)
(***************************************************************************)
EXTENDS Naturals, FiniteSets

CONSTANTS
    Sessions,       \* ManagedSession objects that exist at a time
    NoSession,      \* the account has no entry in the sessions map
    Callers,        \* requests being served, and the startup
    Requests,       \* the kinds of request that are made
    MaxReconnects,  \* MAX_RECONNECT_ATTEMPTS
    MaxFaults       \* bound on failed status writes and notifications

ASSUME SessionsAssumption ==
    /\ NoSession \notin Sessions
    /\ Requests \subseteq {"connect", "disconnect", "reset", "pause", "remove", "resume"}
    /\ MaxReconnects \in Nat /\ MaxFaults \in Nat

VARIABLES
    account,    \* the account document: its status, and whether its stored
                \* login was the last thing to be cleared
    current,    \* the account's entry in the sessions map
    sess,       \* the session objects, in memory
    calls,      \* requests waiting on an await
    handlers,   \* connection updates waiting on an await
    faults      \* failed status writes and notifications so far

vars == <<account, current, sess, calls, handlers, faults>>

-----------------------------------------------------------------------------
(* Values.                                                                 *)

Statuses == {"pending", "connecting", "active", "reconnecting",
             "disconnected", "paused", "removed"}

\* Where a request ends up writing the account's status.
Target == [connect    |-> "connecting",   restore |-> "connecting",
           disconnect |-> "disconnected", reset   |-> "disconnected",
           pause      |-> "paused",       remove  |-> "removed",
           resume     |-> "disconnected"]

Ops      == DOMAIN Target
Starting == {"connect", "restore"}

\* A session's socket, its next one being opened, and the timer before that.
Gone  == [attempts |-> 0, timer |-> FALSE,
          opening |-> FALSE, sockets |-> 0, linked |-> FALSE]
Fresh == [Gone EXCEPT !.opening = TRUE]

Idle == [stage |-> "idle"]

\* What a connection update reports, and the end of the reconnect attempts.
Reports == {"connecting", "active", "reconnecting", "logout", "exhausted"}

StatusOf(report) == IF report \in {"logout", "exhausted"} THEN "disconnected" ELSE report

\* The account is restored at startup from every status but a paused one.
Restorable ==
    /\ account.status \in {"active", "reconnecting", "connecting", "disconnected"}
    /\ ~account.cleared

\* updateAccountStatus: the disconnect code goes with the statuses that stop.
Written(status, cleared) ==
    [status  |-> status,
     cleared |-> IF status \in {"connecting", "reconnecting"} THEN account.cleared
                                                              ELSE cleared]

Referred(s) ==
    \/ current = s
    \/ sess[s].timer \/ sess[s].opening \/ sess[s].sockets > 0
    \/ \E c \in Callers : calls[c].stage = "opening" /\ calls[c].sess = s
    \/ \E h \in handlers : h.sess = s

-----------------------------------------------------------------------------
Init ==
    /\ account = [status |-> "pending", cleared |-> FALSE]
    /\ current = NoSession
    /\ sess = [s \in Sessions |-> Gone]
    /\ calls = [c \in Callers |-> Idle]
    /\ handlers = {}
    /\ faults = 0

-----------------------------------------------------------------------------
(* Reconnecting.                                                           *)

\* Mutant: the attempts are counted and never looked at.
ScheduledWithoutCap(s) ==
    IF current # s \/ sess[s].timer
    THEN sess[s]
    ELSE [sess[s] EXCEPT !.attempts = @ + 1, !.timer = TRUE]

\* What scheduleReconnect makes of the session, and of the map.
Scheduled(s) ==
    IF current # s \/ sess[s].timer \/ sess[s].attempts >= MaxReconnects
    THEN sess[s]
    ELSE [sess[s] EXCEPT !.attempts = @ + 1, !.timer = TRUE]

GivesUp(s) == current = s /\ ~sess[s].timer /\ sess[s].attempts >= MaxReconnects

Report(s, report) == [sess |-> s, report |-> report]

\* Giving up drops the session at once; the status is written behind its back.
Exhausted(s) == IF GivesUp(s) THEN {Report(s, "exhausted")} ELSE {}

\* The timer is cancelled or spent, and the socket the session knows of closed.
Torn(s) ==
    [sess[s] EXCEPT !.timer = FALSE,
                    !.sockets = IF sess[s].sockets > 0 THEN sess[s].sockets - 1 ELSE 0]

\* The timer's callback closes the old socket and opens the next one: the map
\* is looked at before the first await and not again.
FireTimer(s) ==
    /\ sess[s].timer
    /\ sess' = [sess EXCEPT ![s] = IF current = s THEN [Torn(s) EXCEPT !.opening = TRUE]
                                                 ELSE [sess[s] EXCEPT !.timer = FALSE]]
    /\ UNCHANGED <<account, current, calls, handlers, faults>>

-----------------------------------------------------------------------------
(* openSocket: the provider loads the stored login, then opens a socket.   *)

OpenerOf(s) == {c \in Callers : calls[c].stage = "opening" /\ calls[c].sess = s}

Released(cs) == [c \in Callers |-> IF c \in cs THEN Idle ELSE calls[c]]

\* Requests are accepted once the startup's connect has returned.
Serving == ~\E c \in Callers : calls[c].stage # "idle" /\ calls[c].op = "restore"

Opened(s) ==
    /\ sess[s].opening
    /\ sess' = [sess EXCEPT ![s] = [sess[s] EXCEPT !.opening = FALSE, !.linked = FALSE,
                                                   !.sockets = sess[s].sockets + 1]]
    /\ calls' = Released(OpenerOf(s))
    /\ UNCHANGED <<account, current, handlers, faults>>

\* In connectAccount the entry of the map is deleted, whosever it is.
ConnectFails(s) ==
    /\ sess[s].opening /\ OpenerOf(s) # {}
    /\ sess' = [sess EXCEPT ![s].opening = FALSE]
    /\ current' = NoSession
    /\ calls' = Released(OpenerOf(s))
    /\ UNCHANGED <<account, handlers, faults>>

ReconnectFails(s) ==
    /\ sess[s].opening /\ OpenerOf(s) = {}
    /\ sess' = [sess EXCEPT ![s] = [Scheduled(s) EXCEPT !.opening = FALSE]]
    /\ current' = IF GivesUp(s) THEN NoSession ELSE current
    /\ handlers' = handlers \cup Exhausted(s)
    /\ UNCHANGED <<account, calls, faults>>

-----------------------------------------------------------------------------
(* applyConnectionUpdate.                                                  *)

\* The library closes the socket it reports a loss or a logout of.
SocketAfter(s, report) ==
    [sess[s] EXCEPT !.sockets = IF report \in {"reconnecting", "logout"} THEN @ - 1 ELSE @]

\* Mutant: any sign of life counts as a success.
InMemoryOptimistic(s, report) ==
    [SocketAfter(s, report) EXCEPT
        !.linked   = (report = "active"),
        !.timer    = @ /\ report # "active",
        !.attempts = IF report \in {"connecting", "active"} THEN 0 ELSE @]

InMemory(s, report) ==
    [SocketAfter(s, report) EXCEPT
        !.linked   = (report = "active"),
        !.timer    = @ /\ report # "active",
        !.attempts = IF report = "active" THEN 0 ELSE @]

\* A late event of a session that was torn down is ignored.
ConnectionUpdate(s, report) ==
    /\ sess[s].sockets > 0
    /\ report \in {"connecting", "active"} => ~sess[s].linked
    /\ IF current = s
       THEN /\ sess' = [sess EXCEPT ![s] = InMemory(s, report)]
            /\ handlers' = handlers \cup {Report(s, report)}
       ELSE /\ sess' = [sess EXCEPT ![s] = SocketAfter(s, report)]
            /\ UNCHANGED handlers
    /\ UNCHANGED <<account, current, calls, faults>>

\* Mutant: every report but success asks for a new socket.
ReconnectsOnAnyReport(report) == report # "active"

ReconnectsOn(report) == report = "reconnecting"

\* The status is written, the change is published, and the rest of the update
\* follows.  A logout deletes the account's entry, whichever session it holds by
\* now.
Handled(h) ==
    /\ h \in handlers
    /\ account' = Written(StatusOf(h.report), FALSE)
    /\ LET s == h.sess IN
         \/ /\ ReconnectsOn(h.report)
            /\ sess' = [sess EXCEPT ![s] = Scheduled(s)]
            /\ current' = IF GivesUp(s) THEN NoSession ELSE current
            /\ handlers' = (handlers \ {h}) \cup Exhausted(s)
         \/ /\ h.report = "logout"
            /\ sess' = [sess EXCEPT ![s].timer = FALSE]
            /\ current' = NoSession
            /\ handlers' = handlers \ {h}
         \/ /\ ~ReconnectsOn(h.report) /\ h.report # "logout"
            /\ handlers' = handlers \ {h}
            /\ UNCHANGED <<sess, current>>
    /\ UNCHANGED <<calls, faults>>

\* The write or the publication throws: the provider logs it and goes on.
HandlerFails(h) ==
    /\ h \in handlers /\ faults < MaxFaults
    /\ faults' = faults + 1
    /\ account' \in {account, Written(StatusOf(h.report), FALSE)}
    /\ handlers' = handlers \ {h}
    /\ UNCHANGED <<current, sess, calls>>

-----------------------------------------------------------------------------
(* Requests.                                                               *)

Request(c, op) ==
    /\ Serving /\ calls[c] = Idle
    /\ op = "connect" => account.status # "removed"
    /\ calls' = [calls EXCEPT ![c] = [stage |-> "loaded", op |-> op]]
    /\ UNCHANGED <<account, current, sess, handlers, faults>>

\* connectAccount returns at once when the account has a session.
ConnectAccount(c) ==
    /\ calls[c].stage = "loaded" /\ calls[c].op \in Starting
    /\ IF current # NoSession
       THEN calls' = Released({c})
       ELSE calls' = [calls EXCEPT ![c].stage = "writing"]
    /\ UNCHANGED <<account, current, sess, handlers, faults>>

\* The status is written; the session enters the map and its socket is opened.
StartSession(c, s) ==
    /\ calls[c].stage = "writing" /\ calls[c].op \in Starting
    /\ ~Referred(s)
    /\ account' = Written("connecting", FALSE)
    /\ current' = s
    /\ sess' = [sess EXCEPT ![s] = Fresh]
    /\ calls' = [calls EXCEPT ![c] = [stage |-> "opening", op |-> calls[c].op, sess |-> s]]
    /\ UNCHANGED <<handlers, faults>>

\* disconnectAccount drops the session and closes the socket it knows of.
DisconnectAccount(c) ==
    /\ calls[c].stage = "loaded" /\ calls[c].op \notin Starting \cup {"resume"}
    /\ sess' = [s \in Sessions |-> IF s = current THEN Torn(s) ELSE sess[s]]
    /\ current' = NoSession
    /\ calls' = [calls EXCEPT ![c].stage = "writing"]
    /\ UNCHANGED <<account, handlers, faults>>

ResumeAccount(c) ==
    /\ calls[c].stage = "loaded" /\ calls[c].op = "resume"
    /\ calls' = [calls EXCEPT ![c].stage = "writing"]
    /\ UNCHANGED <<account, current, sess, handlers, faults>>

\* A removal writes its status twice: as it disconnects, and as it hides the
\* account for good.
StopWritten(c) ==
    /\ calls[c].stage \in {"writing", "removing"} /\ calls[c].op \notin Starting
    /\ account' = Written(Target[calls[c].op], calls[c].op = "reset")
    /\ calls' = IF calls[c].op = "remove" /\ calls[c].stage = "writing"
                THEN [calls EXCEPT ![c].stage = "removing"]
                ELSE Released({c})
    /\ UNCHANGED <<current, sess, handlers, faults>>

RequestFails(c) ==
    /\ calls[c].stage \in {"writing", "removing"} /\ faults < MaxFaults
    /\ faults' = faults + 1
    /\ calls' = Released({c})
    /\ UNCHANGED <<account, current, sess, handlers>>

-----------------------------------------------------------------------------
\* The process stops, in an orderly way or not, and starts again: memory and
\* sockets are gone, and reconnectPersistedSessions connects what it may.
Restart(c) ==
    /\ current' = NoSession
    /\ sess' = [s \in Sessions |-> Gone]
    /\ handlers' = {}
    /\ calls' = [d \in Callers |-> IF d = c /\ Restorable
                                   THEN [stage |-> "loaded", op |-> "restore"] ELSE Idle]
    /\ UNCHANGED <<account, faults>>

CallStep(c) ==
    \/ ConnectAccount(c) \/ DisconnectAccount(c) \/ ResumeAccount(c) \/ StopWritten(c)
    \/ \E s \in Sessions : StartSession(c, s)

OpeningEnds(s) == Opened(s) \/ ConnectFails(s) \/ ReconnectFails(s)

LinkingEnds(s) ==
    /\ ~sess[s].linked
    /\ \E report \in {"active", "reconnecting", "logout"} : ConnectionUpdate(s, report)

Next ==
    \/ \E s \in Sessions : OpeningEnds(s) \/ FireTimer(s)
    \/ \E s \in Sessions, report \in Reports \ {"exhausted"} : ConnectionUpdate(s, report)
    \/ \E h \in handlers : Handled(h) \/ HandlerFails(h)
    \/ \E c \in Callers, op \in Requests : Request(c, op)
    \/ \E c \in Callers : CallStep(c) \/ RequestFails(c) \/ Restart(c)

Spec == Init /\ [][Next]_vars

(***************************************************************************)
(* Awaits end, timers fire, and a socket that does not get through is      *)
(* closed by the library in the end (an unscanned QR times out).           *)
(***************************************************************************)
Fairness ==
    /\ \A s \in Sessions :
         WF_vars(OpeningEnds(s)) /\ WF_vars(FireTimer(s)) /\ WF_vars(LinkingEnds(s))
    /\ \A s \in Sessions, report \in Reports : WF_vars(Handled(Report(s, report)))
    /\ \A c \in Callers : WF_vars(CallStep(c))

FairSpec == Spec /\ Fairness

-----------------------------------------------------------------------------
(* Properties.                                                             *)

CallType ==
    [stage : {"idle"}] \cup [stage : {"loaded", "writing", "removing"}, op : Ops]
    \cup [stage : {"opening"}, op : Starting, sess : Sessions]

\* Every variable has its type: the attempts of a session stay within the cap.
TypeOK ==
    /\ account \in [status : Statuses, cleared : BOOLEAN]
    /\ current \in Sessions \cup {NoSession}
    /\ sess \in [Sessions -> [attempts : 0 .. MaxReconnects,
                              timer : BOOLEAN, opening : BOOLEAN,
                              sockets : 0 .. 2, linked : BOOLEAN]]
    /\ calls \in [Callers -> CallType]
    /\ handlers \subseteq [sess : Sessions, report : Reports]
    /\ faults \in 0 .. MaxFaults

\* A session has one thing going at a time: a live socket, a socket being
\* opened, or a timer that will open one.  However updates, timers and requests
\* overlap, it never holds two sockets.
OneThingAtATime ==
    \A s \in Sessions :
        /\ sess[s].sockets <= 1
        /\ sess[s].sockets = 1 => ~sess[s].opening /\ ~sess[s].timer
        /\ ~(sess[s].opening /\ sess[s].timer)

\* A session that lost its connection gets it back or is dropped: the attempts
\* are capped and each failure is followed up.  A status write or notification
\* that throws voids this (see HandlerFails).
RecoversOrIsDropped ==
    \A s \in Sessions :
        (current = s /\ ~sess[s].linked)
            ~> (current # s \/ sess[s].linked \/ faults > 0)
=============================================================================
