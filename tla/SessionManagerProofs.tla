------------------------- MODULE SessionManagerProofs -------------------------
(* Theorems about SessionManager, for every number of sessions, requests,    *)
(* reconnect attempts and faults.                                            *)
EXTENDS SessionManager, TLAPS

SessType == [attempts : 0 .. MaxReconnects, timer : BOOLEAN, opening : BOOLEAN,
             sockets : 0 .. 1, linked : BOOLEAN]

\* One thing at a time, of one session.
OneThing(r) ==
    /\ r.sockets = 1 => ~r.opening /\ ~r.timer
    /\ ~(r.opening /\ r.timer)

\* A close being handled is the only thing its session has going.
ClosedWhileHandled ==
    \A h \in handlers : h.report = "reconnecting" =>
        sess[h.sess].sockets = 0 /\ ~sess[h.sess].opening /\ ~sess[h.sess].timer

\* The part of the state the sockets depend on.
Inv ==
    /\ sess \in [Sessions -> SessType]
    /\ handlers \subseteq [sess : Sessions, report : Reports]
    /\ OneThingAtATime
    /\ ClosedWhileHandled

\* One session changes, and gains no close to handle while it has something going.
LEMMA OneSession ==
    ASSUME Inv, NEW s \in Sessions, NEW r \in SessType,
           sess' = [sess EXCEPT ![s] = r],
           OneThing(r),
           handlers' \subseteq [sess : Sessions, report : Reports],
           \A h \in handlers' : h.report = "reconnecting" =>
               IF h.sess = s THEN r.sockets = 0 /\ ~r.opening /\ ~r.timer
                             ELSE h \in handlers
    PROVE  Inv'
<1>1. sess' \in [Sessions -> SessType] BY DEF Inv
<1>2. \A t \in Sessions : sess'[t] = IF t = s THEN r ELSE sess[t] BY DEF Inv
<1>3. r.sockets \in 0 .. 1 BY DEF SessType
<1>4. OneThingAtATime' BY <1>2, <1>3 DEF Inv, OneThingAtATime, OneThing
<1>5. ClosedWhileHandled'
  <2> SUFFICES ASSUME NEW h \in handlers', h.report = "reconnecting"
               PROVE  sess'[h.sess].sockets = 0 /\ ~sess'[h.sess].opening /\ ~sess'[h.sess].timer
    BY DEF ClosedWhileHandled
  <2>1. h.sess \in Sessions OBVIOUS
  <2> QED BY <1>2, <2>1 DEF Inv, ClosedWhileHandled
<1> QED BY <1>1, <1>4, <1>5 DEF Inv

\* A session that no close is being handled for may change as it likes.
LEMMA QuietSession ==
    ASSUME Inv, NEW s \in Sessions, NEW r \in SessType,
           sess' = [sess EXCEPT ![s] = r],
           OneThing(r),
           handlers' \subseteq [sess : Sessions, report : Reports],
           \A h \in handlers' : h.report = "reconnecting" => h \in handlers /\ h.sess # s
    PROVE  Inv'
BY OneSession

LEMMA NoSessionChanges ==
    ASSUME Inv, UNCHANGED sess, handlers' \subseteq handlers
    PROVE  Inv'
BY DEF Inv, OneThingAtATime, ClosedWhileHandled

LEMMA ZeroAttempts == 0 \in 0 .. MaxReconnects
BY SessionsAssumption

LEMMA GoneIsTyped == Gone \in SessType
BY ZeroAttempts DEF Gone, SessType

LEMMA FieldTypes ==
    ASSUME NEW r \in SessType
    PROVE  /\ r.attempts \in 0 .. MaxReconnects /\ r.sockets \in 0 .. 1
           /\ r.timer \in BOOLEAN /\ r.opening \in BOOLEAN /\ r.linked \in BOOLEAN
           /\ r = [attempts |-> r.attempts, timer |-> r.timer, opening |-> r.opening,
                   sockets |-> r.sockets, linked |-> r.linked]
BY DEF SessType

\* What setting a field does to a session.
LEMMA SettingAField ==
    ASSUME NEW r \in SessType, NEW b \in BOOLEAN
    PROVE  /\ [r EXCEPT !.timer = b] \in SessType
           /\ [r EXCEPT !.timer = b].timer = b
           /\ [r EXCEPT !.timer = b].opening = r.opening
           /\ [r EXCEPT !.timer = b].sockets = r.sockets
           /\ [r EXCEPT !.opening = b] \in SessType
           /\ [r EXCEPT !.opening = b].opening = b
           /\ [r EXCEPT !.opening = b].timer = r.timer
           /\ [r EXCEPT !.opening = b].sockets = r.sockets
           /\ [r EXCEPT !.sockets = 0] \in SessType
           /\ [r EXCEPT !.sockets = 0].sockets = 0
           /\ [r EXCEPT !.sockets = 0].timer = r.timer
           /\ [r EXCEPT !.sockets = 0].opening = r.opening
BY FieldTypes DEF SessType

LEMMA TornIsTyped ==
    ASSUME Inv, NEW s \in Sessions
    PROVE  /\ Torn(s) \in SessType /\ Torn(s).sockets = 0
           /\ ~Torn(s).timer /\ Torn(s).opening = sess[s].opening
<1>1. sess[s] \in SessType BY DEF Inv
<1>2. (IF sess[s].sockets > 0 THEN sess[s].sockets - 1 ELSE 0) = 0
  BY <1>1, FieldTypes
<1> DEFINE r == [sess[s] EXCEPT !.timer = FALSE]
<1>3. Torn(s) = [r EXCEPT !.sockets = 0] BY <1>2 DEF Torn
<1>4. r \in SessType /\ r.timer = FALSE /\ r.opening = sess[s].opening
  BY <1>1, SettingAField
<1> HIDE DEF r
<1>5. /\ [r EXCEPT !.sockets = 0] \in SessType
      /\ [r EXCEPT !.sockets = 0].sockets = 0
  BY <1>4, SettingAField
<1>6. /\ [r EXCEPT !.sockets = 0].timer = FALSE
      /\ [r EXCEPT !.sockets = 0].opening = sess[s].opening
  BY <1>4, SettingAField
<1> QED BY <1>3, <1>5, <1>6

LEMMA ReportsAreTyped ==
    ASSUME NEW s \in Sessions, NEW report \in Reports
    PROVE  Report(s, report) \in [sess : Sessions, report : Reports]
BY DEF Report

LEMMA ExhaustedIsTyped ==
    ASSUME NEW s \in Sessions
    PROVE  /\ Exhausted(s) \subseteq [sess : Sessions, report : Reports]
           /\ \A h \in Exhausted(s) : h.report = "exhausted"
BY DEF Exhausted, Report, Reports

\* A session with nothing going gets at most a timer.
LEMMA SchedulingIsSafe ==
    ASSUME Inv, NEW s \in Sessions, sess[s].sockets = 0, ~sess[s].timer
    PROVE  /\ Scheduled(s) \in SessType
           /\ Scheduled(s).sockets = 0
           /\ Scheduled(s).opening = sess[s].opening
<1>1. sess[s] \in SessType BY DEF Inv
<1>2. /\ sess[s].attempts \in 0 .. MaxReconnects
      /\ sess[s].opening \in BOOLEAN /\ sess[s].linked \in BOOLEAN
  BY <1>1, FieldTypes
<1>3. CASE current # s \/ sess[s].timer \/ sess[s].attempts >= MaxReconnects
  BY <1>1, <1>3 DEF Scheduled
<1>4. CASE ~(current # s \/ sess[s].timer \/ sess[s].attempts >= MaxReconnects)
  <2>1. Scheduled(s) = [sess[s] EXCEPT !.attempts = @ + 1, !.timer = TRUE]
    BY <1>4 DEF Scheduled
  <2>2. sess[s].attempts + 1 \in 0 .. MaxReconnects
    BY <1>2, <1>4, SessionsAssumption
  <2> QED BY <1>1, <2>1, <2>2 DEF SessType
<1> QED BY <1>3, <1>4

-----------------------------------------------------------------------------
(* One lemma per action that touches a session.                            *)

LEMMA FireTimerSafe ==
    ASSUME Inv, NEW s \in Sessions, FireTimer(s)
    PROVE  Inv'
<1>1. sess[s] \in SessType /\ sess[s].timer /\ sess[s].sockets = 0 /\ ~sess[s].opening
  BY FieldTypes DEF Inv, FireTimer, OneThingAtATime, SessType
<1>2. \A h \in handlers : h.report = "reconnecting" => h.sess # s
  BY <1>1 DEF Inv, ClosedWhileHandled
<1>3. handlers' \subseteq [sess : Sessions, report : Reports]
      /\ handlers' = handlers
  BY DEF FireTimer, Inv
<1>4. CASE current = s
  <2> DEFINE r == [Torn(s) EXCEPT !.opening = TRUE]
  <2>1. sess' = [sess EXCEPT ![s] = r] BY <1>4 DEF FireTimer
  <2>2. r \in SessType /\ r.sockets = 0 /\ r.timer = FALSE
    <3>1. Torn(s) \in SessType /\ Torn(s).sockets = 0 /\ Torn(s).timer = FALSE
      BY TornIsTyped, FieldTypes
    <3> QED BY <3>1, SettingAField
  <2> HIDE DEF r
  <2>3. OneThing(r) BY <2>2 DEF OneThing
  <2> QED BY <1>2, <1>3, <2>1, <2>2, <2>3, QuietSession
<1>5. CASE current # s
  <2> DEFINE r == [sess[s] EXCEPT !.timer = FALSE]
  <2>1. sess' = [sess EXCEPT ![s] = r] BY <1>5 DEF FireTimer
  <2>2. r \in SessType /\ OneThing(r) BY <1>1 DEF SessType, OneThing
  <2> HIDE DEF r
  <2> QED BY <1>2, <1>3, <2>1, <2>2, QuietSession
<1> QED BY <1>4, <1>5

LEMMA OpenedSafe ==
    ASSUME Inv, NEW s \in Sessions, Opened(s)
    PROVE  Inv'
<1>1. sess[s] \in SessType /\ sess[s].opening /\ sess[s].sockets = 0 /\ ~sess[s].timer
  BY FieldTypes DEF Inv, Opened, OneThingAtATime, SessType
<1>2. \A h \in handlers : h.report = "reconnecting" => h.sess # s
  BY <1>1 DEF Inv, ClosedWhileHandled
<1> DEFINE r == [sess[s] EXCEPT !.opening = FALSE, !.linked = FALSE,
                                !.sockets = sess[s].sockets + 1]
<1>3. sess' = [sess EXCEPT ![s] = r] BY DEF Opened
<1>4. sess[s].sockets + 1 \in 0 .. 1 BY <1>1
<1>5. r \in SessType /\ OneThing(r) BY <1>1, <1>4 DEF SessType, OneThing
<1>6. handlers' \subseteq [sess : Sessions, report : Reports]
      /\ handlers' = handlers
  BY DEF Opened, Inv
<1> HIDE DEF r
<1> QED BY <1>2, <1>3, <1>5, <1>6, QuietSession

LEMMA ConnectFailsSafe ==
    ASSUME Inv, NEW s \in Sessions, ConnectFails(s)
    PROVE  Inv'
<1>1. sess[s] \in SessType /\ sess[s].opening /\ sess[s].sockets = 0 /\ ~sess[s].timer
  BY FieldTypes DEF Inv, ConnectFails, OneThingAtATime, SessType
<1> DEFINE r == [sess[s] EXCEPT !.opening = FALSE]
<1>2. sess' = [sess EXCEPT ![s] = r] BY DEF ConnectFails, Inv
<1>3. /\ r \in SessType /\ OneThing(r)
      /\ r.sockets = 0 /\ ~r.timer /\ ~r.opening
  BY <1>1 DEF SessType, OneThing
<1>4. handlers' \subseteq [sess : Sessions, report : Reports]
      /\ handlers' = handlers
  BY DEF ConnectFails, Inv
<1> HIDE DEF r
<1> QED BY <1>2, <1>3, <1>4, OneSession DEF Inv

LEMMA ReconnectFailsSafe ==
    ASSUME Inv, NEW s \in Sessions, ReconnectFails(s)
    PROVE  Inv'
<1>1. sess[s] \in SessType /\ sess[s].opening /\ sess[s].sockets = 0 /\ ~sess[s].timer
  BY FieldTypes DEF Inv, ReconnectFails, OneThingAtATime, SessType
<1>2. \A h \in handlers : h.report = "reconnecting" => h.sess # s
  BY <1>1 DEF Inv, ClosedWhileHandled
<1> DEFINE r == [Scheduled(s) EXCEPT !.opening = FALSE]
<1>3. sess' = [sess EXCEPT ![s] = r] BY DEF ReconnectFails
<1>4. Scheduled(s) \in SessType /\ Scheduled(s).sockets = 0 BY <1>1, SchedulingIsSafe
<1>5. r \in SessType /\ r.sockets = 0 /\ r.opening = FALSE BY <1>4, SettingAField
<1>6. handlers' = handlers \cup Exhausted(s) BY DEF ReconnectFails
<1> HIDE DEF r
<1>7. \A h \in handlers' : h.report = "reconnecting" => h \in handlers /\ h.sess # s
  BY <1>2, <1>6, ExhaustedIsTyped
<1>8. handlers' \subseteq [sess : Sessions, report : Reports]
  BY <1>6, ExhaustedIsTyped DEF Inv
<1>9. OneThing(r) BY <1>5 DEF OneThing
<1> QED BY <1>3, <1>5, <1>7, <1>8, <1>9, QuietSession

LEMMA ConnectionUpdateSafe ==
    ASSUME Inv, NEW s \in Sessions, NEW report \in Reports, ConnectionUpdate(s, report)
    PROVE  Inv'
<1>1. sess[s] \in SessType /\ sess[s].sockets = 1 /\ ~sess[s].opening /\ ~sess[s].timer
  BY FieldTypes DEF Inv, ConnectionUpdate, OneThingAtATime, SessType
<1>2. \A h \in handlers : h.report = "reconnecting" => h.sess # s
  BY <1>1 DEF Inv, ClosedWhileHandled
<1> DEFINE q == SocketAfter(s, report)
<1>3. /\ q \in SessType /\ OneThing(q) /\ ~q.opening /\ ~q.timer
      /\ report = "reconnecting" => q.sockets = 0
  BY <1>1 DEF SocketAfter, SessType, OneThing
<1>4. CASE current = s
  <2> DEFINE r == InMemory(s, report)
  <2>1. sess' = [sess EXCEPT ![s] = r] BY <1>4 DEF ConnectionUpdate
  <2>2. q.attempts \in 0 .. MaxReconnects /\ 0 \in 0 .. MaxReconnects
    BY <1>3, FieldTypes, SessionsAssumption
  <2>3. r = [q EXCEPT !.linked = (report = "active"), !.timer = FALSE,
                      !.attempts = IF report = "active" THEN 0 ELSE q.attempts]
    BY <1>3 DEF InMemory, SessType
  <2> HIDE DEF q, r
  <2>4. /\ r \in SessType /\ OneThing(r) /\ ~r.opening /\ ~r.timer
        /\ report = "reconnecting" => r.sockets = 0
    BY <1>3, <2>2, <2>3 DEF SessType, OneThing
  <2>5. handlers' = handlers \cup {Report(s, report)} BY <1>4 DEF ConnectionUpdate
  <2>6. Report(s, report).sess = s /\ Report(s, report).report = report BY DEF Report
  <2>7. \A h \in handlers' : h.report = "reconnecting" =>
          IF h.sess = s THEN report = "reconnecting" ELSE h \in handlers
    BY <1>2, <2>5, <2>6
  <2>8. handlers' \subseteq [sess : Sessions, report : Reports]
    BY <2>5, ReportsAreTyped DEF Inv
  <2> QED BY <2>1, <2>4, <2>7, <2>8, OneSession
<1>5. CASE current # s
  <2>1. sess' = [sess EXCEPT ![s] = q] /\ UNCHANGED handlers
    BY <1>5 DEF ConnectionUpdate
  <2> HIDE DEF q
  <2> QED BY <1>2, <1>3, <2>1, OneSession DEF Inv
<1> QED BY <1>4, <1>5

LEMMA HandledSafe ==
    ASSUME Inv, NEW h \in handlers, Handled(h)
    PROVE  Inv'
<1> DEFINE s == h.sess
<1>1. s \in Sessions /\ h.report \in Reports /\ sess[s] \in SessType BY DEF Inv
<1>2. CASE ReconnectsOn(h.report)
  <2>1. sess[s].sockets = 0 /\ ~sess[s].opening /\ ~sess[s].timer
    BY <1>2 DEF Inv, ClosedWhileHandled, ReconnectsOn
  <2>2. Scheduled(s) \in SessType /\ OneThing(Scheduled(s))
    BY <1>1, <2>1, SchedulingIsSafe DEF OneThing
  <2>3. /\ sess' = [sess EXCEPT ![s] = Scheduled(s)]
        /\ handlers' = (handlers \ {h}) \cup Exhausted(s)
    BY <1>2 DEF Handled, ReconnectsOn
  <2>4. \A k \in handlers : k.sess = s /\ k.report = "reconnecting" => k = h
    <3> SUFFICES ASSUME NEW k \in handlers, k.sess = s, k.report = "reconnecting" PROVE k = h
      OBVIOUS
    <3>1. /\ k \in [sess : Sessions, report : Reports]
          /\ h \in [sess : Sessions, report : Reports]
      BY DEF Inv
    <3> QED BY <1>2, <3>1 DEF ReconnectsOn
  <2>5. \A k \in handlers' : k.report = "reconnecting" => k \in handlers /\ k.sess # s
    BY <1>1, <2>3, <2>4, ExhaustedIsTyped
  <2>6. handlers' \subseteq [sess : Sessions, report : Reports]
    BY <1>1, <2>3, ExhaustedIsTyped DEF Inv
  <2> HIDE DEF s
  <2> QED BY <1>1, <2>2, <2>3, <2>5, <2>6, QuietSession
<1>3. CASE h.report = "logout"
  <2> DEFINE r == [sess[s] EXCEPT !.timer = FALSE]
  <2>1. sess' = [sess EXCEPT ![s] = r] /\ handlers' = handlers \ {h}
    BY <1>1, <1>3 DEF Handled, ReconnectsOn, Inv
  <2>2. /\ r \in SessType /\ ~r.timer
        /\ r.sockets = sess[s].sockets /\ r.opening = sess[s].opening
    BY <1>1 DEF SessType
  <2>3. OneThing(r)
    BY <1>1, <2>2 DEF Inv, OneThingAtATime, OneThing
  <2> HIDE DEF r
  <2>4. \A k \in handlers' : k.report = "reconnecting" =>
          IF k.sess = s THEN r.sockets = 0 /\ ~r.opening /\ ~r.timer
                        ELSE k \in handlers
    BY <2>1, <2>2 DEF Inv, ClosedWhileHandled
  <2>5. handlers' \subseteq [sess : Sessions, report : Reports] BY <2>1 DEF Inv
  <2> HIDE DEF s
  <2> QED BY <1>1, <2>1, <2>2, <2>3, <2>4, <2>5, OneSession
<1>4. CASE ~ReconnectsOn(h.report) /\ h.report # "logout"
  <2>1. UNCHANGED sess /\ handlers' = handlers \ {h} BY <1>4 DEF Handled
  <2> QED BY <2>1, NoSessionChanges
<1> QED BY <1>2, <1>3, <1>4 DEF Handled

LEMMA StartSessionSafe ==
    ASSUME Inv, NEW c \in Callers, NEW s \in Sessions, StartSession(c, s)
    PROVE  Inv'
<1>1. Fresh \in SessType /\ OneThing(Fresh)
  <2>1. Gone.sockets = 0 /\ Gone.timer = FALSE BY DEF Gone
  <2>2. Fresh \in SessType /\ Fresh.sockets = 0 /\ Fresh.timer = FALSE
    BY <2>1, GoneIsTyped, SettingAField DEF Fresh
  <2> QED BY <2>2 DEF OneThing
<1>2. \A h \in handlers : h.sess # s BY DEF StartSession, Referred
<1>3. sess' = [sess EXCEPT ![s] = Fresh] /\ handlers' = handlers BY DEF StartSession
<1>4. handlers' \subseteq [sess : Sessions, report : Reports] BY <1>3 DEF Inv
<1> HIDE DEF Fresh
<1> QED BY <1>1, <1>2, <1>3, <1>4, QuietSession

\* Only the account's own session loses its timer and its socket.
LEMMA DisconnectSafe ==
    ASSUME Inv, NEW c \in Callers, DisconnectAccount(c)
    PROVE  Inv'
<1>1. handlers' = handlers BY DEF DisconnectAccount
<1>2. CASE current \notin Sessions
  <2>1. sess' = sess BY <1>2 DEF DisconnectAccount, Inv
  <2> QED BY <1>1, <2>1, NoSessionChanges
<1>3. CASE current \in Sessions
  <2> DEFINE s == current
             r == Torn(s)
  <2>2. sess' = [sess EXCEPT ![s] = r] BY <1>3 DEF DisconnectAccount, Inv
  <2>3. /\ r \in SessType /\ OneThing(r)
        /\ r.sockets = 0 /\ ~r.timer /\ r.opening = sess[s].opening
    BY <1>3, TornIsTyped DEF OneThing
  <2> HIDE DEF r
  <2>4. \A h \in handlers' : h.report = "reconnecting" =>
          IF h.sess = s THEN r.sockets = 0 /\ ~r.opening /\ ~r.timer
                        ELSE h \in handlers
    BY <1>1, <2>3 DEF Inv, ClosedWhileHandled
  <2>5. handlers' \subseteq [sess : Sessions, report : Reports] BY <1>1 DEF Inv
  <2> HIDE DEF s
  <2>6. s \in Sessions BY <1>3 DEF s
  <2> QED BY <2>2, <2>3, <2>4, <2>5, <2>6, OneSession
<1> QED BY <1>2, <1>3

LEMMA RestartSafe ==
    ASSUME Inv, NEW c \in Callers, Restart(c)
    PROVE  Inv'
<1>1. Gone \in SessType BY ZeroAttempts DEF Gone, SessType
<1>2. \A s \in Sessions : sess'[s] = Gone BY DEF Restart
<1>3. OneThingAtATime' BY <1>2 DEF OneThingAtATime, Gone
<1> QED BY <1>1, <1>3 DEF Inv, ClosedWhileHandled, Restart

-----------------------------------------------------------------------------
LEMMA InvHoldsAtFirst == Init => Inv
<1> SUFFICES ASSUME Init PROVE Inv OBVIOUS
<1>1. Gone \in SessType BY ZeroAttempts DEF Gone, SessType
<1>2. OneThingAtATime BY DEF Init, OneThingAtATime, Gone
<1> QED BY <1>1, <1>2 DEF Inv, ClosedWhileHandled, Init

LEMMA InvIsKept == Inv /\ [Next]_vars => Inv'
<1> SUFFICES ASSUME Inv, [Next]_vars PROVE Inv' OBVIOUS
<1>1. ASSUME NEW s \in Sessions, OpeningEnds(s) \/ FireTimer(s) PROVE Inv'
  BY <1>1, OpenedSafe, ConnectFailsSafe, ReconnectFailsSafe, FireTimerSafe DEF OpeningEnds
<1>2. ASSUME NEW s \in Sessions, NEW report \in Reports, ConnectionUpdate(s, report)
      PROVE  Inv'
  BY <1>2, ConnectionUpdateSafe
<1>3. ASSUME NEW h \in handlers, Handled(h) \/ HandlerFails(h) PROVE Inv'
  BY <1>3, HandledSafe, NoSessionChanges DEF HandlerFails
<1>4. ASSUME NEW c \in Callers, NEW op \in Requests, Request(c, op) PROVE Inv'
  BY <1>4, NoSessionChanges DEF Request
<1>5. ASSUME NEW c \in Callers, CallStep(c) \/ RequestFails(c) \/ Restart(c) PROVE Inv'
  <2>1. CASE ConnectAccount(c) BY <2>1, NoSessionChanges DEF ConnectAccount
  <2>2. CASE DisconnectAccount(c) BY <2>2, DisconnectSafe
  <2>3. CASE ResumeAccount(c) BY <2>3, NoSessionChanges DEF ResumeAccount
  <2>4. CASE StopWritten(c) BY <2>4, NoSessionChanges DEF StopWritten
  <2>5. CASE \E s \in Sessions : StartSession(c, s) BY <2>5, StartSessionSafe
  <2>6. CASE RequestFails(c) BY <2>6, NoSessionChanges DEF RequestFails
  <2>7. CASE Restart(c) BY <2>7, RestartSafe
  <2> QED BY <1>5, <2>1, <2>2, <2>3, <2>4, <2>5, <2>6, <2>7 DEF CallStep
<1>6. CASE UNCHANGED vars BY <1>6, NoSessionChanges DEF vars
<1> QED BY <1>1, <1>2, <1>3, <1>4, <1>5, <1>6 DEF Next

\* However connection updates, reconnect timers, requests and restarts overlap,
\* a session has one live socket, or one being opened, or one timer pending.
THEOREM SessionHasOneThingAtATime == Spec => []OneThingAtATime
<1>1. Inv => OneThingAtATime BY DEF Inv
<1> QED BY <1>1, InvHoldsAtFirst, InvIsKept, PTL DEF Spec

-----------------------------------------------------------------------------
(* The types of the rest of the state.                                     *)

Accounts == [status : Statuses, cleared : BOOLEAN]

RestInv ==
    /\ account \in Accounts
    /\ current \in Sessions \cup {NoSession}
    /\ calls \in [Callers -> CallType]
    /\ faults \in 0 .. MaxFaults

LEMMA WrittenIsTyped ==
    ASSUME account \in Accounts, NEW status \in Statuses, NEW cleared \in BOOLEAN
    PROVE  Written(status, cleared) \in Accounts
BY DEF Accounts, Written

LEMMA StatusIsTyped == \A report \in Reports : StatusOf(report) \in Statuses
BY DEF Reports, StatusOf, Statuses

LEMMA TargetIsTyped == \A op \in Ops : Target[op] \in Statuses
BY DEF Ops, Target, Statuses

LEMMA ReleasedIsTyped ==
    ASSUME calls \in [Callers -> CallType], NEW cs PROVE Released(cs) \in [Callers -> CallType]
BY DEF Released, Idle, CallType

\* A request at one of these stages has its operation.
LEMMA CallIsTyped ==
    ASSUME calls \in [Callers -> CallType], NEW c \in Callers,
           calls[c].stage \in {"loaded", "writing", "removing"}
    PROVE  calls[c] \in [stage : {"loaded", "writing", "removing"}, op : Ops]
BY DEF CallType

LEMMA CallMovesOn ==
    ASSUME calls \in [Callers -> CallType], NEW c \in Callers,
           calls[c].stage \in {"loaded", "writing", "removing"},
           NEW stage \in {"writing", "removing"}
    PROVE  [calls EXCEPT ![c].stage = stage] \in [Callers -> CallType]
<1> DEFINE v == [calls[c] EXCEPT !.stage = stage]
<1>1. v \in [stage : {"loaded", "writing", "removing"}, op : Ops] BY CallIsTyped
<1>2. [calls EXCEPT ![c].stage = stage] = [calls EXCEPT ![c] = v] OBVIOUS
<1> HIDE DEF v
<1>3. v \in CallType BY <1>1 DEF CallType
<1> QED BY <1>2, <1>3

LEMMA FaultCounted ==
    ASSUME faults \in 0 .. MaxFaults, faults < MaxFaults PROVE faults + 1 \in 0 .. MaxFaults
BY SessionsAssumption

LEMMA RestIsKept == Inv /\ RestInv /\ [Next]_vars => RestInv'
<1> SUFFICES ASSUME Inv, RestInv, [Next]_vars PROVE RestInv' OBVIOUS
<1> USE DEF RestInv
<1>0. NoSession \in Sessions \cup {NoSession} OBVIOUS
<1>1. ASSUME NEW s \in Sessions, OpeningEnds(s) \/ FireTimer(s) PROVE RestInv'
  <2>1. CASE Opened(s) BY <2>1, ReleasedIsTyped DEF Opened
  <2>2. CASE ConnectFails(s) BY <1>0, <2>2, ReleasedIsTyped DEF ConnectFails
  <2>3. CASE ReconnectFails(s) BY <1>0, <2>3 DEF ReconnectFails
  <2>4. CASE FireTimer(s) BY <2>4 DEF FireTimer
  <2> QED BY <1>1, <2>1, <2>2, <2>3, <2>4 DEF OpeningEnds
<1>2. ASSUME NEW s \in Sessions, NEW report \in Reports, ConnectionUpdate(s, report)
      PROVE  RestInv'
  BY <1>2 DEF ConnectionUpdate
<1>3. ASSUME NEW h \in handlers, Handled(h) \/ HandlerFails(h) PROVE RestInv'
  <2>1. h.report \in Reports BY DEF Inv
  <2>2. Written(StatusOf(h.report), FALSE) \in Accounts
    BY <2>1, StatusIsTyped, WrittenIsTyped
  <2>3. CASE Handled(h)
    <3>1. account' \in Accounts /\ UNCHANGED <<calls, faults>> BY <2>2, <2>3 DEF Handled
    <3>2. current' = current \/ current' = NoSession BY <2>3 DEF Handled
    <3> QED BY <3>1, <3>2
  <2>4. CASE HandlerFails(h) BY <2>2, <2>4, FaultCounted DEF HandlerFails
  <2> QED BY <1>3, <2>3, <2>4
<1>4. ASSUME NEW c \in Callers, NEW op \in Requests, Request(c, op) PROVE RestInv'
  <2>1. op \in Ops BY SessionsAssumption DEF Ops, Target
  <2>2. [stage |-> "loaded", op |-> op] \in CallType BY <2>1 DEF CallType
  <2> QED BY <1>4, <2>2 DEF Request
<1>5. ASSUME NEW c \in Callers, CallStep(c) \/ RequestFails(c) \/ Restart(c) PROVE RestInv'
  <2>1. CASE ConnectAccount(c)
    <3>1. calls' \in [Callers -> CallType]
      <4>1. CASE current # NoSession BY <2>1, <4>1, ReleasedIsTyped DEF ConnectAccount
      <4>2. CASE current = NoSession BY <2>1, <4>2, CallMovesOn DEF ConnectAccount
      <4> QED BY <4>1, <4>2
    <3> QED BY <2>1, <3>1 DEF ConnectAccount
  <2>2. CASE DisconnectAccount(c) BY <1>0, <2>2, CallMovesOn DEF DisconnectAccount
  <2>3. CASE ResumeAccount(c) BY <2>3, CallMovesOn DEF ResumeAccount
  <2>4. CASE StopWritten(c)
    <3>1. calls[c].op \in Ops BY <2>4, CallIsTyped DEF StopWritten
    <3>2. (calls[c].op = "reset") \in BOOLEAN OBVIOUS
    <3>3. Written(Target[calls[c].op], calls[c].op = "reset") \in Accounts
      BY <3>1, <3>2, TargetIsTyped, WrittenIsTyped
    <3>4. calls' \in [Callers -> CallType] BY <2>4, ReleasedIsTyped, CallMovesOn DEF StopWritten
    <3> QED BY <2>4, <3>3, <3>4 DEF StopWritten
  <2>5. ASSUME NEW s \in Sessions, StartSession(c, s) PROVE RestInv'
    <3>1. calls[c].op \in Starting BY <2>5 DEF StartSession
    <3>2. [stage |-> "opening", op |-> calls[c].op, sess |-> s] \in CallType
      BY <3>1 DEF CallType
    <3>3. Written("connecting", FALSE) \in Accounts BY WrittenIsTyped DEF Statuses
    <3> QED BY <2>5, <3>2, <3>3 DEF StartSession
  <2>6. CASE RequestFails(c) BY <2>6, ReleasedIsTyped, FaultCounted DEF RequestFails
  <2>7. CASE Restart(c)
    <3>1. [stage |-> "loaded", op |-> "restore"] \in CallType /\ Idle \in CallType
      BY DEF CallType, Ops, Target, Idle
    <3> QED BY <1>0, <2>7, <3>1 DEF Restart
  <2> QED BY <1>5, <2>1, <2>2, <2>3, <2>4, <2>5, <2>6, <2>7 DEF CallStep
<1>6. CASE UNCHANGED vars BY <1>6 DEF vars
<1> QED BY <1>1, <1>2, <1>3, <1>4, <1>5, <1>6 DEF Next

LEMMA RestHoldsAtFirst == Init => RestInv
BY SessionsAssumption DEF Init, RestInv, Accounts, Statuses, CallType, Idle

\* Every variable has its type: the reconnect attempts stay within their cap, and
\* the account's status is one the service knows, in every interleaving.
THEOREM TypeCorrect == Spec => []TypeOK
<1>1. 0 .. 1 \subseteq 0 .. 2 OBVIOUS
<1>2. Inv /\ RestInv => TypeOK BY <1>1 DEF Inv, RestInv, TypeOK, SessType, Accounts
<1> QED BY <1>2, InvHoldsAtFirst, InvIsKept, RestHoldsAtFirst, RestIsKept, PTL DEF Spec
=============================================================================
