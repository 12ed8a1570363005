----------------------- MODULE OutboundDeliveryProofs -----------------------
(***************************************************************************)
(* Theorems about OutboundDelivery, for any number of runners, rows and    *)
(* conversations and any limits.  Typing first, then one inductive         *)
(* invariant per property: what the property says, and what a runner holds *)
(* between two of its steps.                                               *)
(***************************************************************************)
EXTENDS OutboundDelivery, FiniteSetTheorems, TLAPS

-----------------------------------------------------------------------------
(* Helpers.                                                                *)

\* AtMost bounds what it is given.
LEMMA AtMostRange ==
    ASSUME NEW n \in Nat, NEW limit \in Nat
    PROVE  AtMost(n, limit) \in 0 .. limit
BY DEF AtMost

\* The delay before a retry is never longer than the cap.
LEMMA BackoffRange ==
    ASSUME NEW n
    PROVE  Backoff(n) \in 0 .. BackoffCap
BY LimitsAssumption DEF Backoff

\* Messages are finitely many, and so are the rows created so far.
LEMMA CreatedCount == Cardinality(Created) \in Nat
<1>1. IsFiniteSet(Msgs)
    BY MessagesAssumption, FS_Union DEF Msgs
<1>2. IsFiniteSet(Created)
    BY <1>1, FS_Subset DEF Created
<1> QED
    BY <1>2, FS_CardinalityType

\* A status write keeps the type of a row.
LEMMA MovedType ==
    ASSUME row \in [Msgs -> RowType], NEW m \in Msgs, NEW s \in Statuses
    PROVE  /\ Moved(m, s) \in RowType
           /\ Moved(m, s) = [row[m] EXCEPT !.status = s, !.retry = 0, !.age = 0]
<1>1. row[m] \in RowType
    OBVIOUS
<1>2. 0 \in 0 .. BackoffCap /\ 0 \in 0 .. Lease
    BY LimitsAssumption
<1> QED
    BY <1>1, <1>2 DEF Moved, RowType

\* What a status write leaves in the row.
LEMMA MovedStatus ==
    ASSUME row \in [Msgs -> RowType], NEW m \in Msgs
    PROVE  \A s : Moved(m, s).status = s
<1>1. row[m] \in RowType
    OBVIOUS
<1> QED
    BY <1>1 DEF Moved, RowType

\* A runner that is not idle holds a row, and goes on holding it through Goto.
LEMMA GotoType ==
    ASSUME run \in [Runners -> RunType], NEW w \in Runners, run[w].stage # "idle",
           NEW s \in Stages \ {"idle"}, Goto(w, s)
    PROVE  /\ run' \in [Runners -> RunType]
           /\ run[w].msg \in Msgs /\ run[w].attempts \in 0 .. MaxClaims
           /\ run[w].resume \in Int
<1>1. run[w] \in [stage : Stages \ {"idle"}, msg : Msgs,
                  attempts : 0 .. MaxClaims, resume : Int]
    BY DEF RunType
<1>2. [run[w] EXCEPT !.stage = s] \in RunType
    BY <1>1 DEF RunType
<1> QED
    BY <1>1, <1>2 DEF Goto

\* Claim gives a row to one runner and changes no other.
LEMMA ClaimEffect ==
    ASSUME run \in [Runners -> RunType], NEW w \in Runners, NEW m \in Msgs, Claim(w, m)
    PROVE  /\ run[w] = Idle
           /\ run'[w].stage = "claimed" /\ run'[w].msg = m
           /\ \A v \in Runners \ {w} : run'[v] = run[v]
<1> DEFINE attempt == AtMost(row[m].attempts + 1, MaxClaims)
<1>1. /\ run[w] = Idle
      /\ run' = [run EXCEPT ![w] = [stage |-> "claimed", msg |-> m,
                                    attempts |-> attempt, resume |-> 0]]
    BY DEF Claim
<1> HIDE DEF attempt
<1> QED
    BY <1>1

\* Goto changes the stage of one runner and nothing else.
LEMMA GotoEffect ==
    ASSUME run \in [Runners -> RunType], NEW w \in Runners, run[w].stage # "idle",
           NEW s \in Stages \ {"idle"}, Goto(w, s)
    PROVE  /\ run'[w].stage = s
           /\ run'[w].msg = run[w].msg /\ run'[w].attempts = run[w].attempts
           /\ \A v \in Runners \ {w} : run'[v] = run[v]
<1>1. run[w] \in [stage : Stages \ {"idle"}, msg : Msgs,
                  attempts : 0 .. MaxClaims, resume : Int]
    BY DEF RunType
<1>2. run'[w] = [run[w] EXCEPT !.stage = s]
    BY DEF Goto
<1> QED
    BY <1>1, <1>2 DEF Goto

\* What a runner that is not idle holds.
LEMMA HeldType ==
    ASSUME run \in [Runners -> RunType], NEW w \in Runners, run[w].stage # "idle"
    PROVE  /\ run[w].msg \in Msgs /\ run[w].attempts \in 0 .. MaxClaims
           /\ run[w].resume \in Int /\ run[w].stage \in Stages
BY DEF RunType

\* Finish leaves a runner idle.
LEMMA FinishType ==
    ASSUME run \in [Runners -> RunType], overran \subseteq Msgs,
           NEW w \in Runners, Finish(w)
    PROVE  run' \in [Runners -> RunType] /\ overran' \subseteq Msgs
BY DEF Finish, RunType, Idle

-----------------------------------------------------------------------------
(* Typing.                                                                 *)

LEMMA InitTyped == Init => TypeOK
<1> SUFFICES ASSUME Init PROVE TypeOK
    OBVIOUS
<1>1. row \in [Msgs -> RowType]
    BY LimitsAssumption DEF Init, RowType, Statuses
<1>2. conv \in [Convs -> ConvType]
  <2>1. [automation : BOOLEAN, optedOut : {FALSE}, rejected : {FALSE},
         deleted : {FALSE}, qualified : {FALSE}, lastInbound : {0}] \subseteq ConvType
    <3>1. {FALSE} \subseteq BOOLEAN /\ {0} \subseteq Nat
        OBVIOUS
    <3> QED
        BY <3>1, Zenon DEF ConvType
  <2> QED
      BY <2>1 DEF Init
<1>3. run \in [Runners -> RunType]
    BY DEF Init, RunType, Idle
<1>4. hour \in 0 .. Day - 1 /\ aborts \in 0 .. MaxAborts
    BY ClockAssumption, LimitsAssumption DEF Init
<1>5. /\ tries \in [Msgs -> 0 .. MaxAttempts + 1]
      /\ late \in [Runners -> [Convs -> 0 .. 2]]
    BY LimitsAssumption DEF Init
<1> QED
    BY <1>1, <1>2, <1>3, <1>4, <1>5 DEF Init, TypeOK, Echoes

\* The queue's writers keep the type: a producer and a claim.
LEMMA EnqueueTyped ==
    ASSUME TypeOK, NEW m \in Msgs, EnqueueAi(m) \/ EnqueueHuman(m)
    PROVE  TypeOK'
<1>1. row' \in [Msgs -> RowType]
  <2>1. \A wait \in Nat : NewRow(wait) \in RowType
      BY CreatedCount, LimitsAssumption DEF NewRow, RowType, Statuses, Waiting
  <2> QED
      BY <2>1, LimitsAssumption DEF EnqueueAi, EnqueueHuman, TypeOK
<1> QED
    BY <1>1 DEF EnqueueAi, EnqueueHuman, TypeOK, history

LEMMA ExpireTyped ==
    ASSUME row \in [Msgs -> RowType]
    PROVE  ExpireLeases \in [Msgs -> RowType]
<1>1. \A m \in Msgs : Moved(m, "failed_permanent") \in RowType
    BY MovedType DEF Statuses, Terminal
<1> QED
    BY <1>1 DEF ExpireLeases

LEMMA ClaimTyped ==
    ASSUME TypeOK, NEW w \in Runners, NEW m \in Msgs, Claim(w, m)
    PROVE  TypeOK'
<1> DEFINE attempt == AtMost(row[m].attempts + 1, MaxClaims)
<1>1. row[m] \in RowType /\ attempt \in 0 .. MaxClaims
  <2>1. row[m] \in RowType
      BY DEF TypeOK
  <2>2. row[m].attempts + 1 \in Nat /\ MaxClaims \in Nat
      BY <2>1, LimitsAssumption DEF RowType
  <2> QED
      BY <2>1, <2>2, AtMostRange
<1>2. row' \in [Msgs -> RowType]
  <2>1. ExpireLeases \in [Msgs -> RowType]
      BY ExpireTyped DEF TypeOK
  <2>2. [ExpireLeases[m] EXCEPT !.status = "sending", !.age = 0, !.attempts = attempt]
          \in RowType
    <3>1. ExpireLeases[m] \in RowType
        BY <2>1
    <3>2. "sending" \in Statuses /\ 0 \in 0 .. Lease
        BY LimitsAssumption DEF Statuses
    <3> HIDE DEF attempt
    <3> QED
        BY <1>1, <3>1, <3>2 DEF RowType
  <2>3. row' = [ExpireLeases EXCEPT
                  ![m] = [@ EXCEPT !.status = "sending", !.age = 0, !.attempts = attempt]]
      BY <2>1 DEF Claim
  <2> QED
      BY <2>1, <2>2, <2>3
<1>3. run' \in [Runners -> RunType]
  <2>1. [stage |-> "claimed", msg |-> m, attempts |-> attempt, resume |-> 0] \in RunType
      BY <1>1 DEF RunType, Stages
  <2> QED
      BY <2>1 DEF Claim, TypeOK
<1> QED
    BY <1>2, <1>3 DEF Claim, TypeOK, history

\* The runner's steps that leave the queue alone.
LEMMA WalkTyped ==
    ASSUME TypeOK, NEW w \in Runners, NEW s \in Stages \ {"idle"},
           run[w].stage # "idle", Goto(w, s),
           UNCHANGED <<row, hour, aborts, overran>>,
           conv' \in [Convs -> ConvType], echo' \in [Msgs -> Echoes],
           tries' \in [Msgs -> 0 .. MaxAttempts + 1], reached' \subseteq Msgs,
           late' \in [Runners -> [Convs -> 0 .. 2]]
    PROVE  TypeOK'
<1>1. run' \in [Runners -> RunType]
    BY GotoType DEF TypeOK
<1> QED
    BY <1>1 DEF TypeOK

\* The runner's steps that end an iteration with a write to its row.
LEMMA ReleaseTyped ==
    ASSUME TypeOK, NEW w \in Runners, Finish(w),
           row' \in [Msgs -> RowType],
           UNCHANGED <<conv, hour, echo, tries, reached, late>>,
           aborts' \in 0 .. MaxAborts
    PROVE  TypeOK'
<1>1. run' \in [Runners -> RunType] /\ overran' \subseteq Msgs
    BY FinishType DEF TypeOK
<1> QED
    BY <1>1 DEF TypeOK

LEMMA CheckTyped ==
    ASSUME TypeOK, NEW w \in Runners, Undeliverable(w) \/ CheckAi(w) \/ CheckHuman(w)
    PROVE  TypeOK'
<1>1. CASE \E s \in {"dropping", "ready"} : Goto(w, s)
  <2> PICK s \in {"dropping", "ready"} : Goto(w, s)
      BY <1>1
  <2> QED
      BY WalkTyped DEF Undeliverable, CheckAi, CheckHuman, history, TypeOK, Stages
<1>2. CASE ~ \E s \in {"dropping", "ready"} : Goto(w, s)
  <2>1. /\ run' = [run EXCEPT ![w].stage = "holding", ![w].resume = -UntilAllowed(hour)]
        /\ UNCHANGED <<row, conv, hour, echo, aborts, history>>
        /\ run[w].stage = "claimed"
      BY <1>2 DEF Undeliverable, CheckAi, CheckHuman
  <2>2. UntilAllowed(hour) \in Int
      BY ClockAssumption DEF TypeOK, UntilAllowed
  <2>3. run' \in [Runners -> RunType]
    <3>1. run[w] \in [stage : Stages \ {"idle"}, msg : Msgs,
                      attempts : 0 .. MaxClaims, resume : Int]
        BY <2>1 DEF TypeOK, RunType
    <3>2. [run[w] EXCEPT !.stage = "holding", !.resume = -UntilAllowed(hour)]
            \in [stage : Stages \ {"idle"}, msg : Msgs,
                 attempts : 0 .. MaxClaims, resume : Int]
      <4>1. "holding" \in Stages \ {"idle"} /\ -UntilAllowed(hour) \in Int
          BY <2>2 DEF Stages
      <4> QED
          BY <3>1, <4>1
    <3>3. [run[w] EXCEPT !.stage = "holding", !.resume = -UntilAllowed(hour)] \in RunType
        BY <3>2 DEF RunType
    <3>4. run' = [run EXCEPT ![w] = [@ EXCEPT !.stage = "holding",
                                              !.resume = -UntilAllowed(hour)]]
        BY <2>1 DEF TypeOK
    <3> QED
        BY <3>3, <3>4 DEF TypeOK
  <2> QED
      BY <2>1, <2>3 DEF TypeOK, history
<1> QED
    BY <1>1, <1>2

LEMMA SocketTyped ==
    ASSUME TypeOK, NEW w \in Runners, Send(w) \/ SendFails(w)
    PROVE  TypeOK'
<1>1. run[w].stage # "idle" /\ SocketCall(w)
    BY DEF Send, SendFails, SocketCall
<1>2. run[w].msg \in Msgs
    BY <1>1, HeldType DEF TypeOK
<1>3. tries' \in [Msgs -> 0 .. MaxAttempts + 1]
  <2> DEFINE m == run[w].msg
  <2>1. AtMost(tries[m] + 1, MaxAttempts + 1) \in 0 .. MaxAttempts + 1
    <3>1. tries[m] + 1 \in Nat /\ MaxAttempts + 1 \in Nat
        BY <1>2, LimitsAssumption DEF TypeOK
    <3> QED
        BY <3>1, AtMostRange
  <2> QED
      BY <1>1, <2>1 DEF SocketCall, TypeOK
<1>4. late' \in [Runners -> [Convs -> 0 .. 2]]
  <2> DEFINE c == ConvOf[run[w].msg]
  <2>1. c \in Convs
      BY <1>2, MessagesAssumption
  <2>2. late[w] \in [Convs -> 0 .. 2]
      BY DEF TypeOK
  <2>5. \/ late' = late
        \/ late' = [late EXCEPT ![w] = [late[w] EXCEPT ![c] = AtMost(late[w][c] + 1, 2)]]
      BY <1>1 DEF SocketCall, TypeOK
  <2> HIDE DEF c
  <2>3. AtMost(late[w][c] + 1, 2) \in 0 .. 2
    <3>1. late[w][c] + 1 \in Nat
        BY <2>1, <2>2
    <3> QED
        BY <3>1, AtMostRange
  <2>4. [late[w] EXCEPT ![c] = AtMost(late[w][c] + 1, 2)] \in [Convs -> 0 .. 2]
      BY <2>2, <2>3
  <2> QED
      BY <2>4, <2>5 DEF TypeOK
<1>5. reached' \subseteq Msgs /\ echo' \in [Msgs -> Echoes]
    BY <1>2 DEF Send, SendFails, Reaches, TypeOK, Echoes
<1>6. PICK s \in {"acked", "failing"} : Goto(w, s)
    BY DEF Send, SendFails
<1>7. UNCHANGED <<row, conv, hour, aborts, overran>>
    BY DEF Send, SendFails
<1> QED
    BY <1>1, <1>3, <1>4, <1>5, <1>6, <1>7, WalkTyped DEF TypeOK, Stages

LEMMA AfterSocketTyped ==
    ASSUME TypeOK, NEW w \in Runners,
           MarkSent(w) \/ Remember(w) \/ Confirm(w) \/ AfterSendFails(w)
    PROVE  TypeOK'
<1>1. run[w].stage # "idle"
    BY DEF MarkSent, Remember, Confirm, AfterSendFails
<1>2. run[w].msg \in Msgs
    BY <1>1, HeldType DEF TypeOK
<1>3. CASE MarkSent(w)
  <2>1. run' \in [Runners -> RunType]
      BY <1>1, <1>3, GotoType DEF TypeOK, MarkSent, Stages
  <2>2. Moved(run[w].msg, "sent") \in RowType
      BY <1>2, MovedType DEF TypeOK, Statuses, Terminal
  <2>3. row' \in [Msgs -> RowType]
      BY <1>3, <2>2 DEF MarkSent, TypeOK
  <2> QED
      BY <1>3, <2>1, <2>3 DEF MarkSent, TypeOK, history
<1>4. CASE Remember(w)
  <2>1. echo' \in [Msgs -> Echoes]
      BY <1>2, <1>4 DEF Remember, TypeOK, Echoes
  <2> QED
      BY <1>1, <1>4, <2>1, WalkTyped DEF Remember, TypeOK, history, Stages
<1>5. CASE Confirm(w)
  <2>1. conv' \in [Convs -> ConvType]
    <3>1. \A c \in Convs : [conv[c] EXCEPT !.qualified = TRUE] \in ConvType
        BY DEF TypeOK, ConvType
    <3>2. conv' = conv \/ conv' = [conv EXCEPT ![ConvOf[run[w].msg]] =
                                      [@ EXCEPT !.qualified = TRUE]]
        BY <1>5 DEF Confirm
    <3> QED
        BY <3>1, <3>2 DEF TypeOK
  <2> QED
      BY <1>1, <1>5, <2>1, WalkTyped DEF Confirm, TypeOK, history, Stages
<1>6. CASE AfterSendFails(w)
    BY <1>1, <1>6, WalkTyped DEF AfterSendFails, TypeOK, history, Stages
<1> QED
    BY <1>3, <1>4, <1>5, <1>6

LEMMA EndTyped ==
    ASSUME TypeOK, NEW w \in Runners,
           Drop(w) \/ Hold(w) \/ Publish(w) \/ MarkFailed(w) \/ Abort(w)
    PROVE  TypeOK'
<1>1. Finish(w) /\ run[w].stage # "idle"
    BY DEF Drop, Hold, Publish, MarkFailed, Abort
<1>2. /\ run[w].msg \in Msgs /\ run[w].resume \in Int
      /\ run[w].attempts \in 0 .. MaxClaims
    BY <1>1, HeldType DEF TypeOK
<1>3. \A s \in Statuses : Moved(run[w].msg, s) \in RowType
    BY <1>2, MovedType DEF TypeOK
<1>4. row' \in [Msgs -> RowType]
  <2>1. CASE Drop(w)
      BY <1>3, <2>1 DEF Drop, TypeOK, Statuses, Terminal
  <2>2. CASE Hold(w)
    <3>1. [Moved(run[w].msg, "queued") EXCEPT !.since = run[w].resume] \in RowType
      <4>1. Moved(run[w].msg, "queued") \in RowType
          BY <1>3 DEF Statuses, Waiting
      <4> QED
          BY <1>2, <4>1 DEF RowType
    <3> QED
        BY <2>2, <3>1 DEF Hold, TypeOK
  <2>3. CASE MarkFailed(w)
    <3>1. \A n : [Moved(run[w].msg, "failed") EXCEPT !.retry = Backoff(n)] \in RowType
      <4>1. Moved(run[w].msg, "failed") \in RowType
          BY <1>3 DEF Statuses, Waiting
      <4> QED
          BY <4>1, BackoffRange DEF RowType
    <3>2. Moved(run[w].msg, "failed_permanent") \in RowType
        BY <1>3 DEF Statuses, Terminal
    <3> QED
        BY <2>3, <3>1, <3>2 DEF MarkFailed, TypeOK
  <2>4. CASE Publish(w) \/ Abort(w)
      BY <2>4 DEF Publish, Abort, TypeOK
  <2> QED
      BY <2>1, <2>2, <2>3, <2>4
<1>5. aborts' \in 0 .. MaxAborts
    BY LimitsAssumption DEF Drop, Hold, Publish, MarkFailed, Abort, TypeOK
<1> QED
    BY <1>1, <1>4, <1>5, ReleaseTyped DEF Drop, Hold, Publish, MarkFailed, Abort

LEMMA EventTyped ==
    ASSUME TypeOK, NEW c \in Convs, ConversationEvent(c)
    PROVE  TypeOK'
<1>1. \A stamp \in 0 .. Cardinality(Created) :
        [conv[c] EXCEPT !.lastInbound = stamp, !.deleted = FALSE] \in ConvType
  <2>1. \A stamp \in 0 .. Cardinality(Created) : stamp \in Nat
      BY CreatedCount
  <2>2. \A stamp \in Nat :
          [conv[c] EXCEPT !.lastInbound = stamp, !.deleted = FALSE] \in ConvType
    <3>1. conv[c] \in ConvType
        BY DEF TypeOK
    <3> QED
        BY <3>1 DEF ConvType
  <2> QED
      BY <2>1, <2>2
<1>2. /\ [conv[c] EXCEPT !.optedOut = TRUE, !.automation = FALSE] \in ConvType
      /\ [conv[c] EXCEPT !.rejected = TRUE, !.automation = FALSE] \in ConvType
      /\ [conv[c] EXCEPT !.automation = FALSE] \in ConvType
      /\ [conv[c] EXCEPT !.automation = TRUE] \in ConvType
      /\ [conv[c] EXCEPT !.deleted = FALSE] \in ConvType
      /\ [conv[c] EXCEPT !.automation = TRUE, !.rejected = FALSE] \in ConvType
      /\ [conv[c] EXCEPT !.deleted = TRUE, !.automation = FALSE] \in ConvType
    BY DEF TypeOK, ConvType
<1>3. \A new \in ConvType : ConvStep(c, new) => TypeOK'
    BY DEF ConvStep, TypeOK, history
<1>4. CASE ResumeAutomation(c)
  <2>1. conv' \in [Convs -> ConvType]
    <3>1. conv' = [conv EXCEPT ![c] = [@ EXCEPT !.automation = TRUE, !.rejected = FALSE]]
        BY <1>4 DEF ResumeAutomation
    <3> QED
        BY <1>2, <3>1 DEF TypeOK
  <2>2. late' \in [Runners -> [Convs -> 0 .. 2]]
    <3>1. \A w \in Runners : [late[w] EXCEPT ![c] = 0] \in [Convs -> 0 .. 2]
        BY DEF TypeOK
    <3> QED
        BY <1>4, <3>1 DEF ResumeAutomation, TypeOK
  <2> QED
      BY <1>4, <2>1, <2>2 DEF ResumeAutomation, TypeOK
<1>5. CASE DeleteChat(c)
  <2>1. conv' \in [Convs -> ConvType]
    <3>1. conv' = [conv EXCEPT ![c] = [@ EXCEPT !.deleted = TRUE, !.automation = FALSE]]
        BY <1>5 DEF DeleteChat
    <3> QED
        BY <1>2, <3>1 DEF TypeOK
  <2>2. \A m \in Msgs : Moved(m, "failed_permanent") \in RowType
      BY MovedType DEF TypeOK, Statuses, Terminal
  <2>3. row' \in [Msgs -> RowType]
      BY <1>5, <2>2 DEF DeleteChat, TypeOK
  <2> QED
      BY <1>5, <2>1, <2>3 DEF DeleteChat, TypeOK, history
<1> QED
    BY <1>1, <1>2, <1>3, <1>4, <1>5
    DEF ConversationEvent, Inbound, OptOut, RejectSale, PauseAutomation,
        ResumeByInstruction, RestoreChat

LEMMA EchoTyped ==
    ASSUME TypeOK, NEW m \in Msgs, RouteEcho(m)
    PROVE  TypeOK'
<1>1. \A c \in Convs : [conv[c] EXCEPT !.automation = FALSE] \in ConvType
    BY DEF TypeOK, ConvType
<1>2. conv' = conv \/ conv' = [conv EXCEPT ![ConvOf[m]] = [@ EXCEPT !.automation = FALSE]]
    BY DEF RouteEcho
<1>3. conv' \in [Convs -> ConvType] /\ echo' \in [Msgs -> Echoes]
    BY <1>1, <1>2 DEF RouteEcho, TypeOK, Echoes
<1> QED
    BY <1>3 DEF RouteEcho, TypeOK, history

LEMMA TickTyped ==
    ASSUME TypeOK, Tick
    PROVE  TypeOK'
<1>1. hour' \in 0 .. Day - 1
  <2>1. \A n \in Nat, d \in Nat \ {0} : n % d \in 0 .. d - 1
      OBVIOUS
  <2> QED
    <3>1. hour + 1 \in Nat /\ Day \in Nat \ {0}
        BY ClockAssumption DEF TypeOK
    <3>2. hour' = (hour + 1) % Day
        BY DEF Tick
    <3> QED
        BY <2>1, <3>1, <3>2
<1>2. row' \in [Msgs -> RowType]
  <2>1. ASSUME NEW m \in Msgs
        PROVE  row'[m] \in RowType
    <3>1. row[m] \in RowType
        BY DEF TypeOK
    <3>2. /\ Aged(row[m].since, StaleAfter + 1) \in Int
          /\ Aged(row[m].age, Lease) \in 0 .. Lease
        BY <3>1, LimitsAssumption, AtMostRange DEF RowType, Aged, AtMost
    <3>3. row[m].retry # 0 => row[m].retry - 1 \in 0 .. BackoffCap
        BY <3>1, LimitsAssumption DEF RowType
    <3> DEFINE since == IF m \in AiMsgs THEN Aged(row[m].since, StaleAfter + 1)
                        ELSE row[m].since
               retry == IF row[m].retry = 0 THEN 0 ELSE row[m].retry - 1
               age   == IF row[m].status = "sending" THEN Aged(row[m].age, Lease)
                        ELSE row[m].age
    <3>4. since \in Int /\ retry \in 0 .. BackoffCap /\ age \in 0 .. Lease
        BY <3>1, <3>2, <3>3, LimitsAssumption DEF RowType
    <3>5. row'[m] = [row[m] EXCEPT !.since = since, !.retry = retry, !.age = age]
        BY DEF Tick
    <3> HIDE DEF since, retry, age
    <3> QED
        BY <3>1, <3>4, <3>5 DEF RowType
  <2>2. row' = [m \in Msgs |-> row'[m]]
      BY DEF Tick
  <2> QED
      BY <2>1, <2>2
<1>3. run' \in [Runners -> RunType]
  <2>1. ASSUME NEW w \in Runners
        PROVE  run'[w] \in RunType
    <3>1. CASE run[w].stage = "holding"
      <4>1. run[w] \in [stage : Stages \ {"idle"}, msg : Msgs,
                        attempts : 0 .. MaxClaims, resume : Int]
          BY <3>1 DEF TypeOK, RunType
      <4>2. Aged(run[w].resume, StaleAfter + 1) \in Int
          BY <4>1, LimitsAssumption DEF Aged, AtMost
      <4>3. run'[w] = [run[w] EXCEPT !.resume = Aged(run[w].resume, StaleAfter + 1)]
          BY <3>1 DEF Tick
      <4> QED
          BY <4>1, <4>2, <4>3 DEF RunType
    <3>2. CASE run[w].stage # "holding"
        BY <3>2 DEF Tick, TypeOK
    <3> QED
        BY <3>1, <3>2
  <2>2. run' = [w \in Runners |-> run'[w]]
      BY DEF Tick
  <2> QED
      BY <2>1, <2>2
<1> QED
    BY <1>1, <1>2, <1>3 DEF Tick, TypeOK

LEMMA StepTyped == TypeOK /\ [Next]_vars => TypeOK'
<1> SUFFICES ASSUME TypeOK, [Next]_vars PROVE TypeOK'
    OBVIOUS
<1>1. ASSUME NEW m \in Msgs, EnqueueAi(m) \/ EnqueueHuman(m) \/ RouteEcho(m)
      PROVE  TypeOK'
    BY <1>1, EnqueueTyped, EchoTyped
<1>2. ASSUME NEW w \in Runners, Deliver(w) \/ Abort(w)
      PROVE  TypeOK'
  <2>1. CASE ClaimNothing(w)
      BY <2>1, ExpireTyped DEF ClaimNothing, TypeOK, history
  <2> QED
      BY <1>2, <2>1, ClaimTyped, CheckTyped, SocketTyped, AfterSocketTyped, EndTyped
      DEF Deliver
<1>3. ASSUME NEW c \in Convs, ConversationEvent(c)
      PROVE  TypeOK'
    BY <1>3, EventTyped
<1>4. CASE Tick
    BY <1>4, TickTyped
<1>5. CASE UNCHANGED vars
    BY <1>5 DEF vars, TypeOK
<1> QED
    BY <1>1, <1>2, <1>3, <1>4, <1>5 DEF Next

\* Every state has its type, however rows are retried, held, expired and
\* reopened: in particular no delay exceeds BackoffCap.  Nothing is said of the
\* number of attempts but that it is counted as far as MaxClaims.
THEOREM TypeCorrect == Spec => []TypeOK
BY InitTyped, StepTyped, PTL DEF Spec

-----------------------------------------------------------------------------
(* At most one late automated message per runner and lead.                  *)

\* A step that sends nothing, un-silences nobody and clears only messages of
\* leads who may be written to keeps the invariant.
LEMMA LateFrame ==
    ASSUME LateInv, UNCHANGED late,
           \A c \in Convs : Silenced(c) => Silenced(c)',
           \A w \in Runners, c \in Convs :
               AboutToAutomate(w, c)' => AboutToAutomate(w, c) \/ ~Silenced(c)
    PROVE  LateInv'
BY DEF LateInv

\* Moving one runner to a stage other than "ready" clears no message.
LEMMA NotCleared ==
    ASSUME TypeOK, NEW w \in Runners,
           \A v \in Runners \ {w} : run'[v] = run[v], run'[w].stage # "ready"
    PROVE  \A v \in Runners, c \in Convs : AboutToAutomate(v, c)' => AboutToAutomate(v, c)
BY DEF AboutToAutomate

LEMMA LateQueue ==
    ASSUME TypeOK, LateInv, NEW w \in Runners,
           \/ \E m \in Msgs : Claim(w, m)
           \/ ClaimNothing(w) \/ Undeliverable(w) \/ Drop(w) \/ Hold(w)
           \/ MarkSent(w) \/ Remember(w) \/ Publish(w) \/ AfterSendFails(w)
           \/ MarkFailed(w) \/ Abort(w)
    PROVE  LateInv'
<1>1. late' = late
    BY DEF Claim, ClaimNothing, Undeliverable, Drop, Hold, MarkSent, Remember, Publish,
           AfterSendFails, MarkFailed, Abort, history
<1>2. conv' = conv
    BY DEF Claim, ClaimNothing, Undeliverable, Drop, Hold, MarkSent, Remember, Publish,
           AfterSendFails, MarkFailed, Abort
<1>3. \A v \in Runners, c \in Convs : AboutToAutomate(v, c)' => AboutToAutomate(v, c)
  <2>1. CASE ClaimNothing(w)
      BY <2>1 DEF ClaimNothing, AboutToAutomate
  <2>2. CASE Undeliverable(w) \/ MarkSent(w) \/ Remember(w) \/ AfterSendFails(w)
    <3>1. run[w].stage # "idle"
        BY <2>2 DEF Undeliverable, MarkSent, Remember, AfterSendFails
    <3>2. PICK s \in {"dropping", "marked", "guarded", "failing"} : Goto(w, s)
        BY <2>2 DEF Undeliverable, MarkSent, Remember, AfterSendFails
    <3>3. run'[w].stage = s /\ \A v \in Runners \ {w} : run'[v] = run[v]
        BY <3>1, <3>2, GotoEffect DEF TypeOK, Stages
    <3> QED
        BY <3>3, NotCleared
  <2>3. CASE Drop(w) \/ Hold(w) \/ Publish(w) \/ MarkFailed(w) \/ Abort(w)
    <3>1. Finish(w)
        BY <2>3 DEF Drop, Hold, Publish, MarkFailed, Abort
    <3>2. run'[w].stage # "ready" /\ \A v \in Runners \ {w} : run'[v] = run[v]
        BY <3>1 DEF Finish, Idle, TypeOK
    <3> QED
        BY <3>2, NotCleared
  <2>4. CASE \E m \in Msgs : Claim(w, m)
    <3>1. run'[w].stage = "claimed" /\ \A v \in Runners \ {w} : run'[v] = run[v]
        BY <2>4, ClaimEffect DEF TypeOK
    <3> QED
        BY <3>1, NotCleared
  <2> QED
      BY <2>1, <2>2, <2>3, <2>4
<1> QED
    BY <1>1, <1>2, <1>3, LateFrame DEF Silenced

LEMMA LateCheck ==
    ASSUME TypeOK, LateInv, NEW w \in Runners, CheckAi(w) \/ CheckHuman(w)
    PROVE  LateInv'
<1>1. UNCHANGED <<conv, late>>
    BY DEF CheckAi, CheckHuman, history
<1>2. ASSUME NEW v \in Runners, NEW c \in Convs, AboutToAutomate(v, c)'
      PROVE  AboutToAutomate(v, c) \/ ~Silenced(c)
  <2>1. CASE v # w
      BY <1>2, <2>1 DEF AboutToAutomate, CheckAi, CheckHuman, Goto, TypeOK
  <2>2. CASE v = w
    <3>1. run[w].stage = "claimed" /\ run'[w].stage = "ready" /\ run'[w].msg \in AiMsgs
        BY <1>2, <2>2 DEF AboutToAutomate, CheckAi, CheckHuman
    <3>2. run'[w].msg = run[w].msg /\ run[w].msg \in AiMsgs
        BY <3>1 DEF CheckAi, CheckHuman, Goto, TypeOK, RunType
    <3>3. CheckAi(w)
        BY <3>2, MessagesAssumption DEF CheckHuman
    <3>4. MayAutomate(ConvOf[run[w].msg])
        BY <3>1, <3>3 DEF CheckAi, Goto, TypeOK, RunType
    <3> QED
        BY <1>2, <2>2, <3>2, <3>4 DEF AboutToAutomate, MayAutomate
  <2> QED
      BY <2>1, <2>2
<1> QED
    BY <1>1, <1>2, LateFrame DEF Silenced

LEMMA LateSocket ==
    ASSUME TypeOK, LateInv, NEW w \in Runners, Send(w) \/ SendFails(w)
    PROVE  LateInv'
<1> DEFINE m == run[w].msg
           c == ConvOf[m]
<1>1. run[w].stage = "ready" /\ SocketCall(w) /\ conv' = conv
    BY DEF Send, SendFails, SocketCall
<1>2. m \in Msgs /\ c \in Convs
    BY <1>1, HeldType, MessagesAssumption DEF TypeOK
<1>3. \A v \in Runners, d \in Convs : AboutToAutomate(v, d)' => AboutToAutomate(v, d) /\ v # w
  <2>1. PICK s \in {"acked", "failing"} : Goto(w, s)
      BY DEF Send, SendFails
  <2>2. run'[w].stage # "ready" /\ \A v \in Runners \ {w} : run'[v] = run[v]
      BY <1>1, <2>1, GotoEffect DEF TypeOK, Stages
  <2> QED
      BY <2>2 DEF AboutToAutomate
<1>4. CASE m \in AiMsgs /\ Silenced(c)
  <2>1. late[w][c] = 0
      BY <1>1, <1>2, <1>4 DEF LateInv, AboutToAutomate
  <2>2. AtMost(late[w][c] + 1, 2) = 1
      BY <2>1 DEF AtMost
  <2>3. late' = [late EXCEPT ![w] = [late[w] EXCEPT ![c] = AtMost(late[w][c] + 1, 2)]]
      BY <1>1, <1>4 DEF SocketCall, TypeOK
  <2> HIDE DEF c
  <2>4. /\ late'[w][c] = 1
        /\ \A v \in Runners, d \in Convs : v # w \/ d # c => late'[v][d] = late[v][d]
      BY <1>2, <2>2, <2>3 DEF TypeOK
  <2>5. \A d \in Convs : Silenced(d)' <=> Silenced(d)
      BY <1>1 DEF Silenced
  <2> QED
      BY <1>2, <1>3, <1>4, <2>4, <2>5 DEF LateInv
<1>5. CASE ~(m \in AiMsgs /\ Silenced(c))
  <2>1. late' = late
      BY <1>1, <1>5 DEF SocketCall
  <2> QED
      BY <1>1, <1>3, <2>1, LateFrame DEF Silenced
<1> QED
    BY <1>4, <1>5

LEMMA LateConfirm ==
    ASSUME TypeOK, LateInv, NEW w \in Runners, Confirm(w)
    PROVE  LateInv'
<1>1. late' = late
    BY DEF Confirm, history
<1>2. \A c \in Convs : Silenced(c)' <=> Silenced(c)
  <2>1. conv' = conv \/ \E d : conv' = [conv EXCEPT ![d] = [@ EXCEPT !.qualified = TRUE]]
      BY DEF Confirm
  <2> QED
      BY <2>1 DEF Silenced, TypeOK, ConvType
<1>3. \A v \in Runners, c \in Convs : AboutToAutomate(v, c)' => AboutToAutomate(v, c)
  <2>1. run'[w].stage = "confirmed" /\ \A v \in Runners \ {w} : run'[v] = run[v]
      BY GotoEffect DEF Confirm, TypeOK, Stages
  <2> QED
      BY <2>1, NotCleared
<1> QED
    BY <1>1, <1>2, <1>3, LateFrame

LEMMA LateEvent ==
    ASSUME TypeOK, LateInv, NEW c \in Convs, ConversationEvent(c)
    PROVE  LateInv'
<1>1. run' = run
    BY DEF ConversationEvent, Inbound, OptOut, RejectSale, PauseAutomation,
           ResumeAutomation, ResumeByInstruction, DeleteChat, RestoreChat, ConvStep
<1>2. \A v \in Runners, d \in Convs : AboutToAutomate(v, d)' <=> AboutToAutomate(v, d)
    BY <1>1 DEF AboutToAutomate
<1>3. CASE ResumeAutomation(c)
  <2>1. conv' = [conv EXCEPT ![c] = [@ EXCEPT !.automation = TRUE, !.rejected = FALSE]]
      BY <1>3 DEF ResumeAutomation
  <2>2. \A d \in Convs \ {c} : Silenced(d)' <=> Silenced(d)
      BY <2>1 DEF Silenced, TypeOK
  <2>3. CASE conv[c].optedOut
    <3>1. late' = late
        BY <1>3, <2>3 DEF ResumeAutomation
    <3>2. conv'[c].optedOut
        BY <2>1, <2>3 DEF TypeOK, ConvType
    <3>3. \A d \in Convs : Silenced(d) => Silenced(d)'
        BY <2>2, <3>2 DEF Silenced
    <3> QED
        BY <1>2, <3>1, <3>3, LateFrame
  <2>4. CASE ~conv[c].optedOut
    <3>1. late' = [w \in Runners |-> [late[w] EXCEPT ![c] = 0]]
        BY <1>3, <2>4 DEF ResumeAutomation
    <3>2. \A w \in Runners, d \in Convs :
            late'[w][d] = IF d = c THEN 0 ELSE late[w][d]
        BY <3>1 DEF TypeOK
    <3> QED
        BY <1>2, <2>2, <3>2 DEF LateInv
  <2> QED
      BY <2>3, <2>4
<1>4. CASE ~ResumeAutomation(c)
  <2>1. late' = late
      BY <1>4 DEF ConversationEvent, Inbound, OptOut, RejectSale, PauseAutomation,
             ResumeByInstruction, DeleteChat, RestoreChat, ConvStep, history
  <2>2. \A d \in Convs : Silenced(d) => Silenced(d)'
      BY <1>4 DEF ConversationEvent, Inbound, OptOut, RejectSale, PauseAutomation,
             ResumeByInstruction, DeleteChat, RestoreChat, ConvStep, Silenced, TypeOK, ConvType
  <2> QED
      BY <1>2, <2>1, <2>2, LateFrame
<1> QED
    BY <1>3, <1>4

LEMMA LateElsewhere ==
    ASSUME TypeOK, LateInv,
           \/ \E m \in Msgs : EnqueueAi(m) \/ EnqueueHuman(m) \/ RouteEcho(m)
           \/ Tick
    PROVE  LateInv'
<1>1. late' = late
    BY DEF EnqueueAi, EnqueueHuman, RouteEcho, Tick, history
<1>2. \A d \in Convs : Silenced(d)' <=> Silenced(d)
  <2>1. \/ conv' = conv
        \/ \E c : conv' = [conv EXCEPT ![c] = [@ EXCEPT !.automation = FALSE]]
      BY DEF EnqueueAi, EnqueueHuman, RouteEcho, Tick
  <2> QED
      BY <2>1 DEF Silenced, TypeOK, ConvType
<1>3. \A v \in Runners, c \in Convs : AboutToAutomate(v, c)' => AboutToAutomate(v, c)
  <2>1. CASE Tick
    <3>1. \A v \in Runners : run[v].stage # "holding" => run'[v] = run[v]
        BY <2>1 DEF Tick
    <3>2. \A v \in Runners : run[v].stage = "holding" => run'[v].stage = "holding"
        BY <2>1 DEF Tick, TypeOK, RunType
    <3> QED
        BY <3>1, <3>2 DEF AboutToAutomate
  <2>2. CASE ~Tick
      BY <2>2 DEF EnqueueAi, EnqueueHuman, RouteEcho, AboutToAutomate
  <2> QED
      BY <2>1, <2>2
<1> QED
    BY <1>1, <1>2, <1>3, LateFrame

\* After an opt-out or a rejection no runner sends that lead more than the one
\* automated message it had already cleared, for any number of runners, any
\* interleaving, any crashes and any use of the owner's controls.
THEOREM AtMostOneLateReply == Spec => []OneLateReply
<1>1. Init => LateInv
    BY DEF Init, LateInv
<1>2. TypeOK /\ LateInv /\ [Next]_vars => LateInv'
  <2> SUFFICES ASSUME TypeOK, LateInv, [Next]_vars PROVE LateInv'
      OBVIOUS
  <2>1. ASSUME NEW w \in Runners, Deliver(w) \/ Abort(w)
        PROVE  LateInv'
      BY <2>1, LateQueue, LateCheck, LateSocket, LateConfirm DEF Deliver
  <2>2. ASSUME NEW c \in Convs, ConversationEvent(c)
        PROVE  LateInv'
      BY <2>2, LateEvent
  <2>3. CASE UNCHANGED vars
      BY <2>3 DEF vars, LateInv, Silenced, AboutToAutomate
  <2> QED
      BY <2>1, <2>2, <2>3, LateElsewhere DEF Next
<1>3. LateInv => OneLateReply
    BY DEF LateInv, OneLateReply
<1> QED
    BY <1>1, <1>2, <1>3, TypeCorrect, PTL DEF Spec

-----------------------------------------------------------------------------
(* The claim is exclusive within its lease.                                 *)

\* What HeldInv says of a row apart from who holds it.
Held(m) ==
    /\ row[m].status \in {"sending", "sent"}
    /\ row[m].status = "sending" => row[m].age < Lease

\* Rows held after the step were held before it and are still safe to hold.
LEMMA HeldFrame ==
    ASSUME HeldInv,
           \A m \in Msgs \ overran', v \in Runners :
               Holds(v, m)' => m \notin overran /\ Holds(v, m) /\ Held(m)'
    PROVE  HeldInv'
BY DEF HeldInv, Held

\* No claim and no sweep touches a held row.
LEMMA HeldIsSafe ==
    ASSUME TypeOK, HeldInv, NEW m \in Msgs \ overran, NEW v \in Runners, Holds(v, m)
    PROVE  /\ Held(m)
           /\ ~Claimable(m) /\ ~LeaseExpired(m)
           /\ ExpireLeases[m] = row[m]
<1>1. Held(m)
    BY DEF HeldInv, Held
<1>2. ~LeaseExpired(m)
    BY <1>1, LimitsAssumption DEF Held, LeaseExpired, TypeOK, RowType
<1> QED
    BY <1>1, <1>2 DEF Held, Claimable, ExpireLeases

\* A runner that keeps its row through Goto, and everybody else.
LEMMA GotoHolds ==
    ASSUME TypeOK, NEW w \in Runners, run[w].stage # "idle",
           NEW s \in Stages \ {"idle"}, Goto(w, s)
    PROVE  \A v \in Runners, m \in Msgs : Holds(v, m)' <=> Holds(v, m)
BY GotoEffect DEF TypeOK, Holds

LEMMA HeldWalk ==
    ASSUME TypeOK, HeldInv, NEW w \in Runners,
           \/ Undeliverable(w) \/ CheckAi(w) \/ CheckHuman(w) \/ Send(w) \/ SendFails(w)
           \/ Remember(w) \/ Confirm(w) \/ AfterSendFails(w)
    PROVE  HeldInv'
<1>1. UNCHANGED <<row, overran>> /\ run[w].stage # "idle"
    BY DEF Undeliverable, CheckAi, CheckHuman, Send, SendFails, SocketCall, Remember,
           Confirm, AfterSendFails, history
<1>2. \A v \in Runners, m \in Msgs : Holds(v, m)' => Holds(v, m)
  <2>1. CASE \E s \in Stages \ {"idle"} : Goto(w, s)
      BY <1>1, <2>1, GotoHolds
  <2>2. CASE run' = [run EXCEPT ![w].stage = "holding", ![w].resume = -UntilAllowed(hour)]
    <3>1. run[w] \in [stage : Stages \ {"idle"}, msg : Msgs,
                      attempts : 0 .. MaxClaims, resume : Int]
        BY <1>1 DEF TypeOK, RunType
    <3>2. run' = [run EXCEPT ![w] = [@ EXCEPT !.stage = "holding",
                                              !.resume = -UntilAllowed(hour)]]
        BY <2>2
    <3>3. run'[w].msg = run[w].msg /\ \A v \in Runners \ {w} : run'[v] = run[v]
        BY <3>1, <3>2 DEF TypeOK
    <3> QED
        BY <1>1, <3>3 DEF Holds
  <2> QED
      BY <2>1, <2>2 DEF Undeliverable, CheckAi, CheckHuman, Send, SendFails, Remember,
                        Confirm, AfterSendFails, Stages
<1> QED
    BY <1>1, <1>2, HeldFrame, HeldIsSafe DEF Held

LEMMA HeldClaim ==
    ASSUME TypeOK, HeldInv, NEW w \in Runners, NEW m \in Msgs, Claim(w, m)
    PROVE  HeldInv'
<1>1. /\ run[w] = Idle /\ run'[w].stage = "claimed" /\ run'[w].msg = m
      /\ \A v \in Runners \ {w} : run'[v] = run[v]
    BY ClaimEffect DEF TypeOK
<1>2. overran' = overran /\ Claimable(m)
    BY DEF Claim, history
<1>3. \A v \in Runners : m \notin overran => ~Holds(v, m)
    BY <1>2, HeldIsSafe
<1>4. /\ row'[m].status = "sending" /\ row'[m].age = 0
      /\ \A n \in Msgs \ {m} : row'[n] = ExpireLeases[n]
  <2> DEFINE attempt == AtMost(row[m].attempts + 1, MaxClaims)
  <2>1. row' = [ExpireLeases EXCEPT
                  ![m] = [@ EXCEPT !.status = "sending", !.age = 0, !.attempts = attempt]]
      BY DEF Claim
  <2>2. ExpireLeases \in [Msgs -> RowType]
      BY ExpireTyped DEF TypeOK
  <2>3. ExpireLeases[m] \in RowType
      BY <2>2
  <2> HIDE DEF attempt
  <2> QED
      BY <2>1, <2>2, <2>3 DEF RowType
<1>5. ASSUME NEW n \in Msgs \ overran, NEW v \in Runners, Holds(v, n)'
      PROVE  Held(n)' /\ \A u \in Runners : Holds(u, n)' => u = v
  <2>1. CASE n = m
    <3>1. \A u \in Runners : Holds(u, n)' => u = w
        BY <1>1, <1>3, <2>1 DEF Holds
    <3>2. Held(n)'
        BY <1>4, <2>1, LimitsAssumption DEF Held
    <3> QED
        BY <1>5, <3>1, <3>2
  <2>2. CASE n # m
    <3>1. \A u \in Runners : Holds(u, n)' => Holds(u, n)
        BY <1>1, <2>2 DEF Holds
    <3>2. row'[n] = row[n] /\ Held(n)
        BY <1>4, <1>5, <2>2, <3>1, HeldIsSafe
    <3> QED
        BY <1>5, <3>1, <3>2 DEF HeldInv, Held
  <2> QED
      BY <2>1, <2>2
<1> QED
    BY <1>2, <1>5 DEF HeldInv, Held

LEMMA HeldEnd ==
    ASSUME TypeOK, HeldInv, NEW w \in Runners,
           Drop(w) \/ Hold(w) \/ Publish(w) \/ MarkFailed(w) \/ Abort(w)
    PROVE  HeldInv'
<1>1. Finish(w) /\ run[w].stage # "idle"
    BY DEF Drop, Hold, Publish, MarkFailed, Abort
<1>2. run[w].msg \in Msgs /\ Holds(w, run[w].msg)
    BY <1>1, HeldType DEF TypeOK, Holds
<1>3. \A n \in Msgs : n # run[w].msg => row'[n] = row[n]
    BY <1>2 DEF Drop, Hold, Publish, MarkFailed, Abort, TypeOK
<1>4. ASSUME NEW n \in Msgs \ overran', NEW v \in Runners, Holds(v, n)'
      PROVE  n \notin overran /\ Holds(v, n) /\ Held(n)'
  <2>1. v # w /\ Holds(v, n)
      BY <1>1, <1>4 DEF Finish, Holds, Idle, TypeOK
  <2>2. n \notin overran
      BY <1>1, <1>4, <2>1 DEF Finish
  <2>3. n # run[w].msg
      BY <1>2, <2>1, <2>2 DEF HeldInv
  <2> QED
      BY <1>3, <2>1, <2>2, <2>3, HeldIsSafe DEF Held
<1> QED
    BY <1>4, HeldFrame

LEMMA HeldMarkSent ==
    ASSUME TypeOK, HeldInv, NEW w \in Runners, MarkSent(w)
    PROVE  HeldInv'
<1>1. \A v \in Runners, m \in Msgs : Holds(v, m)' <=> Holds(v, m)
    BY GotoHolds DEF MarkSent, Stages
<1>2. overran' = overran /\ run[w].msg \in Msgs
    BY HeldType DEF MarkSent, history, TypeOK
<1>3. /\ row'[run[w].msg].status = "sent"
      /\ \A n \in Msgs : n # run[w].msg => row'[n] = row[n]
    BY <1>2 DEF MarkSent, Moved, TypeOK, RowType
<1>4. \A m \in Msgs \ overran, v \in Runners : Holds(v, m)' => Held(m)'
    BY <1>1, <1>3, HeldIsSafe DEF Held
<1> QED
    BY <1>1, <1>2, <1>4, HeldFrame

LEMMA HeldElsewhere ==
    ASSUME TypeOK, HeldInv,
           \/ \E w \in Runners : ClaimNothing(w)
           \/ \E m \in Msgs : EnqueueAi(m) \/ EnqueueHuman(m) \/ RouteEcho(m)
           \/ \E c \in Convs : ConversationEvent(c)
    PROVE  HeldInv'
<1>1. run' = run /\ overran' = overran
    BY DEF ClaimNothing, EnqueueAi, EnqueueHuman, RouteEcho, ConversationEvent, Inbound,
           OptOut, RejectSale, PauseAutomation, ResumeAutomation, ResumeByInstruction,
           DeleteChat, RestoreChat, ConvStep, history
<1>2. \A v \in Runners, m \in Msgs : Holds(v, m)' <=> Holds(v, m)
    BY <1>1 DEF Holds
<1>3. ASSUME NEW m \in Msgs \ overran, NEW v \in Runners, Holds(v, m)
      PROVE  row'[m] = row[m]
  <2>1. Held(m) /\ ExpireLeases[m] = row[m]
      BY <1>3, HeldIsSafe
  <2>2. CASE \E w \in Runners : ClaimNothing(w)
      BY <2>1, <2>2 DEF ClaimNothing
  <2>3. CASE \E n \in Msgs : EnqueueAi(n) \/ EnqueueHuman(n)
      BY <2>1, <2>3 DEF EnqueueAi, EnqueueHuman, Held, TypeOK
  <2>4. CASE \E c \in Convs : DeleteChat(c)
      BY <2>1, <2>4 DEF DeleteChat, Held, Waiting
  <2>5. CASE row' = row
      BY <2>5
  <2> QED
      BY <2>2, <2>3, <2>4, <2>5 DEF RouteEcho, ConversationEvent, Inbound, OptOut,
         RejectSale, PauseAutomation, ResumeAutomation, ResumeByInstruction, RestoreChat,
         ConvStep
<1> QED
    BY <1>1, <1>2, <1>3, HeldFrame, HeldIsSafe DEF Held

LEMMA HeldTick ==
    ASSUME TypeOK, HeldInv, Tick
    PROVE  HeldInv'
<1>1. \A v \in Runners, m \in Msgs : Holds(v, m)' <=> Holds(v, m)
  <2>1. ASSUME NEW v \in Runners
        PROVE  \/ run'[v] = run[v]
               \/ /\ run[v].stage = "holding" /\ run'[v].stage = "holding"
                  /\ run'[v].msg = run[v].msg
      BY DEF Tick, TypeOK, RunType
  <2> QED
      BY <2>1 DEF Holds
<1>2. ASSUME NEW m \in Msgs \ overran', NEW v \in Runners, Holds(v, m)
      PROVE  m \notin overran /\ Held(m)'
  <2>1. m \notin overran /\ ~LeaseRunsOut(m)
      BY <1>2 DEF Tick
  <2>2. Held(m) /\ row[m] \in RowType
      BY <1>2, <2>1, HeldIsSafe DEF TypeOK
  <2>3. /\ row'[m].status = row[m].status
        /\ row[m].status = "sending" => row'[m].age = Aged(row[m].age, Lease)
      BY <2>2 DEF Tick, RowType
  <2>4. row[m].status = "sending" => Aged(row[m].age, Lease) < Lease
      BY <2>1, <2>2, LimitsAssumption DEF LeaseRunsOut, Aged, AtMost, RowType
  <2> QED
      BY <2>1, <2>2, <2>3, <2>4 DEF Held
<1> QED
    BY <1>1, <1>2, HeldFrame

\* Two runners never work on one row unless a runner outlived its lease: the
\* sorted findOneAndUpdate and the renewed statusUpdatedAt are enough, for any
\* number of runners, although no later write looks at who owns the row.
THEOREM ClaimIsExclusive == Spec => []ExclusiveClaim
<1>1. Init => HeldInv
    BY DEF Init, HeldInv, Holds, Idle
<1>2. TypeOK /\ HeldInv /\ [Next]_vars => HeldInv'
  <2> SUFFICES ASSUME TypeOK, HeldInv, [Next]_vars PROVE HeldInv'
      OBVIOUS
  <2>1. ASSUME NEW w \in Runners, Deliver(w) \/ Abort(w)
        PROVE  HeldInv'
      BY <2>1, HeldClaim, HeldElsewhere, HeldWalk, HeldEnd, HeldMarkSent DEF Deliver
  <2>2. CASE UNCHANGED vars
      BY <2>2 DEF vars, HeldInv, Holds
  <2> QED
      BY <2>1, <2>2, HeldElsewhere, HeldTick DEF Next
<1>3. HeldInv => ExclusiveClaim
    BY DEF HeldInv, ExclusiveClaim
<1> QED
    BY <1>1, <1>2, <1>3, TypeCorrect, PTL DEF Spec

-----------------------------------------------------------------------------
(* The database tells the truth about what went out.                        *)

OutStages == {"acked", "marked", "guarded", "confirmed"}

LEMMA ReachedFrame ==
    ASSUME ReachedInv, reached \subseteq reached',
           \A m \in Msgs : row'[m].status = "sent" => row[m].status = "sent" \/ m \in reached',
           \A c \in Convs : conv'[c].qualified =>
               conv[c].qualified \/ \E m \in AiMsgs \cap reached' : ConvOf[m] = c,
           \A w \in Runners : run'[w].stage \in OutStages =>
               run'[w].msg \in reached' \/ (run[w].stage \in OutStages /\ run'[w].msg = run[w].msg)
    PROVE  ReachedInv'
BY DEF ReachedInv, HonestRecords, OutStages

LEMMA ReachedDeliver ==
    ASSUME TypeOK, ReachedInv, NEW w \in Runners, Deliver(w) \/ Abort(w)
    PROVE  ReachedInv'
<1>1. CASE \E m \in Msgs : Claim(w, m)
  <2>1. PICK m \in Msgs : Claim(w, m)
      BY <1>1
  <2>2. /\ run'[w].stage = "claimed"
        /\ \A v \in Runners \ {w} : run'[v] = run[v]
      BY <2>1, ClaimEffect DEF TypeOK
  <2>3. UNCHANGED <<conv, reached>>
      BY <2>1 DEF Claim, history
  <2>4. \A n \in Msgs : row'[n].status = "sent" => row[n].status = "sent"
    <3> DEFINE attempt == AtMost(row[m].attempts + 1, MaxClaims)
    <3>1. row' = [ExpireLeases EXCEPT
                    ![m] = [@ EXCEPT !.status = "sending", !.age = 0, !.attempts = attempt]]
        BY <2>1 DEF Claim
    <3>2. \A n \in Msgs : /\ ExpireLeases[n] \in RowType
                          /\ ExpireLeases[n].status = "sent" => row[n].status = "sent"
        BY ExpireTyped DEF ExpireLeases, Moved, TypeOK, RowType
    <3> HIDE DEF attempt
    <3> QED
        BY <3>1, <3>2, ExpireTyped DEF RowType, TypeOK
  <2> QED
      BY <2>2, <2>3, <2>4, ReachedFrame DEF OutStages
<1>2. CASE ClaimNothing(w)
  <2>1. \A n \in Msgs : row'[n].status = "sent" => row[n].status = "sent"
      BY <1>2 DEF ClaimNothing, ExpireLeases, Moved, TypeOK, RowType
  <2> QED
      BY <1>2, <2>1, ReachedFrame DEF ClaimNothing, history
<1>3. CASE Undeliverable(w) \/ CheckAi(w) \/ CheckHuman(w) \/ AfterSendFails(w)
  <2>1. UNCHANGED <<row, conv, reached>>
      BY <1>3 DEF Undeliverable, CheckAi, CheckHuman, AfterSendFails, history
  <2>2. run'[w].stage \notin OutStages /\ \A v \in Runners \ {w} : run'[v] = run[v]
    <3>1. CASE \E s \in {"dropping", "ready", "failing"} : Goto(w, s)
      <4>1. run[w].stage # "idle"
          BY <1>3 DEF Undeliverable, CheckAi, CheckHuman, AfterSendFails
      <4> QED
          BY <3>1, <4>1, GotoEffect DEF TypeOK, Stages, OutStages
    <3>2. CASE /\ run[w].stage = "claimed"
               /\ run' = [run EXCEPT ![w].stage = "holding", ![w].resume = -UntilAllowed(hour)]
      <4>1. run[w] \in [stage : Stages \ {"idle"}, msg : Msgs,
                        attempts : 0 .. MaxClaims, resume : Int]
          BY <3>2 DEF TypeOK, RunType
      <4>2. run' = [run EXCEPT ![w] = [@ EXCEPT !.stage = "holding",
                                                !.resume = -UntilAllowed(hour)]]
          BY <3>2
      <4> QED
          BY <4>1, <4>2 DEF TypeOK, OutStages
    <3> QED
        BY <1>3, <3>1, <3>2 DEF Undeliverable, CheckAi, CheckHuman, AfterSendFails
  <2> QED
      BY <2>1, <2>2, ReachedFrame
<1>4. CASE Drop(w) \/ Hold(w) \/ Publish(w) \/ MarkFailed(w) \/ Abort(w)
  <2>1. Finish(w) /\ UNCHANGED <<conv, reached>> /\ run[w].stage # "idle"
      BY <1>4 DEF Drop, Hold, Publish, MarkFailed, Abort
  <2>2. run'[w].stage = "idle" /\ \A v \in Runners \ {w} : run'[v] = run[v]
      BY <2>1 DEF Finish, Idle, TypeOK
  <2>3. run[w].msg \in Msgs
      BY <2>1, HeldType DEF TypeOK
  <2>4. \A n \in Msgs : row'[n].status = "sent" => row[n].status = "sent"
    <3>1. Moved(run[w].msg, "failed_permanent").status = "failed_permanent"
        BY <2>3, MovedStatus DEF TypeOK
    <3>2. \A t : [Moved(run[w].msg, "queued") EXCEPT !.since = t].status = "queued"
      <4>1. Moved(run[w].msg, "queued") \in RowType /\ Moved(run[w].msg, "queued").status = "queued"
          BY <2>3, MovedStatus, MovedType DEF TypeOK, Statuses, Waiting
      <4> QED
          BY <4>1 DEF RowType
    <3>3. \A t : [Moved(run[w].msg, "failed") EXCEPT !.retry = t].status = "failed"
      <4>1. Moved(run[w].msg, "failed") \in RowType /\ Moved(run[w].msg, "failed").status = "failed"
          BY <2>3, MovedStatus, MovedType DEF TypeOK, Statuses, Waiting
      <4> QED
          BY <4>1 DEF RowType
    <3>4. \A n \in Msgs : n # run[w].msg => row'[n] = row[n]
        BY <1>4, <2>3 DEF Drop, Hold, Publish, MarkFailed, Abort, TypeOK
    <3>5. row'[run[w].msg].status = "sent" => row[run[w].msg].status = "sent"
        BY <1>4, <2>3, <3>1, <3>2, <3>3 DEF Drop, Hold, Publish, MarkFailed, Abort, TypeOK
    <3> QED
        BY <3>4, <3>5
  <2> QED
      BY <2>1, <2>2, <2>4, ReachedFrame DEF OutStages
<1>5. CASE Send(w) \/ SendFails(w)
  <2>1. PICK s \in {"acked", "failing"} : Goto(w, s) /\ (s = "acked" => Send(w))
      BY <1>5 DEF Send, SendFails
  <2>2. UNCHANGED <<row, conv>> /\ run[w].stage # "idle"
      BY <1>5 DEF Send, SendFails, SocketCall
  <2>3. /\ run'[w].stage = s /\ run'[w].msg = run[w].msg
        /\ \A v \in Runners \ {w} : run'[v] = run[v]
      BY <2>1, <2>2, GotoEffect DEF TypeOK, Stages
  <2>4. reached \subseteq reached' /\ (Send(w) => run[w].msg \in reached')
      BY <1>5 DEF Send, SendFails, Reaches
  <2> QED
      BY <2>1, <2>2, <2>3, <2>4, ReachedFrame DEF OutStages
<1>6. CASE MarkSent(w) \/ Remember(w) \/ Confirm(w)
  <2>1. PICK s \in {"marked", "guarded", "confirmed"} : Goto(w, s)
      BY <1>6 DEF MarkSent, Remember, Confirm
  <2>2. run[w].stage \in OutStages /\ reached' = reached
      BY <1>6 DEF MarkSent, Remember, Confirm, OutStages, history
  <2>3. run[w].msg \in reached /\ run[w].msg \in Msgs
      BY <2>2, HeldType DEF ReachedInv, OutStages, TypeOK
  <2>4. /\ run'[w].stage = s /\ run'[w].msg = run[w].msg
        /\ \A v \in Runners \ {w} : run'[v] = run[v]
      BY <2>1, <2>2, GotoEffect DEF TypeOK, Stages, OutStages
  <2>5. \A n \in Msgs : row'[n].status = "sent" => row[n].status = "sent" \/ n \in reached'
      BY <1>6, <2>2, <2>3 DEF MarkSent, Remember, Confirm, TypeOK
  <2>6. \A c \in Convs : conv'[c].qualified =>
            conv[c].qualified \/ \E m \in AiMsgs \cap reached' : ConvOf[m] = c
    <3>1. \/ conv' = conv
          \/ /\ run[w].msg \in AiMsgs
             /\ conv' = [conv EXCEPT ![ConvOf[run[w].msg]] = [@ EXCEPT !.qualified = TRUE]]
        BY <1>6 DEF MarkSent, Remember, Confirm
    <3> QED
        BY <2>2, <2>3, <3>1 DEF TypeOK, ConvType
  <2> QED
      BY <2>2, <2>3, <2>4, <2>5, <2>6, ReachedFrame
<1> QED
    BY <1>1, <1>2, <1>3, <1>4, <1>5, <1>6 DEF Deliver

LEMMA ReachedElsewhere ==
    ASSUME TypeOK, ReachedInv,
           \/ \E m \in Msgs : EnqueueAi(m) \/ EnqueueHuman(m) \/ RouteEcho(m)
           \/ \E c \in Convs : ConversationEvent(c)
           \/ Tick
    PROVE  ReachedInv'
<1>1. reached' = reached
    BY DEF EnqueueAi, EnqueueHuman, RouteEcho, ConversationEvent, Inbound, OptOut,
           RejectSale, PauseAutomation, ResumeAutomation, ResumeByInstruction,
           DeleteChat, RestoreChat, ConvStep, Tick, history
<1>2. \A m \in Msgs : row'[m].status = "sent" => row[m].status = "sent"
  <2>1. CASE Tick
    <3>1. \A m \in Msgs : row[m] \in RowType
        BY DEF TypeOK
    <3>2. \A m \in Msgs : row'[m].status = row[m].status
        BY <2>1, <3>1 DEF Tick, RowType
    <3> QED
        BY <3>2
  <2>2. CASE \E m \in Msgs : EnqueueAi(m) \/ EnqueueHuman(m)
    <3>1. PICK m \in Msgs : EnqueueAi(m) \/ EnqueueHuman(m)
        BY <2>2
    <3>2. PICK wait : row' = [row EXCEPT ![m] = NewRow(wait)]
        BY <3>1 DEF EnqueueAi, EnqueueHuman
    <3>3. NewRow(wait).status = "queued"
        BY DEF NewRow
    <3> QED
        BY <3>2, <3>3 DEF TypeOK
  <2>3. CASE \E c \in Convs : DeleteChat(c)
      BY <2>3, MovedStatus DEF DeleteChat, TypeOK
  <2>4. CASE row' = row
      BY <2>4
  <2> QED
      BY <2>1, <2>2, <2>3, <2>4 DEF RouteEcho, ConversationEvent, Inbound, OptOut,
         RejectSale, PauseAutomation, ResumeAutomation, ResumeByInstruction, RestoreChat,
         ConvStep
<1>3. \A c \in Convs : conv'[c].qualified => conv[c].qualified
  <2>1. \A c \in Convs : conv[c] \in ConvType
      BY DEF TypeOK
  <2>2. CASE \E c \in Convs : ConversationEvent(c)
    <3>1. PICK c \in Convs : ConversationEvent(c)
        BY <2>2
    <3>2. \A d \in Convs \ {c} : conv'[d] = conv[d]
        BY <3>1 DEF ConversationEvent, Inbound, OptOut, RejectSale, PauseAutomation,
           ResumeAutomation, ResumeByInstruction, DeleteChat, RestoreChat, ConvStep, TypeOK
    <3>3. conv'[c].qualified = conv[c].qualified
        BY <2>1, <3>1 DEF ConversationEvent, Inbound, OptOut, RejectSale, PauseAutomation,
           ResumeAutomation, ResumeByInstruction, DeleteChat, RestoreChat, ConvStep, TypeOK,
           ConvType
    <3> QED
        BY <3>2, <3>3
  <2>3. CASE \E m \in Msgs : RouteEcho(m)
    <3>1. \/ conv' = conv
          \/ \E c : conv' = [conv EXCEPT ![c] = [@ EXCEPT !.automation = FALSE]]
        BY <2>3 DEF RouteEcho
    <3> QED
        BY <2>1, <3>1 DEF TypeOK, ConvType
  <2>4. CASE conv' = conv
      BY <2>4
  <2> QED
      BY <2>2, <2>3, <2>4 DEF EnqueueAi, EnqueueHuman, Tick
<1>4. \A w \in Runners : run'[w].stage \in OutStages =>
          run[w].stage \in OutStages /\ run'[w].msg = run[w].msg
  <2>1. CASE Tick
      BY <2>1 DEF Tick, TypeOK, RunType, OutStages
  <2>2. CASE ~Tick
    <3>1. run' = run
        BY <2>2 DEF EnqueueAi, EnqueueHuman, RouteEcho, ConversationEvent, Inbound, OptOut,
               RejectSale, PauseAutomation, ResumeAutomation, ResumeByInstruction,
               DeleteChat, RestoreChat, ConvStep
    <3> QED
        BY <3>1
  <2> QED
      BY <2>1, <2>2
<1> QED
    BY <1>1, <1>2, <1>3, <1>4, ReachedFrame

\* A row marked sent reached the lead and a confirmed lead was written to, for
\* any number of runners and whatever crashed in between.
THEOREM RecordsAreHonest == Spec => []HonestRecords
<1>1. Init => ReachedInv
  <2> SUFFICES ASSUME Init PROVE ReachedInv
      OBVIOUS
  <2>1. \A m \in Msgs : row[m].status = "absent"
      BY DEF Init
  <2>2. \A c \in Convs : conv[c].qualified = FALSE
      BY DEF Init
  <2>3. \A w \in Runners : run[w].stage = "idle"
      BY DEF Init, Idle
  <2> QED
      BY <2>1, <2>2, <2>3 DEF ReachedInv, HonestRecords
<1>2. TypeOK /\ ReachedInv /\ [Next]_vars => ReachedInv'
  <2> SUFFICES ASSUME TypeOK, ReachedInv, [Next]_vars PROVE ReachedInv'
      OBVIOUS
  <2>1. CASE UNCHANGED vars
      BY <2>1 DEF vars, ReachedInv, HonestRecords
  <2> QED
      BY <2>1, ReachedDeliver, ReachedElsewhere DEF Next
<1>3. ReachedInv => HonestRecords
    BY DEF ReachedInv
<1> QED
    BY <1>1, <1>2, <1>3, TypeCorrect, PTL DEF Spec

-----------------------------------------------------------------------------
(* With one runner a closed row stays closed.                               *)

\* A runner's step writes and sends only the row it holds or claims.
LEMMA DeliverTouchesOwnRow ==
    ASSUME TypeOK, NEW w \in Runners, Deliver(w) \/ Abort(w),
           NEW m \in Msgs, ~Holds(w, m), row[m].status \in Terminal
    PROVE  row'[m] = row[m] /\ tries'[m] = tries[m]
<1>1. ExpireLeases[m] = row[m] /\ ~Claimable(m)
    BY DEF ExpireLeases, LeaseExpired, Claimable, Terminal
<1>2. CASE \E n \in Msgs : Claim(w, n)
  <2>1. PICK n \in Msgs : Claim(w, n)
      BY <1>2
  <2>2. n # m
      BY <1>1, <2>1 DEF Claim
  <2> DEFINE attempt == AtMost(row[n].attempts + 1, MaxClaims)
  <2>3. row' = [ExpireLeases EXCEPT
                  ![n] = [@ EXCEPT !.status = "sending", !.age = 0, !.attempts = attempt]]
      BY <2>1 DEF Claim
  <2> HIDE DEF attempt
  <2>4. row'[m] = ExpireLeases[m]
      BY <2>2, <2>3, ExpireTyped DEF TypeOK
  <2> QED
      BY <1>1, <2>1, <2>4 DEF Claim, history
<1>3. CASE ClaimNothing(w)
    BY <1>1, <1>3 DEF ClaimNothing, history
<1>4. CASE Undeliverable(w) \/ CheckAi(w) \/ CheckHuman(w) \/ Remember(w) \/ Confirm(w)
           \/ AfterSendFails(w) \/ Publish(w) \/ Abort(w)
    BY <1>4 DEF Undeliverable, CheckAi, CheckHuman, Remember, Confirm, AfterSendFails,
                Publish, Abort, history
<1>5. CASE Drop(w) \/ Hold(w) \/ MarkSent(w) \/ MarkFailed(w) \/ Send(w) \/ SendFails(w)
  <2>1. run[w].stage # "idle"
      BY <1>5 DEF Drop, Hold, MarkSent, MarkFailed, Send, SendFails, SocketCall
  <2>2. run[w].msg # m /\ run[w].msg \in Msgs
      BY <2>1, HeldType DEF Holds, TypeOK
  <2> QED
      BY <1>5, <2>2 DEF Drop, Hold, MarkSent, MarkFailed, Send, SendFails, SocketCall,
                        TypeOK, history
<1> QED
    BY <1>2, <1>3, <1>4, <1>5 DEF Deliver

\* No step reopens or sends a closed row that nobody holds.
LEMMA ClosedStep ==
    ASSUME TypeOK, [Next]_vars, NEW m \in Msgs, row[m].status \in Terminal,
           \A w \in Runners : ~Holds(w, m)
    PROVE  row'[m].status = row[m].status /\ tries'[m] = tries[m]
<1>1. CASE \E w \in Runners : Deliver(w) \/ Abort(w)
    BY <1>1, DeliverTouchesOwnRow
<1>2. CASE \E n \in Msgs : EnqueueAi(n) \/ EnqueueHuman(n) \/ RouteEcho(n)
  <2>1. row'[m] = row[m]
      BY <1>2 DEF EnqueueAi, EnqueueHuman, RouteEcho, TypeOK, Terminal
  <2> QED
      BY <1>2, <2>1 DEF EnqueueAi, EnqueueHuman, RouteEcho, history
<1>3. CASE \E c \in Convs : ConversationEvent(c)
  <2>1. row'[m] = row[m]
      BY <1>3 DEF ConversationEvent, Inbound, OptOut, RejectSale, PauseAutomation, Waiting, Terminal,
         ResumeAutomation, ResumeByInstruction, DeleteChat, RestoreChat, ConvStep, TypeOK
  <2> QED
      BY <1>3, <2>1 DEF ConversationEvent, Inbound, OptOut, RejectSale, PauseAutomation,
         ResumeAutomation, ResumeByInstruction, DeleteChat, RestoreChat, ConvStep, history
<1>4. CASE Tick
  <2>1. row[m] \in RowType
      BY DEF TypeOK
  <2>2. row'[m].status = row[m].status
      BY <1>4, <2>1 DEF Tick, RowType
  <2> QED
      BY <1>4, <2>2 DEF Tick
<1>5. CASE UNCHANGED vars
    BY <1>5 DEF vars
<1> QED
    BY <1>1, <1>2, <1>3, <1>4, <1>5 DEF Next

LEMMA LoneStep ==
    ASSUME TypeOK, LoneInv, [Next]_vars, NEW r, Runners = {r}
    PROVE  LoneInv'
<1> USE DEF LoneInv
<1>1. CASE \E m \in Msgs : Claim(r, m)
  <2>1. PICK m \in Msgs : Claim(r, m)
      BY <1>1
  <2>2. run'[r].stage = "claimed" /\ run'[r].msg = m
      BY <2>1, ClaimEffect DEF TypeOK
  <2>3. row'[m].status = "sending"
    <3> DEFINE attempt == AtMost(row[m].attempts + 1, MaxClaims)
    <3>1. row' = [ExpireLeases EXCEPT
                    ![m] = [@ EXCEPT !.status = "sending", !.age = 0, !.attempts = attempt]]
        BY <2>1 DEF Claim
    <3>2. ExpireLeases \in [Msgs -> RowType]
        BY ExpireTyped DEF TypeOK
    <3>3. ExpireLeases[m] \in RowType
        BY <3>2
    <3> HIDE DEF attempt
    <3> QED
        BY <3>1, <3>2, <3>3 DEF RowType
  <2> QED
      BY <2>2, <2>3 DEF Holds
<1>2. CASE ClaimNothing(r)
    BY <1>2 DEF ClaimNothing, Holds, Idle
<1>3. CASE Undeliverable(r) \/ CheckAi(r) \/ CheckHuman(r) \/ Send(r) \/ SendFails(r)
           \/ MarkSent(r) \/ Remember(r) \/ Confirm(r) \/ AfterSendFails(r)
  <2>1. run[r].stage # "idle"
      BY <1>3 DEF Undeliverable, CheckAi, CheckHuman, Send, SendFails, SocketCall, MarkSent,
                  Remember, Confirm, AfterSendFails
  <2>2. \A m \in Msgs : Holds(r, m)' => Holds(r, m)
    <3>1. CASE \E s \in Stages \ {"idle"} : Goto(r, s)
        BY <2>1, <3>1, GotoHolds
    <3>2. CASE run' = [run EXCEPT ![r].stage = "holding", ![r].resume = -UntilAllowed(hour)]
      <4>1. run[r] \in [stage : Stages \ {"idle"}, msg : Msgs,
                        attempts : 0 .. MaxClaims, resume : Int]
          BY <2>1 DEF TypeOK, RunType
      <4>2. run' = [run EXCEPT ![r] = [@ EXCEPT !.stage = "holding",
                                                !.resume = -UntilAllowed(hour)]]
          BY <3>2
      <4>3. run'[r].msg = run[r].msg
          BY <4>1, <4>2 DEF TypeOK
      <4> QED
          BY <2>1, <4>3 DEF Holds
    <3> QED
        BY <1>3, <3>1, <3>2 DEF Undeliverable, CheckAi, CheckHuman, Send, SendFails,
           MarkSent, Remember, Confirm, AfterSendFails, Stages
  <2>3. \A m \in Msgs : row'[m] = row[m] \/ row'[m].status = "sent"
    <3>1. CASE MarkSent(r)
      <4>1. run[r].msg \in Msgs
          BY <2>1, HeldType DEF TypeOK
      <4> QED
          BY <3>1, <4>1, MovedStatus DEF MarkSent, TypeOK
    <3>2. CASE row' = row
        BY <3>2
    <3> QED
        BY <1>3, <3>1, <3>2 DEF Undeliverable, CheckAi, CheckHuman, Send, SendFails,
           Remember, Confirm, AfterSendFails
  <2> QED
      BY <2>2, <2>3
<1>4. CASE Drop(r) \/ Hold(r) \/ Publish(r) \/ MarkFailed(r) \/ Abort(r)
  <2>1. Finish(r)
      BY <1>4 DEF Drop, Hold, Publish, MarkFailed, Abort
  <2> QED
      BY <2>1 DEF Finish, Holds, Idle, TypeOK
<1>5. CASE \/ \E m \in Msgs : EnqueueAi(m) \/ EnqueueHuman(m) \/ RouteEcho(m)
           \/ \E c \in Convs : ConversationEvent(c)
  <2>1. run' = run
      BY <1>5 DEF EnqueueAi, EnqueueHuman, RouteEcho, ConversationEvent, Inbound,
         OptOut, RejectSale, PauseAutomation, ResumeAutomation, ResumeByInstruction,
         DeleteChat, RestoreChat, ConvStep
  <2>2. \A m \in Msgs : row[m].status \in {"sending", "sent"} => row'[m] = row[m]
      BY <1>5 DEF EnqueueAi, EnqueueHuman, RouteEcho, ConversationEvent, Inbound, Waiting,
         OptOut, RejectSale, PauseAutomation, ResumeAutomation, ResumeByInstruction,
         DeleteChat, RestoreChat, ConvStep, TypeOK
  <2> QED
      BY <2>1, <2>2 DEF Holds
<1>6. CASE Tick
  <2>1. \A m \in Msgs : row[m] \in RowType
      BY DEF TypeOK
  <2>2. \A m \in Msgs : row'[m].status = row[m].status
      BY <1>6, <2>1 DEF Tick, RowType
  <2>3. \/ run'[r] = run[r]
        \/ /\ run[r].stage = "holding" /\ run'[r].stage = "holding"
           /\ run'[r].msg = run[r].msg
      BY <1>6 DEF Tick, TypeOK, RunType
  <2> QED
      BY <2>2, <2>3 DEF Holds
<1>7. CASE UNCHANGED vars
    BY <1>7 DEF vars, Holds
<1> QED
    BY <1>1, <1>2, <1>3, <1>4, <1>5, <1>6, <1>7 DEF Next, Deliver

\* In the deployed configuration, one runner, a row that was dropped, cancelled
\* with its chat or given up is never sent and never reopened, however the
\* unconditional status writes interleave with deletes, sweeps and crashes.
THEOREM LoneRunnerClosesForGood ==
    ASSUME NEW r, Runners = {r}
    PROVE  Spec => ClosedForGood
<1>1. Init => LoneInv
    BY DEF Init, LoneInv, Holds, Idle
<1>2. TypeOK /\ LoneInv /\ [Next]_vars => LoneInv'
    BY LoneStep
<1>3. TypeOK /\ LoneInv /\ [Next]_vars =>
        [\A m \in Msgs : row[m].status = "failed_permanent" =>
            row'[m].status = "failed_permanent" /\ tries'[m] = tries[m]]_vars
    BY ClosedStep DEF LoneInv, Terminal
<1> QED
    BY <1>1, <1>2, <1>3, TypeCorrect, PTL DEF Spec, ClosedForGood
-----------------------------------------------------------------------------
(* With one runner the queue keeps its contract.                            *)

Enqueues(m) == EnqueueAi(m) \/ EnqueueHuman(m)
Calls(w)    == Send(w) \/ SendFails(w)

\* The sweep closes only rows that were being sent, and changes no attempts.
LEMMA SweepEffect ==
    ASSUME TypeOK, NEW m \in Msgs
    PROVE  /\ ExpireLeases[m].attempts = row[m].attempts
           /\ \/ ExpireLeases[m].status = row[m].status
              \/ row[m].status = "sending" /\ ExpireLeases[m].status = "failed_permanent"
<1>1. row[m] \in RowType
    BY DEF TypeOK
<1>2. /\ Moved(m, "failed_permanent").attempts = row[m].attempts
      /\ Moved(m, "failed_permanent").status = "failed_permanent"
    BY <1>1 DEF Moved, RowType
<1> QED
    BY <1>2 DEF ExpireLeases, LeaseExpired

\* What the end of an iteration, or marking the row as sent, writes to a row.
LEMMA ReleaseEffect ==
    ASSUME TypeOK, NEW w \in Runners, run[w].stage # "idle",
           Drop(w) \/ Hold(w) \/ MarkSent(w) \/ MarkFailed(w), NEW m \in Msgs
    PROVE  /\ row'[m].attempts = row[m].attempts
           /\ \/ row'[m].status = row[m].status
              \/ Holds(w, m) /\ row'[m].status \in {"failed_permanent", "failed", "sent"}
              \/ Holds(w, m) /\ run[w].stage = "holding" /\ row'[m].status = "queued"
<1>1. row[m] \in RowType
    BY DEF TypeOK
<1>2. run[w].msg \in Msgs
    BY HeldType DEF TypeOK
<1>3. CASE run[w].msg # m
    BY <1>2, <1>3 DEF Drop, Hold, MarkSent, MarkFailed, TypeOK
<1>4. CASE run[w].msg = m
  <2>1. \A s : /\ Moved(m, s).status = s /\ Moved(m, s).attempts = row[m].attempts
               /\ \A x : [Moved(m, s) EXCEPT !.since = x].status = s
               /\ \A x : [Moved(m, s) EXCEPT !.since = x].attempts = row[m].attempts
               /\ \A x : [Moved(m, s) EXCEPT !.retry = x].status = s
               /\ \A x : [Moved(m, s) EXCEPT !.retry = x].attempts = row[m].attempts
      BY <1>1 DEF Moved, RowType
  <2>2. Holds(w, m)
      BY <1>4 DEF Holds
  <2>3. CASE Drop(w)
      BY <1>4, <2>1, <2>2, <2>3 DEF Drop, TypeOK
  <2>4. CASE Hold(w)
      BY <1>4, <2>1, <2>2, <2>4 DEF Hold, TypeOK
  <2>5. CASE MarkSent(w)
      BY <1>4, <2>1, <2>2, <2>5 DEF MarkSent, TypeOK
  <2>6. CASE MarkFailed(w)
      BY <1>4, <2>1, <2>2, <2>6 DEF MarkFailed, TypeOK
  <2> QED
      BY <2>3, <2>4, <2>5, <2>6
<1> QED
    BY <1>3, <1>4

\* What a step that neither enqueues nor claims writes to a row.
LEMMA RowEffect ==
    ASSUME TypeOK, [Next]_vars, NEW r, Runners = {r}, NEW m \in Msgs,
           \A n \in Msgs : ~Enqueues(n) /\ ~Claim(r, n)
    PROVE  /\ row'[m].attempts = row[m].attempts
           /\ \/ row'[m].status = row[m].status
              \/ row[m].status \in {"sending"} \cup Waiting
                 /\ row'[m].status = "failed_permanent"
              \/ Holds(r, m) /\ row'[m].status \in {"failed_permanent", "failed", "sent"}
              \/ Holds(r, m) /\ run[r].stage = "holding" /\ row'[m].status = "queued"
<1>1. row[m] \in RowType
    BY DEF TypeOK
<1>2. CASE UNCHANGED row
    BY <1>2
<1>3. CASE ClaimNothing(r)
    BY <1>3, SweepEffect DEF ClaimNothing
<1>4. CASE Drop(r) \/ Hold(r) \/ MarkSent(r) \/ MarkFailed(r)
  <2>1. run[r].stage # "idle"
      BY <1>4 DEF Drop, Hold, MarkSent, MarkFailed
  <2> QED
      BY <1>4, <2>1, ReleaseEffect
<1>5. CASE \E c \in Convs : DeleteChat(c)
  <2>1. /\ Moved(m, "failed_permanent").attempts = row[m].attempts
        /\ Moved(m, "failed_permanent").status = "failed_permanent"
      BY <1>1 DEF Moved, RowType
  <2> QED
      BY <1>5, <2>1 DEF DeleteChat
<1>6. CASE Tick
    BY <1>1, <1>6 DEF Tick, RowType
<1>7. \/ UNCHANGED row \/ ClaimNothing(r) \/ Tick \/ \E c \in Convs : DeleteChat(c)
      \/ Drop(r) \/ Hold(r) \/ MarkSent(r) \/ MarkFailed(r)
  <2>1. CASE \E w \in Runners : Deliver(w) \/ Abort(w)
      BY <2>1 DEF Deliver, Undeliverable, CheckAi, CheckHuman, Send, SendFails, Remember,
                  Confirm, Publish, AfterSendFails, Abort
  <2>2. CASE \E n \in Msgs : EnqueueAi(n) \/ EnqueueHuman(n) \/ RouteEcho(n)
      BY <2>2 DEF RouteEcho, Enqueues
  <2>3. CASE \E c \in Convs : ConversationEvent(c)
      BY <2>3 DEF ConversationEvent, Inbound, OptOut, RejectSale, PauseAutomation,
                  ResumeAutomation, ResumeByInstruction, RestoreChat, ConvStep
  <2>4. CASE UNCHANGED vars
      BY <2>4 DEF vars
  <2> QED
      BY <2>1, <2>2, <2>3, <2>4 DEF Next
<1> QED
    BY <1>2, <1>3, <1>4, <1>5, <1>6, <1>7

BeforeCall == {"claimed", "holding", "ready"}

\* A runner that does not claim comes by no row, and does not go back to before
\* the call it has made.
LEMMA RunEffect ==
    ASSUME TypeOK, [Next]_vars, NEW r, Runners = {r}, NEW m \in Msgs,
           \A n \in Msgs : ~Claim(r, n)
    PROVE  /\ Holds(r, m)' => Holds(r, m)
           /\ Holds(r, m)' /\ run'[r].stage \in BeforeCall
                => run[r].stage \in BeforeCall /\ ~Calls(r)
<1> USE DEF BeforeCall
<1>1. CASE \/ Undeliverable(r) \/ CheckAi(r) \/ CheckHuman(r) \/ Send(r) \/ SendFails(r)
           \/ MarkSent(r) \/ Remember(r) \/ Confirm(r) \/ AfterSendFails(r)
  <2>1. run[r].stage # "idle"
      BY <1>1 DEF Undeliverable, CheckAi, CheckHuman, Send, SendFails, SocketCall, MarkSent,
                  Remember, Confirm, AfterSendFails
  <2>2. Holds(r, m)' => Holds(r, m)
    <3>1. CASE \E s \in Stages \ {"idle"} : Goto(r, s)
        BY <2>1, <3>1, GotoHolds
    <3>2. CASE run' = [run EXCEPT ![r].stage = "holding", ![r].resume = -UntilAllowed(hour)]
      <4>1. run[r] \in [stage : Stages \ {"idle"}, msg : Msgs,
                        attempts : 0 .. MaxClaims, resume : Int]
          BY <2>1 DEF TypeOK, RunType
      <4>2. run' = [run EXCEPT ![r] = [@ EXCEPT !.stage = "holding",
                                                !.resume = -UntilAllowed(hour)]]
          BY <3>2
      <4>3. run'[r].msg = run[r].msg
          BY <4>1, <4>2 DEF TypeOK
      <4> QED
          BY <2>1, <4>3 DEF Holds
    <3> QED
        BY <1>1, <3>1, <3>2 DEF Undeliverable, CheckAi, CheckHuman, Send, SendFails,
           MarkSent, Remember, Confirm, AfterSendFails, Stages
  <2>3. CASE Undeliverable(r) \/ CheckAi(r) \/ CheckHuman(r)
    <3>1. run[r].stage \in BeforeCall
        BY <2>3 DEF Undeliverable, CheckAi, CheckHuman
    <3>2. ~Calls(r)
      <4>1. tries' = tries /\ row' = row /\ reached' = reached /\ echo' = echo /\ late' = late
          BY <2>3 DEF Undeliverable, CheckAi, CheckHuman, history
      <4>2. Calls(r) => run'[r].stage \in {"acked", "failing"}
          BY <2>1, GotoEffect DEF Calls, Send, SendFails, Stages, TypeOK
      <4>3. run'[r].stage \in {"claimed", "holding", "ready", "dropping"}
        <5>1. CASE \E s \in {"ready", "dropping"} : Goto(r, s)
            BY <2>1, <5>1, GotoEffect DEF Stages, TypeOK
        <5>2. CASE run' = [run EXCEPT ![r].stage = "holding",
                                      ![r].resume = -UntilAllowed(hour)]
          <6>1. run[r] \in [stage : Stages \ {"idle"}, msg : Msgs,
                            attempts : 0 .. MaxClaims, resume : Int]
              BY <2>1 DEF TypeOK, RunType
          <6>2. run' = [run EXCEPT ![r] = [@ EXCEPT !.stage = "holding",
                                                    !.resume = -UntilAllowed(hour)]]
              BY <5>2
          <6> QED
              BY <6>1, <6>2 DEF TypeOK
        <5> QED
            BY <2>3, <5>1, <5>2 DEF Undeliverable, CheckAi, CheckHuman
      <4> QED
          BY <4>2, <4>3
    <3> QED
        BY <2>2, <3>1, <3>2
  <2>4. CASE Send(r) \/ SendFails(r) \/ MarkSent(r) \/ Remember(r) \/ Confirm(r)
             \/ AfterSendFails(r)
    <3>1. run'[r].stage \in {"acked", "failing", "marked", "guarded", "confirmed"}
        BY <2>1, <2>4, GotoEffect DEF Send, SendFails, MarkSent, Remember, Confirm,
           AfterSendFails, Stages, TypeOK
    <3> QED
        BY <2>2, <3>1
  <2> QED
      BY <1>1, <2>3, <2>4
<1>2. CASE Drop(r) \/ Hold(r) \/ Publish(r) \/ MarkFailed(r) \/ Abort(r)
  <2>1. Finish(r)
      BY <1>2 DEF Drop, Hold, Publish, MarkFailed, Abort
  <2> QED
      BY <2>1 DEF Finish, Holds, Idle, TypeOK
<1>3. CASE Tick
  <2>1. \/ run'[r] = run[r]
        \/ /\ run[r].stage = "holding" /\ run'[r].stage = "holding"
           /\ run'[r].msg = run[r].msg
      BY <1>3 DEF Tick, TypeOK, RunType
  <2>2. ~Calls(r)
      BY <1>3, <2>1, GotoEffect DEF Calls, Send, SendFails, SocketCall, Stages, TypeOK
  <2> QED
      BY <2>1, <2>2 DEF Holds
<1>4. CASE \/ \E n \in Msgs : EnqueueAi(n) \/ EnqueueHuman(n) \/ RouteEcho(n)
           \/ \E c \in Convs : ConversationEvent(c)
           \/ UNCHANGED vars
           \/ ClaimNothing(r)
  <2>1. run' = run
      BY <1>4 DEF EnqueueAi, EnqueueHuman, RouteEcho, ConversationEvent, Inbound,
         OptOut, RejectSale, PauseAutomation, ResumeAutomation, ResumeByInstruction,
         DeleteChat, RestoreChat, ConvStep, vars, ClaimNothing
  <2>2. ~Calls(r)
      BY <2>1, GotoEffect DEF Calls, Send, SendFails, SocketCall, Stages, TypeOK
  <2> QED
      BY <2>1, <2>2 DEF Holds
<1> QED
    BY <1>1, <1>2, <1>3, <1>4 DEF Next, Deliver

\* Only the socket call counts a try, or makes a row reach the lead.
LEMMA TriesEffect ==
    ASSUME TypeOK, [Next]_vars, NEW r, Runners = {r}, ~Calls(r)
    PROVE  tries' = tries /\ reached' = reached
<1>1. CASE \E w \in Runners : Deliver(w) \/ Abort(w)
    BY <1>1 DEF Calls, Deliver, Claim, ClaimNothing, Undeliverable, CheckAi, CheckHuman, Drop,
                Hold, MarkSent, Remember, Confirm, Publish, AfterSendFails, MarkFailed, Abort,
                history
<1>2. CASE \E n \in Msgs : EnqueueAi(n) \/ EnqueueHuman(n) \/ RouteEcho(n)
    BY <1>2 DEF EnqueueAi, EnqueueHuman, RouteEcho, history
<1>3. CASE \E c \in Convs : ConversationEvent(c)
    BY <1>3 DEF ConversationEvent, Inbound, OptOut, RejectSale, PauseAutomation, DeleteChat,
                ResumeAutomation, ResumeByInstruction, RestoreChat, ConvStep, history
<1>4. CASE Tick \/ UNCHANGED vars
    BY <1>4 DEF Tick, vars
<1> QED
    BY <1>1, <1>2, <1>3, <1>4 DEF Next

\* What a claim writes: only its own row gets another attempt, and it leaves the
\* rows that the sweep closes behind.
LEMMA ClaimWrites ==
    ASSUME TypeOK, NEW r \in Runners, NEW n \in Msgs, Claim(r, n), NEW m \in Msgs
    PROVE  /\ m # n => row'[m] = ExpireLeases[m]
           /\ m = n => /\ row'[m].status = "sending"
                       /\ row'[m].attempts = AtMost(row[m].attempts + 1, MaxClaims)
<1> DEFINE attempt == AtMost(row[n].attempts + 1, MaxClaims)
<1>1. row' = [ExpireLeases EXCEPT
                ![n] = [@ EXCEPT !.status = "sending", !.age = 0, !.attempts = attempt]]
    BY DEF Claim
<1>2. ExpireLeases \in [Msgs -> RowType]
    BY ExpireTyped DEF TypeOK
<1>3. ExpireLeases[n] \in RowType
    BY <1>2
<1>4. m = n => attempt = AtMost(row[m].attempts + 1, MaxClaims)
    OBVIOUS
<1> HIDE DEF attempt
<1> QED
    BY <1>1, <1>2, <1>3, <1>4 DEF RowType

\* A claim starts another attempt, which has made no call yet.
LEMMA TriesClaim ==
    ASSUME TypeOK, TriesInv, NEW r, Runners = {r}, NEW n \in Msgs, Claim(r, n)
    PROVE  TriesInv'
<1> SUFFICES ASSUME NEW m \in Msgs PROVE TriesOf(m)'
    BY DEF TriesInv
<1>1. TriesOf(m) /\ row[m] \in RowType /\ tries[m] \in Nat
    BY LimitsAssumption DEF TypeOK, TriesInv
<1>2. tries' = tries
    BY DEF Claim, history
<1>3. run'[r].stage = "claimed" /\ run'[r].msg = n
    BY ClaimEffect DEF TypeOK
<1>4. CASE m # n
  <2>1. row'[m] = ExpireLeases[m]
      BY <1>4, ClaimWrites
  <2>2. ~Holds(r, m)'
      BY <1>3, <1>4 DEF Holds
  <2> QED
      BY <1>1, <1>2, <2>1, <2>2, SweepEffect DEF TriesOf, Counted
<1>5. CASE m = n
  <2>1. row'[m].status = "sending"
        /\ row'[m].attempts = AtMost(row[m].attempts + 1, MaxClaims)
      BY <1>5, ClaimWrites
  <2>2. row[m].status = "queued" \/ row[m].attempts < MaxAttempts
      BY <1>5 DEF Claim, Claimable
  <2>3. tries[m] < AtMost(row'[m].attempts, MaxAttempts)
    <3>1. /\ row[m].attempts \in 0 .. MaxClaims
          /\ MaxAttempts \in Nat /\ MaxClaims \in Nat /\ MaxClaims > MaxAttempts
        BY <1>1, LimitsAssumption DEF RowType
    <3>2. tries[m] <= row[m].attempts /\ tries[m] < MaxAttempts
        BY <1>1, <2>2, <3>1 DEF AtMost, Counted, TriesOf
    <3>3. row'[m].attempts = IF row[m].attempts + 1 < MaxClaims
                             THEN row[m].attempts + 1 ELSE MaxClaims
        BY <2>1 DEF AtMost
    <3> QED
        BY <1>1, <3>1, <3>2, <3>3 DEF AtMost
  <2>4. tries'[m] < Counted(m)'
      BY <1>2, <2>3 DEF Counted
  <2>5. Counted(m)' \in Nat /\ tries'[m] \in Nat
    <3>1. row'[m].attempts \in Nat
        BY <1>1, <2>1, LimitsAssumption DEF AtMost, RowType
    <3> QED
        BY <1>1, <1>2, <3>1, LimitsAssumption DEF AtMost, Counted
  <2> QED
      BY <2>1, <2>4, <2>5 DEF TriesOf
<1> QED
    BY <1>4, <1>5

LEMMA TriesStep ==
    ASSUME TypeOK, LoneInv, TriesInv, [Next]_vars, NEW r, Runners = {r}
    PROVE  TriesInv'
<1>1. CASE \E n \in Msgs : Claim(r, n)
    BY <1>1, TriesClaim
<1>2. CASE \A n \in Msgs : ~Claim(r, n)
  <2> SUFFICES ASSUME NEW m \in Msgs PROVE TriesOf(m)'
      BY DEF TriesInv
  <2>1. /\ TriesOf(m) /\ row[m] \in RowType /\ tries[m] \in Nat
        /\ MaxAttempts \in Nat \ {0} /\ Counted(m) \in 0 .. MaxAttempts
    <3>1. row[m] \in RowType /\ row[m].attempts \in Nat /\ MaxAttempts \in Nat
        BY LimitsAssumption DEF TypeOK, RowType
    <3> QED
        BY <3>1, LimitsAssumption DEF TypeOK, TriesInv, Counted, AtMost
  <2>2. /\ Holds(r, m)' => Holds(r, m)
        /\ Holds(r, m)' /\ run'[r].stage \in BeforeCall
             => run[r].stage \in BeforeCall /\ ~Calls(r)
      BY <1>2, RunEffect
  <2>3. Holds(r, m) => row[m].status \in {"sending", "sent"}
      BY DEF LoneInv
  <2>4. CASE \E n \in Msgs : Enqueues(n)
    <3>1. PICK n \in Msgs : Enqueues(n)
        BY <2>4
    <3>2. /\ row[n].status = "absent" /\ tries' = tries /\ run' = run
          /\ \E wait : row' = [row EXCEPT ![n] = NewRow(wait)]
        BY <3>1 DEF Enqueues, EnqueueAi, EnqueueHuman, history
    <3>3. CASE m = n
      <4>1. row'[m].status = "queued" /\ row'[m].attempts = 0
          BY <3>2, <3>3 DEF NewRow, TypeOK
      <4>2. tries[m] = 0 /\ ~Holds(r, m)
          BY <2>1, <2>3, <3>2, <3>3 DEF TriesOf
      <4> QED
          BY <2>1, <2>2, <3>2, <4>1, <4>2 DEF TriesOf, Counted, AtMost
    <3>4. CASE m # n
      <4>1. row'[m] = row[m]
          BY <3>2, <3>4 DEF TypeOK
      <4> QED
          BY <2>1, <3>2, <4>1 DEF TriesOf, Counted, Holds
    <3> QED
        BY <3>3, <3>4
  <2>5. CASE Calls(r)
    <3>1. run[r].stage = "ready" /\ row' = row
        BY <2>5 DEF Calls, Send, SendFails, SocketCall
    <3>2. tries' = [tries EXCEPT ![run[r].msg] = AtMost(@ + 1, MaxAttempts + 1)]
        BY <2>5 DEF Calls, Send, SendFails, SocketCall
    <3>3. CASE m = run[r].msg
      <4>1. Holds(r, m)
          BY <3>1, <3>3 DEF Holds
      <4>2. tries[m] < Counted(m)
          BY <2>1, <3>1, <4>1 DEF TriesOf
      <4>3. tries'[m] = tries[m] + 1
          BY <2>1, <3>2, <3>3, <4>2 DEF AtMost, TypeOK
      <4> QED
          BY <2>1, <2>2, <2>3, <2>5, <3>1, <4>1, <4>2, <4>3
          DEF TriesOf, Counted, BeforeCall
    <3>4. CASE m # run[r].msg
      <4>1. tries'[m] = tries[m] /\ ~Holds(r, m)
          BY <3>2, <3>4 DEF Holds, TypeOK
      <4> QED
          BY <2>1, <2>2, <3>1, <4>1 DEF TriesOf, Counted
    <3> QED
        BY <3>3, <3>4
  <2>6. CASE ~Calls(r) /\ \A n \in Msgs : ~Enqueues(n)
    <3>1. /\ row'[m].attempts = row[m].attempts
          /\ \/ row'[m].status = row[m].status
             \/ row'[m].status \in {"failed_permanent", "failed", "sent"}
             \/ Holds(r, m) /\ run[r].stage = "holding" /\ row'[m].status = "queued"
        BY <1>2, <2>6, RowEffect
    <3>2. tries' = tries
        BY <2>6, TriesEffect
    <3>3. Counted(m)' = Counted(m)
        BY <3>1 DEF Counted
    <3>4. Holds(r, m) /\ run[r].stage \in BeforeCall => tries[m] < Counted(m)
        BY <2>1 DEF TriesOf, BeforeCall
    <3>5. Holds(r, m)' /\ run'[r].stage \in BeforeCall => tries'[m] < Counted(m)'
        BY <2>2, <3>2, <3>3, <3>4
    <3>6. row'[m].status = "queued" => tries'[m] < MaxAttempts
        BY <2>1, <3>1, <3>2, <3>4 DEF TriesOf, BeforeCall
    <3> QED
        BY <2>1, <3>1, <3>2, <3>3, <3>5, <3>6 DEF TriesOf, BeforeCall
  <2> QED
      BY <2>4, <2>5, <2>6
<1> QED
    BY <1>1, <1>2

\* A row marked sent that its runner has let go of is not taken up again.
LEMMA LetGo ==
    ASSUME TypeOK, [Next]_vars, NEW r, Runners = {r}, NEW m \in Msgs,
           row[m].status \in Terminal, ~Holds(r, m)
    PROVE  ~Holds(r, m)'
<1>1. CASE \E n \in Msgs : Claim(r, n)
  <2>1. PICK n \in Msgs : Claim(r, n)
      BY <1>1
  <2>2. n # m
      BY <2>1 DEF Claim, Claimable, LeaseExpired, Terminal
  <2>3. run'[r].msg = n
      BY <2>1, ClaimEffect DEF TypeOK
  <2> QED
      BY <2>2, <2>3 DEF Holds
<1>2. CASE \A n \in Msgs : ~Claim(r, n)
    BY <1>2, RunEffect
<1> QED
    BY <1>1, <1>2

\* How the outcome of a row is read off it when there is one runner.
LEMMA OutcomeIs ==
    ASSUME TypeOK, LoneInv, NEW r, Runners = {r}, NEW m \in Msgs
    PROVE  /\ Outcome(m) \in {"absent", "pending", "sent", "dropped"}
           /\ Outcome(m) = "absent" <=> row[m].status = "absent"
           /\ Outcome(m) = "dropped" <=> row[m].status = "failed_permanent"
           /\ Outcome(m) = "sent" <=> row[m].status = "sent" /\ ~Holds(r, m)
           /\ Holds(r, m) => Outcome(m) = "pending"
BY DEF Outcome, LoneInv

\* What every step but a producer's and a call of the socket does to an outcome:
\* a pending row may be closed, as sent only when it reached the lead.
LEMMA OutcomeStep ==
    ASSUME TypeOK, TypeOK', LoneInv, LoneInv', HonestRecords', [Next]_vars,
           NEW r, Runners = {r}, ~Calls(r), \A n \in Msgs : ~Enqueues(n), NEW m \in Msgs
    PROVE  \/ Outcome(m)' = Outcome(m)
           \/ Outcome(m) = "pending" /\ Outcome(m)' = "dropped"
           \/ Outcome(m) = "pending" /\ Outcome(m)' = "sent" /\ m \in reached
<1>1. /\ Outcome(m) \in {"absent", "pending", "sent", "dropped"}
      /\ Outcome(m) = "absent" <=> row[m].status = "absent"
      /\ Outcome(m) = "dropped" <=> row[m].status = "failed_permanent"
      /\ Outcome(m) = "sent" <=> row[m].status = "sent" /\ ~Holds(r, m)
      /\ Holds(r, m) => Outcome(m) = "pending"
    BY OutcomeIs
<1>2. /\ Outcome(m)' \in {"absent", "pending", "sent", "dropped"}
      /\ Outcome(m)' = "absent" <=> row'[m].status = "absent"
      /\ Outcome(m)' = "dropped" <=> row'[m].status = "failed_permanent"
      /\ Outcome(m)' = "sent" <=> row'[m].status = "sent" /\ ~Holds(r, m)'
    BY DEF Outcome, LoneInv
<1>3. reached' = reached
    BY TriesEffect
<1>4. row'[m].status = "sent" => m \in reached
    BY <1>3 DEF HonestRecords
<1>5. Outcome(m) = "absent" <=> row'[m].status = "absent"
  <2>1. CASE \E n \in Msgs : Claim(r, n)
    <3>1. PICK n \in Msgs : Claim(r, n)
        BY <2>1
    <3>2. row[n].status # "absent"
        BY <3>1 DEF Claim, Claimable, LeaseExpired
    <3> QED
        BY <1>1, <3>1, <3>2, ClaimWrites, SweepEffect
  <2>2. CASE \A n \in Msgs : ~Claim(r, n)
    <3>1. Holds(r, m) => row[m].status # "absent"
        BY DEF LoneInv
    <3> QED
        BY <1>1, <2>2, <3>1, RowEffect DEF Waiting
  <2> QED
      BY <2>1, <2>2
<1>6. CASE row[m].status \in Terminal /\ ~Holds(r, m)
    BY <1>1, <1>2, <1>6, ClosedStep, LetGo DEF Terminal
<1>7. CASE row[m].status = "absent"
    BY <1>1, <1>2, <1>5, <1>7
<1>8. CASE Outcome(m) = "pending"
    BY <1>1, <1>2, <1>4, <1>5, <1>8
<1> QED
    BY <1>1, <1>6, <1>7, <1>8 DEF Terminal, LoneInv

\* The rows as the contract sees them.
OutcomeMap == [m \in Msgs |-> Outcome(m)]

\* A producer's step accepts a row.
LEMMA EnqueueAccepts ==
    ASSUME TypeOK, LoneInv, LoneInv', NEW r, Runners = {r}, NEW n \in Msgs, Enqueues(n)
    PROVE  Contract!Accept(n)
<1>1. /\ row[n].status = "absent" /\ tries' = tries /\ run' = run /\ reached' = reached
      /\ \E wait : row' = [row EXCEPT ![n] = NewRow(wait)]
    BY DEF Enqueues, EnqueueAi, EnqueueHuman, history
<1>2. row'[n].status = "queued"
    BY <1>1 DEF NewRow, TypeOK
<1>3. Outcome(n) = "absent" /\ Outcome(n)' = "pending"
    BY <1>1, <1>2 DEF Outcome
<1>4. \A m \in Msgs \ {n} : Outcome(m)' = Outcome(m)
    BY <1>1 DEF Outcome, Holds, TypeOK
<1>5. OutcomeMap' = [OutcomeMap EXCEPT ![n] = "pending"]
    BY <1>3, <1>4 DEF OutcomeMap
<1> QED
    BY <1>1, <1>3, <1>5 DEF Contract!Accept, OutcomeMap

\* A call of the socket is one of the tries the contract allows.
LEMMA CallTries ==
    ASSUME TypeOK, LoneInv, LoneInv', TriesInv, NEW r, Runners = {r}, Calls(r)
    PROVE  Contract!Try(run[r].msg)
<1> DEFINE m == run[r].msg
<1>1. /\ run[r].stage = "ready" /\ row' = row
      /\ tries' = [tries EXCEPT ![m] = AtMost(@ + 1, MaxAttempts + 1)]
      /\ reached' \in {reached, reached \cup {m}}
      /\ \E s \in Stages \ {"idle"} : Goto(r, s)
    BY DEF Calls, Send, SendFails, SocketCall, Reaches, Stages
<1>2. m \in Msgs /\ Holds(r, m)
    BY <1>1, HeldType DEF Holds, TypeOK
<1>3. /\ tries[m] \in Nat /\ MaxAttempts \in Nat /\ row[m].attempts \in 0 .. MaxClaims
      /\ tries[m] < AtMost(row[m].attempts, MaxAttempts)
    BY <1>1, <1>2, LimitsAssumption DEF TypeOK, RowType, TriesInv, TriesOf, Counted
<1>4. tries' = [tries EXCEPT ![m] = @ + 1] /\ tries[m] < MaxAttempts
  <2>1. AtMost(tries[m] + 1, MaxAttempts + 1) = tries[m] + 1 /\ tries[m] < MaxAttempts
      BY <1>3 DEF AtMost
  <2> HIDE DEF m
  <2> QED
      BY <1>1, <2>1
<1>5. \A n \in Msgs : Holds(r, n)' <=> Holds(r, n)
    BY <1>1, GotoHolds
<1>6. \A n \in Msgs : Outcome(n)' = Outcome(n)
    BY <1>1, <1>5 DEF Outcome
<1>7. OutcomeMap[m] = "pending" /\ OutcomeMap' = OutcomeMap
    BY <1>2, <1>6, OutcomeIs DEF OutcomeMap
<1> QED
    BY <1>1, <1>4, <1>7 DEF Contract!Try, OutcomeMap

\* Every step of a lone runner's queue is one of the contract's, or none.
LEMMA ContractStep ==
    ASSUME TypeOK, TypeOK', LoneInv, LoneInv', TriesInv, HonestRecords', [Next]_vars,
           NEW r, Runners = {r}
    PROVE  Contract!ContractNext
<1>1. CASE \E n \in Msgs : Enqueues(n)
    BY <1>1, EnqueueAccepts DEF Contract!ContractNext
<1>2. CASE Calls(r)
  <2>1. run[r].msg \in Msgs
      BY <1>2, HeldType DEF Calls, Send, SendFails, SocketCall, TypeOK
  <2> QED
      BY <1>2, <2>1, CallTries DEF Contract!ContractNext
<1>3. CASE ~Calls(r) /\ \A n \in Msgs : ~Enqueues(n)
  <2>1. \A m \in Msgs :
          \/ Outcome(m)' = Outcome(m)
          \/ Outcome(m) = "pending" /\ Outcome(m)' = "dropped"
          \/ Outcome(m) = "pending" /\ Outcome(m)' = "sent" /\ m \in reached
      BY <1>3, OutcomeStep
  <2>2. \A m \in Msgs : Outcome(m)' \in {"absent", "pending", "sent", "dropped"}
      BY DEF Outcome
  <2>3. Contract!Close
      BY <1>3, <2>1, <2>2, TriesEffect DEF Contract!Close, Contract!Outcomes
  <2> QED
      BY <2>3 DEF Contract!ContractNext
<1> QED
    BY <1>1, <1>2, <1>3

\* The deployed queue, one runner, implements what it promises the rest of the
\* system: a row is handed to the socket at most MaxAttempts times, is closed as
\* sent only if it reached the lead, and is never touched once closed, through
\* every hold, retry, expired lease, crash and deleted chat.
THEOREM LoneRunnerKeepsContract ==
    ASSUME NEW r, Runners = {r}
    PROVE  Spec => KeepsContract
<1>1. Init => LoneInv /\ TriesInv
  <2> SUFFICES ASSUME Init PROVE LoneInv /\ TriesInv
      OBVIOUS
  <2>1. \A m \in Msgs : tries[m] = 0 /\ row[m].attempts = 0 /\ row[m].status = "absent"
      BY DEF Init
  <2>2. \A w \in Runners, m \in Msgs : ~Holds(w, m)
      BY DEF Init, Holds, Idle
  <2> QED
      BY <2>1, <2>2, LimitsAssumption DEF LoneInv, TriesInv, TriesOf, Counted, AtMost
<1>2. Init => Contract!ContractInit
  <2> SUFFICES ASSUME Init PROVE Contract!ContractInit
      OBVIOUS
  <2>1. \A m \in Msgs : Outcome(m) = "absent"
      BY DEF Init, Outcome
  <2> QED
      BY <2>1 DEF Init, Contract!ContractInit
<1>3. TypeOK /\ LoneInv /\ TriesInv /\ [Next]_vars => LoneInv' /\ TriesInv'
    BY LoneStep, TriesStep
<1>4. /\ TypeOK /\ LoneInv /\ TriesInv /\ [Next]_vars /\ TypeOK' /\ LoneInv' /\ HonestRecords'
      => [Contract!ContractNext]_(Contract!contractVars)
    BY ContractStep
<1> QED
    BY <1>1, <1>2, <1>3, <1>4, TypeCorrect, RecordsAreHonest, PTL
    DEF Spec, KeepsContract, Contract!ContractSafety
=============================================================================
