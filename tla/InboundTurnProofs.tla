--------------------------- MODULE InboundTurnProofs ---------------------------
(* Theorems about InboundTurn, for every set of messages and of concurrent    *)
(* ingestions and every number of faults.                                     *)
EXTENDS InboundTurn, SequenceTheorems, TLAPS

-----------------------------------------------------------------------------
(* Values.                                                                   *)

LEMMA IngestHolds ==
    ASSUME NEW x \in {Idle} \cup Underway, x.stage # "idle"
    PROVE  x \in Underway
BY DEF Idle

\* What an ingestion may become.
LEMMA IngestMade ==
    ASSUME NEW x \in Underway, NEW m \in Msgs, NEW automation \in BOOLEAN, NEW heard \in BOOLEAN,
           conv \in Conversation
    PROVE  /\ [stage |-> "loaded", msg |-> m, snap |-> Read, first |-> heard] \in Underway
           /\ [x EXCEPT !.stage = "stored"] \in Underway
           /\ [x EXCEPT !.stage = "shown"] \in Underway
           /\ [x EXCEPT !.snap.automation = automation, !.first = FALSE] \in Underway
BY DEF Underway, Snapshot, Read, Conversation

\* What a turn may become, with the messages it has.
LEMMA TurnMade ==
    ASSUME NEW x \in Turns
    PROVE  /\ [x EXCEPT !.stage = "judging"] \in Turns
           /\ [x EXCEPT !.stage = "gating"] \in Turns
           /\ [x EXCEPT !.stage = "drafting"] \in Turns
           /\ [x EXCEPT !.stage = "rejecting", !.verdict = "firm"] \in Turns
           /\ Silenced(x) \in Turns
BY DEF Turns, Snapshot, Silenced, Verdicts

LEMMA TurnsHold ==
    ASSUME TypeOK
    PROVE  \A i \in DOMAIN flushes : flushes[i] \in Turns /\ flushes[i].msgs \subseteq Msgs
<1> SUFFICES ASSUME NEW i \in DOMAIN flushes
             PROVE  flushes[i] \in Turns /\ flushes[i].msgs \subseteq Msgs
  OBVIOUS
<1>1. flushes[i] \in Turns BY DEF TypeOK
<1> QED BY <1>1 DEF Turns

LEMMA ClosedIsABurst == Closed \in Bursts
BY DEF Closed, Bursts, Snapshot

-----------------------------------------------------------------------------
(* The chain.                                                                *)

\* One turn changes and keeps its messages.
LEMMA SetTurnKeeps ==
    ASSUME flushes \in Seq(Turns), NEW i \in DOMAIN flushes, NEW x \in Turns, SetTurn(i, x)
    PROVE  /\ flushes' \in Seq(Turns)
           /\ DOMAIN flushes' = DOMAIN flushes
           /\ flushes'[i] = x
           /\ \A j \in DOMAIN flushes : j # i => flushes'[j] = flushes[j]
BY DEF SetTurn

\* Where a turn was before turn i ended.
Before(i, j) == IF j < i THEN j ELSE j + 1

LEMMA TurnEndsRemoves ==
    ASSUME flushes \in Seq(Turns), NEW i \in DOMAIN flushes, TurnEnds(i)
    PROVE  /\ flushes' \in Seq(Turns)
           /\ \A j \in DOMAIN flushes' :
                /\ j \in Nat /\ j >= 1
                /\ Before(i, j) \in DOMAIN flushes \ {i}
                /\ flushes'[j] = flushes[Before(i, j)]
<1> DEFINE front == SubSeq(flushes, 1, i - 1)
           back  == SubSeq(flushes, i + 1, Len(flushes))
<1>1. i \in 1 .. Len(flushes) /\ Len(flushes) \in Nat OBVIOUS
<1>2. /\ front \in Seq(Turns) /\ Len(front) = i - 1
      /\ \A j \in 1 .. i - 1 : front[j] = flushes[j]
  <2>1. \A j \in 1 .. i - 1 : flushes[j] \in Turns BY <1>1
  <2>2. 1 \in Int /\ i - 1 \in Int BY <1>1
  <2>3. /\ front \in Seq(Turns)
        /\ Len(front) = IF 1 <= i - 1 THEN (i - 1) - 1 + 1 ELSE 0
        /\ \A j \in 1 .. (i - 1) - 1 + 1 : front[j] = flushes[1 + j - 1]
    BY <2>1, <2>2, SubSeqProperties
  <2> QED BY <1>1, <2>3
<1>3. /\ back \in Seq(Turns) /\ Len(back) = Len(flushes) - i
      /\ \A j \in 1 .. Len(flushes) - i : back[j] = flushes[i + j]
  <2>1. \A j \in i + 1 .. Len(flushes) : flushes[j] \in Turns BY <1>1
  <2>2. i + 1 \in Int /\ Len(flushes) \in Int BY <1>1
  <2>3. /\ back \in Seq(Turns)
        /\ Len(back) = IF i + 1 <= Len(flushes) THEN Len(flushes) - (i + 1) + 1 ELSE 0
        /\ \A j \in 1 .. Len(flushes) - (i + 1) + 1 : back[j] = flushes[(i + 1) + j - 1]
    BY <2>1, <2>2, SubSeqProperties
  <2> QED BY <1>1, <2>3
<1>4. flushes' = front \o back BY DEF TurnEnds
<1>5. /\ front \o back \in Seq(Turns)
      /\ Len(front \o back) = Len(front) + Len(back)
      /\ \A j \in 1 .. Len(front) + Len(back) :
            (front \o back)[j] = IF j <= Len(front) THEN front[j] ELSE back[j - Len(front)]
  BY <1>2, <1>3, ConcatProperties, Zenon
<1> HIDE DEF front, back
<1>6. \A j \in DOMAIN flushes' : j \in 1 .. Len(flushes) - 1
  BY <1>1, <1>2, <1>3, <1>4, <1>5
<1>7. ASSUME NEW j \in 1 .. Len(flushes) - 1
      PROVE  /\ Before(i, j) \in DOMAIN flushes \ {i}
             /\ flushes'[j] = flushes[Before(i, j)]
  <2>1. CASE j < i
    BY <1>1, <1>2, <1>3, <1>4, <1>5, <2>1 DEF Before
  <2>2. CASE j >= i
    <3>1. j - (i - 1) \in 1 .. Len(flushes) - i /\ i + (j - (i - 1)) = j + 1
      BY <1>1, <2>2
    <3>2. j \in 1 .. Len(front) + Len(back) /\ ~(j <= Len(front)) /\ j - Len(front) = j - (i - 1)
      BY <1>1, <1>2, <1>3, <2>2
    <3>3. flushes'[j] = back[j - (i - 1)] BY <1>4, <1>5, <3>2
    <3>4. back[j - (i - 1)] = flushes[j + 1] BY <1>3, <3>1
    <3> QED BY <1>1, <2>2, <3>3, <3>4 DEF Before
  <2> QED BY <1>1, <2>1, <2>2
<1>8. flushes' \in Seq(Turns) BY <1>4, <1>5
<1> QED BY <1>1, <1>6, <1>7, <1>8

LEMMA BeforeIsInjective ==
    ASSUME NEW i \in Nat, NEW j \in Nat, NEW k \in Nat, Before(i, j) = Before(i, k)
    PROVE  j = k
BY DEF Before

-----------------------------------------------------------------------------
(* Types.  That a message which is done or lost is stored needs OnePlace.    *)

LEMMA TypeInit == Init => TypeOK
<1> SUFFICES ASSUME Init PROVE TypeOK OBVIOUS
<1>1. conv \in Conversation BY DEF Init, Conversation
<1>2. flushes \in Seq(Turns) BY DEF Init
<1>3. 0 \in 0 .. MaxFaults BY FaultsAssumption
<1> QED BY <1>1, <1>2, <1>3, ClosedIsABurst DEF Init, TypeOK

LEMMA TypeIngest ==
    ASSUME TypeOK, OnePlace, NEW e \in Deliveries,
           (\E m \in Msgs : Load(e, m)) \/ IngestStep(e) \/ IngestFails(e)
    PROVE  TypeOK'
<1> DEFINE x == ingests[e]
<1> USE DEF TypeOK, SetIngest
<1>1. x \in {Idle} \cup Underway OBVIOUS
<1>2. ASSUME NEW v \in {Idle} \cup Underway, SetIngest(e, v)
      PROVE  ingests' \in [Deliveries -> {Idle} \cup Underway]
  BY <1>2
<1>3. x \in Underway => x.msg \in Msgs /\ x.snap \in Snapshot BY DEF Underway
<1>4. x.stage \in {"stored", "shown"} => x \in Underway /\ x.msg \in stored
  BY <1>1, <1>3 DEF OnePlace, Carries, Idle
<1>5. ASSUME NEW m \in Msgs, Load(e, m) PROVE TypeOK'
  <2>1. (~conv.heard) \in BOOLEAN BY DEF Conversation
  <2>2. [stage |-> "loaded", msg |-> m, snap |-> Read, first |-> ~conv.heard] \in Underway
    <3>1. [stage |-> "loaded", msg |-> m, snap |-> Read, first |-> TRUE] \in Underway
      BY DEF Underway, Read, Snapshot, Conversation
    <3>2. [stage |-> "loaded", msg |-> m, snap |-> Read, first |-> FALSE] \in Underway
      BY DEF Underway, Read, Snapshot, Conversation
    <3> QED BY <2>1, <3>1, <3>2
  <2>3. ingests' \in [Deliveries -> {Idle} \cup Underway] BY <1>2, <1>5, <2>2 DEF Load
  <2> QED BY <1>5, <2>3 DEF Load, history
<1>6. CASE Store(e)
  <2>1. x \in Underway BY <1>1, <1>6 DEF Store, Idle
  <2>2. [x EXCEPT !.stage = "stored"] \in Underway BY <2>1 DEF Underway
  <2>3. ingests' \in [Deliveries -> {Idle} \cup Underway] BY <1>2, <1>6, <2>2 DEF Store
  <2>4. /\ stored' \subseteq Msgs /\ stored \subseteq stored' /\ late' \subseteq stored'
    BY <1>3, <1>6, <2>1 DEF Store
  <2> QED BY <1>6, <2>3, <2>4 DEF Store
<1>7. CASE Preview(e)
  <2>1. x \in Underway BY <1>1, <1>7 DEF Preview, Idle
  <2>2. [x EXCEPT !.stage = "shown"] \in Underway BY <2>1 DEF Underway
  <2>3. ingests' \in [Deliveries -> {Idle} \cup Underway] BY <1>2, <1>7, <2>2 DEF Preview
  <2>4. conv' \in Conversation BY <1>7 DEF Preview, Conversation
  <2> QED BY <1>7, <2>3, <2>4 DEF Preview, history
<1>8. CASE ReadForm(e)
  <2>1. x \in Underway BY <1>1, <1>8 DEF ReadForm, Idle
  <2>2. [x EXCEPT !.snap.automation = conv.automation, !.first = FALSE] \in Underway
    BY <2>1 DEF Underway, Snapshot, Conversation
  <2>3. ingests' \in [Deliveries -> {Idle} \cup Underway] BY <1>2, <1>8, <2>2 DEF ReadForm
  <2> QED BY <1>8, <2>3 DEF ReadForm, history
<1>9. CASE Silence(e)
  <2>1. ingests' \in [Deliveries -> {Idle} \cup Underway] BY <1>2, <1>9 DEF Silence
  <2>2. conv' \in Conversation BY <1>9 DEF Silence, Conversation
  <2>3. faults' \in 0 .. MaxFaults BY <1>9, FaultsAssumption DEF Silence
  <2>4. done' \subseteq stored BY <1>4, <1>9 DEF Silence
  <2> QED BY <1>9, <2>1, <2>2, <2>3, <2>4 DEF Silence
<1>10. CASE Collect(e)
  <2>1. ingests' \in [Deliveries -> {Idle} \cup Underway] BY <1>2, <1>10 DEF Collect
  <2>2. window' \in Bursts BY <1>3, <1>4, <1>10 DEF Collect, Collected, Bursts
  <2> QED BY <1>10, <2>1, <2>2 DEF Collect, history
<1>11. CASE IngestFails(e)
  <2>1. ingests' \in [Deliveries -> {Idle} \cup Underway] BY <1>2, <1>11 DEF IngestFails
  <2>2. faults' \in 0 .. MaxFaults BY <1>11, FaultsAssumption DEF IngestFails
  <2>3. x.stage \in {"loaded", "stored", "shown"} BY <1>1, <1>11 DEF IngestFails, Underway
  <2>4. lost' \subseteq stored BY <1>4, <1>11, <2>3 DEF IngestFails
  <2> QED BY <1>11, <2>1, <2>2, <2>4 DEF IngestFails
<1> QED BY <1>5, <1>6, <1>7, <1>8, <1>9, <1>10, <1>11 DEF IngestStep

LEMMA TypeFire ==
    ASSUME TypeOK, Fire
    PROVE  TypeOK'
<1>1. Turn(window) \in Turns BY DEF Fire, Turn, Turns, TypeOK, Bursts, Verdicts
<1>2. flushes' \in Seq(Turns) BY <1>1, AppendProperties DEF Fire, TypeOK
<1> QED BY <1>2, ClosedIsABurst DEF Fire, TypeOK, history

LEMMA TypeFlush ==
    ASSUME TypeOK, OnePlace, NEW i \in DOMAIN flushes,
           FlushStep(i) \/ RejectFails(i) \/ FlushFails(i)
    PROVE  TypeOK'
<1> DEFINE x == flushes[i]
<1> USE DEF TypeOK
<1>1. x \in Turns /\ x.msgs \subseteq stored
  <2>1. x \in Turns OBVIOUS
  <2>2. \A m \in x.msgs : m \in stored BY DEF OnePlace
  <2> QED BY <2>1, <2>2
<1>2. ASSUME NEW v \in Turns, SetTurn(i, v) PROVE flushes' \in Seq(Turns)
  BY <1>2, SetTurnKeeps
<1>3. ASSUME TurnEnds(i) PROVE flushes' \in Seq(Turns) /\ done' \subseteq stored
  BY <1>1, <1>3, TurnEndsRemoves DEF TurnEnds
<1>4. CASE Begin(i)
  BY <1>1, <1>2, <1>4, TurnMade DEF Begin, history
<1>5. CASE Judge(i)
  BY <1>1, <1>2, <1>5, TurnMade DEF Judge, history
<1>6. CASE Reject(i)
  <2>1. flushes' \in Seq(Turns) BY <1>1, <1>2, <1>6, TurnMade DEF Reject
  <2>2. conv' \in Conversation BY <1>6 DEF Reject, Conversation
  <2> QED BY <1>6, <2>1, <2>2 DEF Reject, history
<1>7. CASE RejectFails(i)
  <2>1. flushes' \in Seq(Turns) BY <1>1, <1>2, <1>7, TurnMade DEF RejectFails
  <2>2. conv' \in Conversation BY <1>7 DEF RejectFails, Conversation
  <2>3. faults' \in 0 .. MaxFaults BY <1>7, FaultsAssumption DEF RejectFails
  <2> QED BY <1>7, <2>1, <2>2, <2>3 DEF RejectFails, history
<1>8. CASE Gate(i)
  <2>1. flushes' \in Seq(Turns) /\ done' \subseteq stored
    BY <1>1, <1>2, <1>3, <1>8, TurnMade DEF Gate
  <2> QED BY <1>8, <2>1 DEF Gate
<1>9. CASE Answer(i)
  <2>1. flushes' \in Seq(Turns) /\ done' \subseteq stored BY <1>3, <1>9 DEF Answer
  <2>2. conv' \in Conversation BY <1>9 DEF Answer, Conversation
  <2>3. answered' \in [Msgs -> Nat]
    <3>1. \A m \in Msgs : answered[m] + (IF m \in x.msgs THEN 1 ELSE 0) \in Nat OBVIOUS
    <3> QED BY <1>9, <3>1 DEF Answer
  <2>4. verdicts' \subseteq Verdicts BY <1>1, <1>9 DEF Answer, Turns
  <2> QED BY <1>9, <2>1, <2>2, <2>3, <2>4 DEF Answer
<1>10. CASE FlushFails(i)
  <2>1. faults' \in 0 .. MaxFaults BY <1>10, FaultsAssumption DEF FlushFails
  <2> QED BY <1>3, <1>10, <2>1 DEF FlushFails
<1> QED BY <1>4, <1>5, <1>6, <1>7, <1>8, <1>9, <1>10 DEF FlushStep

LEMMA TypeRest ==
    ASSUME TypeOK, (\E enabled \in BOOLEAN : SetAutomation(enabled)) \/ OwnerInstructs \/ Restart
    PROVE  TypeOK'
<1>1. CASE \E enabled \in BOOLEAN : SetAutomation(enabled)
  <2>1. PICK enabled \in BOOLEAN : SetAutomation(enabled) BY <1>1
  <2>2. (conv.rejected /\ ~enabled) \in BOOLEAN OBVIOUS
  <2>3. conv' \in Conversation
    BY <2>1, <2>2 DEF SetAutomation, Becomes, TypeOK, Conversation
  <2> QED BY <2>1, <2>3 DEF SetAutomation, Becomes, TypeOK, history
<1>2. CASE OwnerInstructs
  <2>1. conv' \in Conversation BY <1>2 DEF OwnerInstructs, Becomes, TypeOK, Conversation
  <2> QED BY <1>2, <2>1 DEF OwnerInstructs, Becomes, TypeOK, history
<1>3. CASE Restart
  <2>1. flushes' \in Seq(Turns) BY <1>3 DEF Restart
  <2> QED BY <1>3, <2>1, ClosedIsABurst DEF Restart, TypeOK
<1> QED BY <1>1, <1>2, <1>3

-----------------------------------------------------------------------------
(* One place for every message.                                              *)

LEMMA PlaceInit == Init => OnePlace
BY DEF Init, OnePlace, Carries, Idle, Closed

\* An ingestion that carries what it carried, or nothing more, changes nothing.
LEMMA PlaceCarried ==
    ASSUME TypeOK, OnePlace, NEW e \in Deliveries,
           \A d \in Deliveries, m \in Msgs : Carries(d, m)' => Carries(d, m),
           UNCHANGED <<stored, window, flushes, answered>>
    PROVE  OnePlace'
<1>1. /\ \A d \in Deliveries, m \in Msgs :
           Carries(d, m)' => m \in stored /\ m \notin window.msgs /\ answered[m] = 0
      /\ \A c, d \in Deliveries, m \in Msgs : Carries(c, m)' /\ Carries(d, m)' => c = d
  BY DEF OnePlace
<1>2. \A i \in DOMAIN flushes : \A m \in flushes[i].msgs :
        m \in Msgs /\ \A d \in Deliveries : ~Carries(d, m)'
  <2>1. \A i \in DOMAIN flushes : flushes[i].msgs \subseteq Msgs BY TurnsHold
  <2>2. \A i \in DOMAIN flushes : \A m \in flushes[i].msgs :
          \A d \in Deliveries : ~Carries(d, m)
    BY DEF OnePlace
  <2> QED BY <2>1, <2>2
<1> QED BY <1>1, <1>2 DEF OnePlace

LEMMA PlaceIngest ==
    ASSUME TypeOK, OnePlace, NEW e \in Deliveries,
           (\E m \in Msgs : Load(e, m)) \/ IngestStep(e) \/ IngestFails(e)
    PROVE  OnePlace'
<1> DEFINE x == ingests[e]
<1>1. ASSUME NEW v, SetIngest(e, v)
      PROVE  /\ ingests'[e] = v
             /\ \A d \in Deliveries : d # e => ingests'[d] = ingests[d]
  BY <1>1 DEF SetIngest, TypeOK
<1>2. ASSUME SetIngest(e, Idle), UNCHANGED <<stored, window, flushes, answered>>
      PROVE  OnePlace'
  <2>1. \A d \in Deliveries, m \in Msgs : Carries(d, m)' => Carries(d, m)
    BY <1>1, <1>2 DEF Carries, Idle
  <2> QED BY <1>2, <2>1, PlaceCarried
<1>3. ASSUME NEW m \in Msgs, Load(e, m) PROVE OnePlace'
  <2>1. \A d \in Deliveries, n \in Msgs : Carries(d, n)' => Carries(d, n)
    BY <1>1, <1>3 DEF Load, Carries
  <2> QED BY <1>3, <2>1, PlaceCarried DEF Load, history
<1>4. CASE Store(e)
  <2>1. CASE x.msg \in stored
    BY <1>2, <1>4, <2>1 DEF Store
  <2>2. CASE x.msg \notin stored
    <3>1. /\ x \in Underway /\ x.msg \in Msgs
          /\ SetIngest(e, [x EXCEPT !.stage = "stored"])
          /\ stored' = stored \cup {x.msg}
          /\ UNCHANGED <<window, flushes, answered>>
      BY <1>4, <2>2, IngestHolds DEF Store, TypeOK, Underway
    <3>2. /\ ingests'[e].stage = "stored" /\ ingests'[e].msg = x.msg
          /\ \A d \in Deliveries : d # e => ingests'[d] = ingests[d]
      BY <1>1, <3>1 DEF Underway
    <3>3. \A m \in Msgs : /\ Carries(e, m)' <=> m = x.msg
                          /\ \A d \in Deliveries : d # e => (Carries(d, m)' <=> Carries(d, m))
      BY <3>2 DEF Carries
    <3>4. /\ x.msg \notin window.msgs /\ answered[x.msg] = 0
          /\ \A d \in Deliveries : ~Carries(d, x.msg)
          /\ \A i \in DOMAIN flushes : x.msg \notin flushes[i].msgs
      BY <2>2, <3>1 DEF OnePlace
    <3>5. \A d \in Deliveries, m \in Msgs :
            Carries(d, m)' => m \in stored' /\ m \notin window.msgs /\ answered[m] = 0
      BY <3>1, <3>3, <3>4 DEF OnePlace
    <3>6. \A c, d \in Deliveries, m \in Msgs : Carries(c, m)' /\ Carries(d, m)' => c = d
      BY <3>3, <3>4 DEF OnePlace
    <3>7. \A i \in DOMAIN flushes : \A m \in flushes[i].msgs :
            m \in stored' /\ m \notin window.msgs /\ answered[m] = 0
      BY <3>1 DEF OnePlace
    <3>8. \A i \in DOMAIN flushes : \A m \in flushes[i].msgs :
            \A d \in Deliveries : ~Carries(d, m)'
      <4>1. \A i \in DOMAIN flushes : flushes[i].msgs \subseteq Msgs BY TurnsHold
      <4>2. \A i \in DOMAIN flushes : \A m \in flushes[i].msgs :
              \A d \in Deliveries : ~Carries(d, m)
        BY DEF OnePlace
      <4> QED BY <3>3, <3>4, <4>1, <4>2
    <3>9. /\ \A m \in window.msgs : m \in stored' /\ answered[m] = 0
          /\ \A i, j \in DOMAIN flushes : \A m \in flushes[i].msgs :
               m \in flushes[j].msgs => i = j
          /\ \A m \in Msgs : answered[m] <= 1 /\ (answered[m] # 0 => m \in stored')
      BY <3>1 DEF OnePlace
    <3> QED BY <3>1, <3>5, <3>6, <3>7, <3>8, <3>9 DEF OnePlace
  <2> QED BY <2>1, <2>2
<1>5. CASE Preview(e)
  <2>1. x \in Underway BY <1>5, IngestHolds DEF Preview, TypeOK
  <2>2. \A d \in Deliveries, m \in Msgs : Carries(d, m)' => Carries(d, m)
    BY <1>1, <1>5, <2>1 DEF Preview, Carries, Underway
  <2> QED BY <1>5, <2>2, PlaceCarried DEF Preview, history
<1>6. CASE ReadForm(e)
  <2>1. x \in Underway BY <1>6, IngestHolds DEF ReadForm, TypeOK
  <2> DEFINE v == [x EXCEPT !.snap.automation = conv.automation, !.first = FALSE]
  <2>2. v.stage = x.stage /\ v.msg = x.msg BY <2>1 DEF Underway
  <2>3. SetIngest(e, v) BY <1>6 DEF ReadForm
  <2> HIDE DEF v
  <2>4. \A d \in Deliveries, m \in Msgs : Carries(d, m)' => Carries(d, m)
    BY <1>1, <2>2, <2>3 DEF Carries
  <2> QED BY <1>6, <2>4, PlaceCarried DEF ReadForm, history
<1>7. CASE Silence(e)
  BY <1>2, <1>7 DEF Silence
<1>8. CASE Collect(e)
  <2>1. /\ x \in Underway /\ x.msg \in Msgs /\ Carries(e, x.msg)
        /\ SetIngest(e, Idle)
        /\ window'.msgs = window.msgs \cup {x.msg}
        /\ UNCHANGED <<stored, flushes, answered>>
    BY <1>8, IngestHolds DEF Collect, Collected, Carries, TypeOK, Underway, history
  <2>2. \A m \in Msgs : /\ ~Carries(e, m)'
                        /\ \A d \in Deliveries : d # e => (Carries(d, m)' <=> Carries(d, m))
    BY <1>1, <2>1 DEF Carries, Idle
  <2>3. /\ x.msg \in stored /\ answered[x.msg] = 0
        /\ \A d \in Deliveries : d # e => ~Carries(d, x.msg)
        /\ \A i \in DOMAIN flushes : x.msg \notin flushes[i].msgs
    BY <2>1 DEF OnePlace
  <2>4. \A d \in Deliveries, m \in Msgs :
          Carries(d, m)' => m \in stored /\ m \notin window'.msgs /\ answered[m] = 0
    BY <2>1, <2>2, <2>3 DEF OnePlace
  <2>5. \A c, d \in Deliveries, m \in Msgs : Carries(c, m)' /\ Carries(d, m)' => c = d
    BY <2>2 DEF OnePlace
  <2>6. \A i \in DOMAIN flushes : \A m \in flushes[i].msgs :
          m \in stored /\ m \notin window'.msgs /\ answered[m] = 0
    BY <2>1, <2>3 DEF OnePlace
  <2>7. \A i \in DOMAIN flushes : \A m \in flushes[i].msgs :
          \A d \in Deliveries : ~Carries(d, m)'
    <3>1. \A i \in DOMAIN flushes : flushes[i].msgs \subseteq Msgs BY TurnsHold
    <3>2. \A i \in DOMAIN flushes : \A m \in flushes[i].msgs :
            \A d \in Deliveries : ~Carries(d, m)
      BY DEF OnePlace
    <3> QED BY <2>2, <3>1, <3>2
  <2>8. /\ \A m \in window'.msgs : m \in stored /\ answered[m] = 0
        /\ \A i, j \in DOMAIN flushes : \A m \in flushes[i].msgs :
             m \in flushes[j].msgs => i = j
        /\ \A m \in Msgs : answered[m] <= 1 /\ (answered[m] # 0 => m \in stored)
    BY <2>1, <2>3 DEF OnePlace
  <2> QED BY <2>1, <2>4, <2>5, <2>6, <2>7, <2>8 DEF OnePlace
<1>9. CASE IngestFails(e)
  BY <1>2, <1>9 DEF IngestFails
<1> QED BY <1>3, <1>4, <1>5, <1>6, <1>7, <1>8, <1>9 DEF IngestStep

LEMMA PlaceFire ==
    ASSUME TypeOK, OnePlace, Fire
    PROVE  OnePlace'
<1> DEFINE n == Len(flushes) + 1
<1>1. /\ Turn(window) \in Turns /\ Turn(window).msgs = window.msgs
      /\ flushes \in Seq(Turns) /\ window.msgs \subseteq Msgs
  BY DEF Fire, Turn, Turns, TypeOK, Bursts, Verdicts
<1>2. /\ DOMAIN flushes' = DOMAIN flushes \cup {n} /\ n \notin DOMAIN flushes
      /\ flushes'[n].msgs = window.msgs
      /\ \A i \in DOMAIN flushes : flushes'[i] = flushes[i]
  <2>1. /\ flushes' \in Seq(Turns) /\ Len(flushes') = n
        /\ \A i \in 1 .. Len(flushes) : flushes'[i] = flushes[i]
        /\ flushes'[n] = Turn(window)
    BY <1>1, AppendProperties DEF Fire
  <2> QED BY <1>1, <2>1
<1>3. window'.msgs = {} /\ UNCHANGED <<stored, ingests, answered>>
  BY DEF Fire, Closed, history
<1>4. \A d \in Deliveries, m \in Msgs : Carries(d, m)' <=> Carries(d, m)
  BY <1>3 DEF Carries
<1>5. \A i \in DOMAIN flushes' : \A m \in flushes'[i].msgs :
        /\ m \in stored' /\ m \notin window'.msgs /\ answered'[m] = 0
        /\ \A e \in Deliveries : ~Carries(e, m)'
  <2> SUFFICES ASSUME NEW i \in DOMAIN flushes', NEW m \in flushes'[i].msgs
               PROVE  /\ m \in stored /\ answered[m] = 0
                      /\ \A e \in Deliveries : ~Carries(e, m)'
    BY <1>3
  <2>1. CASE i = n
    BY <1>1, <1>2, <1>4, <2>1 DEF OnePlace
  <2>2. CASE i # n
    <3>1. i \in DOMAIN flushes /\ m \in flushes[i].msgs BY <1>2, <2>2
    <3>2. m \in Msgs BY <3>1, TurnsHold
    <3> QED BY <1>4, <3>1, <3>2 DEF OnePlace
  <2> QED BY <2>1, <2>2
<1>6. \A i, j \in DOMAIN flushes' : \A m \in flushes'[i].msgs : m \in flushes'[j].msgs => i = j
  <2> SUFFICES ASSUME NEW i \in DOMAIN flushes', NEW j \in DOMAIN flushes',
                      NEW m \in flushes'[i].msgs, m \in flushes'[j].msgs
               PROVE  i = j
    OBVIOUS
  <2>1. \A k \in DOMAIN flushes : m \in flushes[k].msgs => m \notin window.msgs
    BY DEF OnePlace
  <2>2. CASE i \in DOMAIN flushes /\ j \in DOMAIN flushes
    BY <1>2, <2>2 DEF OnePlace
  <2> QED BY <1>2, <2>1, <2>2
<1> QED BY <1>3, <1>4, <1>5, <1>6 DEF OnePlace

\* Turns that keep their places and messages change nothing.
LEMMA PlaceKept ==
    ASSUME TypeOK, OnePlace, NEW i \in DOMAIN flushes, NEW v \in Turns,
           SetTurn(i, v), v.msgs = flushes[i].msgs,
           UNCHANGED <<stored, ingests, window, answered>>
    PROVE  OnePlace'
<1>1. DOMAIN flushes' = DOMAIN flushes /\ \A j \in DOMAIN flushes : flushes'[j].msgs = flushes[j].msgs
  BY SetTurnKeeps DEF TypeOK
<1>2. \A d \in Deliveries, m \in Msgs : Carries(d, m)' <=> Carries(d, m)
  BY DEF Carries
<1>3. \A j \in DOMAIN flushes' : \A m \in flushes'[j].msgs :
        /\ m \in stored /\ m \notin window.msgs /\ answered[m] = 0
        /\ \A d \in Deliveries : ~Carries(d, m)'
  <2>1. \A j \in DOMAIN flushes : flushes[j].msgs \subseteq Msgs BY TurnsHold
  <2> QED BY <1>1, <1>2, <2>1 DEF OnePlace
<1>4. \A j, k \in DOMAIN flushes' : \A m \in flushes'[j].msgs : m \in flushes'[k].msgs => j = k
  BY <1>1 DEF OnePlace
<1> QED BY <1>2, <1>3, <1>4 DEF OnePlace

\* A turn ends, having answered its messages or not.
LEMMA PlaceRemoved ==
    ASSUME TypeOK, OnePlace, NEW i \in DOMAIN flushes, TurnEnds(i),
           UNCHANGED <<stored, ingests, window>>,
           \A m \in Msgs : \/ answered'[m] = answered[m]
                           \/ m \in flushes[i].msgs /\ answered'[m] = answered[m] + 1
    PROVE  OnePlace'
<1>1. \A j \in DOMAIN flushes' :
        /\ j \in Nat /\ j >= 1
        /\ Before(i, j) \in DOMAIN flushes \ {i}
        /\ flushes'[j] = flushes[Before(i, j)]
  BY TurnEndsRemoves DEF TypeOK
<1>2. i \in Nat BY DEF TypeOK
<1>3. \A d \in Deliveries, m \in Msgs : Carries(d, m)' <=> Carries(d, m)
  BY DEF Carries
<1>4. \A m \in Msgs : m \notin flushes[i].msgs => answered'[m] = answered[m]
  OBVIOUS
<1>5. \A m \in flushes[i].msgs : /\ m \in stored /\ m \notin window.msgs /\ answered[m] = 0
                                 /\ \A d \in Deliveries : ~Carries(d, m)
  BY DEF OnePlace
<1>6. \A d \in Deliveries, m \in Msgs :
        Carries(d, m)' => m \in stored /\ m \notin window.msgs /\ answered'[m] = 0
  BY <1>3, <1>4, <1>5 DEF OnePlace
<1>7. \A m \in window.msgs : m \in stored /\ answered'[m] = 0
  <2>1. window.msgs \subseteq Msgs BY DEF TypeOK, Bursts
  <2> QED BY <1>4, <1>5, <2>1 DEF OnePlace
<1>8. ASSUME NEW j \in DOMAIN flushes', NEW m \in flushes'[j].msgs
      PROVE  /\ m \in stored /\ m \notin window.msgs /\ answered'[m] = 0
             /\ \A d \in Deliveries : ~Carries(d, m)'
  <2> DEFINE k == Before(i, j)
  <2>1. k \in DOMAIN flushes /\ k # i /\ m \in flushes[k].msgs BY <1>1, <1>8
  <2> HIDE DEF k
  <2>2. m \in Msgs BY <2>1, TurnsHold
  <2>3. m \notin flushes[i].msgs BY <2>1 DEF OnePlace
  <2> QED BY <1>3, <1>4, <2>1, <2>2, <2>3 DEF OnePlace
<1>9. ASSUME NEW j \in DOMAIN flushes', NEW k \in DOMAIN flushes',
             NEW m \in flushes'[j].msgs, m \in flushes'[k].msgs
      PROVE  j = k
  <2>1. Before(i, j) = Before(i, k) BY <1>1, <1>9 DEF OnePlace
  <2> QED BY <1>1, <1>2, <2>1, BeforeIsInjective
<1>10. \A m \in Msgs : answered'[m] <= 1 /\ (answered'[m] # 0 => m \in stored)
  BY <1>5 DEF OnePlace, TypeOK
<1> QED BY <1>3, <1>6, <1>7, <1>8, <1>9, <1>10 DEF OnePlace

LEMMA PlaceFlush ==
    ASSUME TypeOK, OnePlace, NEW i \in DOMAIN flushes,
           FlushStep(i) \/ RejectFails(i) \/ FlushFails(i)
    PROVE  OnePlace'
<1> DEFINE x == flushes[i]
<1>1. x \in Turns BY TurnsHold
<1>2. /\ [x EXCEPT !.stage = "judging"] \in Turns
      /\ [x EXCEPT !.stage = "gating"] \in Turns
      /\ [x EXCEPT !.stage = "drafting"] \in Turns
      /\ [x EXCEPT !.stage = "rejecting", !.verdict = "firm"] \in Turns
      /\ Silenced(x) \in Turns
  BY <1>1, TurnMade
<1>3. /\ [x EXCEPT !.stage = "judging"].msgs = x.msgs
      /\ [x EXCEPT !.stage = "gating"].msgs = x.msgs
      /\ [x EXCEPT !.stage = "drafting"].msgs = x.msgs
      /\ [x EXCEPT !.stage = "rejecting", !.verdict = "firm"].msgs = x.msgs
      /\ Silenced(x).msgs = x.msgs
  BY <1>1 DEF Turns, Silenced
<1>4. CASE Begin(i)
  BY <1>2, <1>3, <1>4, PlaceKept DEF Begin, history
<1>5. CASE Judge(i)
  BY <1>2, <1>3, <1>5, PlaceKept DEF Judge, history
<1>6. CASE Reject(i)
  BY <1>2, <1>3, <1>6, PlaceKept DEF Reject, history
<1>7. CASE RejectFails(i)
  BY <1>2, <1>3, <1>7, PlaceKept DEF RejectFails, history
<1>8. CASE Gate(i)
  BY <1>2, <1>3, <1>8, PlaceKept, PlaceRemoved DEF Gate
<1>9. CASE Answer(i)
  <2>1. \A m \in Msgs : \/ answered'[m] = answered[m]
                        \/ m \in x.msgs /\ answered'[m] = answered[m] + 1
    BY <1>9 DEF Answer, TypeOK
  <2> QED BY <1>9, <2>1, PlaceRemoved DEF Answer
<1>10. CASE FlushFails(i)
  BY <1>10, PlaceRemoved DEF FlushFails
<1> QED BY <1>4, <1>5, <1>6, <1>7, <1>8, <1>9, <1>10 DEF FlushStep

LEMMA PlaceRest ==
    ASSUME TypeOK, OnePlace,
           (\E enabled \in BOOLEAN : SetAutomation(enabled)) \/ OwnerInstructs \/ Restart
    PROVE  OnePlace'
<1>1. CASE (\E enabled \in BOOLEAN : SetAutomation(enabled)) \/ OwnerInstructs
  BY <1>1 DEF SetAutomation, OwnerInstructs, Becomes, OnePlace, Carries, history
<1>2. CASE Restart
  BY <1>2 DEF Restart, OnePlace, Carries, Idle, Closed
<1> QED BY <1>1, <1>2

-----------------------------------------------------------------------------
(* The theorems on types and places.                                         *)

LEMMA TypeAndPlaceStep ==
    ASSUME TypeOK, OnePlace, [Next]_vars
    PROVE  TypeOK' /\ OnePlace'
<1>1. CASE UNCHANGED vars
  BY <1>1 DEF vars, history, TypeOK, OnePlace, Carries
<1>2. ASSUME NEW e \in Deliveries,
             (\E m \in Msgs : Load(e, m)) \/ IngestStep(e) \/ IngestFails(e)
      PROVE  TypeOK' /\ OnePlace'
  BY <1>2, TypeIngest, PlaceIngest
<1>3. CASE Fire
  BY <1>3, TypeFire, PlaceFire
<1>4. ASSUME NEW i \in DOMAIN flushes, FlushStep(i) \/ RejectFails(i) \/ FlushFails(i)
      PROVE  TypeOK' /\ OnePlace'
  BY <1>4, TypeFlush, PlaceFlush
<1>5. CASE (\E enabled \in BOOLEAN : SetAutomation(enabled)) \/ OwnerInstructs \/ Restart
  BY <1>5, TypeRest, PlaceRest
<1> QED BY <1>1, <1>2, <1>3, <1>4, <1>5 DEF Next

LEMMA TypeAndPlace == Spec => [](TypeOK /\ OnePlace)
<1>1. Init => TypeOK /\ OnePlace BY TypeInit, PlaceInit
<1>2. TypeOK /\ OnePlace /\ [Next]_vars => (TypeOK /\ OnePlace)' BY TypeAndPlaceStep
<1> QED BY <1>1, <1>2, PTL DEF Spec

\* Every variable keeps its type: what is done or lost was stored, and a turn
\* of the chain holds at least one message.
THEOREM TypeCorrect == Spec => []TypeOK
BY TypeAndPlace, PTL

\* A lead's message is answered by one turn at most, whatever is delivered
\* again, whenever the timer fires, and through any restart.
THEOREM OneAnswer == Spec => []OneAnswerPerMessage
<1>1. TypeOK /\ OnePlace => OneAnswerPerMessage BY DEF OnePlace, OneAnswerPerMessage
<1> QED BY <1>1, TypeAndPlace, PTL

-----------------------------------------------------------------------------
(* One turn at a time.                                                       *)

LEMMA HeadStep ==
    ASSUME TypeOK, HeadOnly, [Next]_vars
    PROVE  HeadOnly'
<1>1. ASSUME UNCHANGED flushes PROVE HeadOnly'
  BY <1>1 DEF HeadOnly
<1>2. ASSUME NEW i \in DOMAIN flushes, NEW v, SetTurn(i, v), i = 1
      PROVE  HeadOnly'
  BY <1>2 DEF SetTurn, TypeOK, HeadOnly
<1>3. ASSUME NEW i \in DOMAIN flushes, TurnEnds(i), i = 1
      PROVE  HeadOnly'
  <2> SUFFICES ASSUME NEW j \in DOMAIN flushes' PROVE flushes'[j].stage = "waiting"
    BY DEF HeadOnly
  <2>1. j \in Nat /\ j >= 1 /\ Before(1, j) \in DOMAIN flushes /\ flushes'[j] = flushes[Before(1, j)]
    BY <1>3, TurnEndsRemoves DEF TypeOK
  <2>2. Before(1, j) # 1 BY <2>1 DEF Before
  <2> QED BY <2>1, <2>2 DEF HeadOnly
<1>4. ASSUME NEW i \in DOMAIN flushes, FlushStep(i) \/ RejectFails(i) \/ FlushFails(i)
      PROVE  HeadOnly'
  <2>1. CASE Begin(i)
    BY <1>2, <2>1 DEF Begin, MayBegin
  <2>2. CASE ~Begin(i)
    <3>1. flushes[i].stage # "waiting"
      BY <1>4, <2>2 DEF FlushStep, Judge, Reject, RejectFails, Gate, Answer, FlushFails
    <3>2. i = 1 BY <3>1 DEF HeadOnly
    <3>3. (\E v : SetTurn(i, v)) \/ TurnEnds(i)
      BY <1>4, <2>2 DEF FlushStep, Judge, Reject, RejectFails, Gate, Answer, FlushFails
    <3> QED BY <1>2, <1>3, <3>2, <3>3
  <2> QED BY <2>1, <2>2
<1>5. CASE Fire
  <2>1. Turn(window) \in Turns BY <1>5 DEF Fire, Turn, Turns, TypeOK, Bursts, Verdicts
  <2>2. flushes \in Seq(Turns) BY DEF TypeOK
  <2>3. /\ flushes' \in Seq(Turns) /\ Len(flushes') = Len(flushes) + 1
        /\ \A i \in 1 .. Len(flushes) : flushes'[i] = flushes[i]
        /\ flushes'[Len(flushes) + 1] = Turn(window)
    BY <1>5, <2>1, <2>2, AppendProperties DEF Fire
  <2>4. \A i \in DOMAIN flushes' : i \in DOMAIN flushes \/ i = Len(flushes) + 1
    BY <2>2, <2>3
  <2> QED BY <2>2, <2>3, <2>4 DEF HeadOnly, Turn
<1>6. CASE Restart
  BY <1>6 DEF Restart, HeadOnly
<1>7. ASSUME NEW e \in Deliveries,
             (\E m \in Msgs : Load(e, m)) \/ IngestStep(e) \/ IngestFails(e)
      PROVE  UNCHANGED flushes
  BY <1>7 DEF Load, IngestStep, Store, Preview, ReadForm, Silence, Collect, IngestFails
<1>8. CASE (\E enabled \in BOOLEAN : SetAutomation(enabled)) \/ OwnerInstructs
  BY <1>1, <1>8 DEF SetAutomation, OwnerInstructs, Becomes
<1> QED BY <1>1, <1>4, <1>5, <1>6, <1>7, <1>8 DEF Next, vars

\* Two turns of one conversation never run at once: the chain of flushes is the
\* only thing that orders them.
THEOREM OneTurn == Spec => []OneTurnAtATime
<1>1. Init => HeadOnly BY DEF Init, HeadOnly
<1>2. TypeOK /\ HeadOnly /\ [Next]_vars => HeadOnly' BY HeadStep
<1>3. HeadOnly => OneTurnAtATime BY DEF HeadOnly, OneTurnAtATime
<1> QED BY <1>1, <1>2, <1>3, TypeCorrect, PTL DEF Spec

-----------------------------------------------------------------------------
(* The lead's request to stop.                                               *)

\* Steps of the chain keep what they do not add to.
LEMMA LateKept ==
    ASSUME TypeOK, LateInv, UNCHANGED <<late, window>>,
           \A e \in Deliveries, m \in late :
              Carries(e, m)' => Carries(e, m) /\ ingests'[e].snap.optedOut = ingests[e].snap.optedOut,
           \A m \in late : answered'[m] = answered[m],
           \A i \in DOMAIN flushes' : late \cap flushes'[i].msgs = {}
    PROVE  LateInv'
BY DEF LateInv, StopIsRespected

LEMMA LateIngest ==
    ASSUME TypeOK, OnePlace, LateInv, NEW e \in Deliveries,
           (\E m \in Msgs : Load(e, m)) \/ IngestStep(e) \/ IngestFails(e)
    PROVE  LateInv'
<1> DEFINE x == ingests[e]
<1>1. ASSUME NEW v, SetIngest(e, v)
      PROVE  /\ ingests'[e] = v
             /\ \A d \in Deliveries : d # e => ingests'[d] = ingests[d]
  BY <1>1 DEF SetIngest, TypeOK
<1>2. \A i \in DOMAIN flushes : late \cap flushes[i].msgs = {} BY DEF LateInv
<1>3. ASSUME NEW v, SetIngest(e, v), UNCHANGED <<late, window, flushes, answered>>,
             v.stage \in {"stored", "shown"} =>
                /\ x.stage \in {"stored", "shown"} /\ v.msg = x.msg
                /\ v.snap.optedOut = x.snap.optedOut
      PROVE  LateInv'
  <2>1. \A d \in Deliveries, m \in late :
          Carries(d, m)' => Carries(d, m) /\ ingests'[d].snap.optedOut = ingests[d].snap.optedOut
    BY <1>1, <1>3 DEF Carries
  <2> QED BY <1>2, <1>3, <2>1, LateKept
<1>4. ASSUME NEW m \in Msgs, Load(e, m) PROVE LateInv'
  BY <1>3, <1>4 DEF Load, history
<1>5. CASE Store(e)
  <2>1. CASE x.msg \in stored
    BY <1>3, <1>5, <2>1 DEF Store, Idle
  <2>2. CASE x.msg \notin stored
    <3>1. /\ x \in Underway /\ x.msg \in Msgs
          /\ SetIngest(e, [x EXCEPT !.stage = "stored"])
          /\ late' = IF x.snap.optedOut THEN late \cup {x.msg} ELSE late
          /\ UNCHANGED <<window, flushes, answered>>
      BY <1>5, <2>2, IngestHolds DEF Store, TypeOK, Underway
    <3>2. /\ ingests'[e].stage = "stored" /\ ingests'[e].msg = x.msg
          /\ ingests'[e].snap = x.snap
          /\ \A d \in Deliveries : d # e => ingests'[d] = ingests[d]
      BY <1>1, <3>1 DEF Underway
    <3>3. /\ x.msg \notin window.msgs /\ answered[x.msg] = 0 /\ x.msg \notin late
          /\ \A d \in Deliveries : ~Carries(d, x.msg)
          /\ \A i \in DOMAIN flushes : x.msg \notin flushes[i].msgs
      BY <2>2, <3>1 DEF OnePlace, TypeOK
    <3>4. \A d \in Deliveries, m \in late' : Carries(d, m)' => ingests'[d].snap.optedOut
      <4> SUFFICES ASSUME NEW d \in Deliveries, NEW m \in late', Carries(d, m)'
                   PROVE  ingests'[d].snap.optedOut
        OBVIOUS
      <4>1. CASE d = e
        <5>1. m = x.msg BY <3>2, <4>1 DEF Carries
        <5> QED BY <3>1, <3>2, <3>3, <4>1, <5>1
      <4>2. CASE d # e
        <5>1. Carries(d, m) /\ ingests'[d] = ingests[d] BY <3>2, <4>2 DEF Carries
        <5>2. m \in late BY <3>1, <3>3, <5>1
        <5> QED BY <5>1, <5>2 DEF LateInv
      <4> QED BY <4>1, <4>2
    <3>5. /\ late' \cap window.msgs = {}
          /\ \A i \in DOMAIN flushes : late' \cap flushes[i].msgs = {}
          /\ \A m \in late' : answered[m] = 0
      BY <3>1, <3>3 DEF LateInv, StopIsRespected
    <3> QED BY <3>1, <3>4, <3>5 DEF LateInv, StopIsRespected
  <2> QED BY <2>1, <2>2
<1>6. CASE Preview(e)
  <2>1. x \in Underway BY <1>6, IngestHolds DEF Preview, TypeOK
  <2> DEFINE v == [x EXCEPT !.stage = "shown"]
  <2>2. v.msg = x.msg /\ v.snap = x.snap BY <2>1 DEF Underway
  <2>3. SetIngest(e, v) /\ x.stage = "stored" /\ UNCHANGED <<late, window, flushes, answered>>
    BY <1>6 DEF Preview, history
  <2> HIDE DEF v
  <2> QED BY <1>3, <2>2, <2>3
<1>7. CASE ReadForm(e)
  <2>1. x \in Underway BY <1>7, IngestHolds DEF ReadForm, TypeOK
  <2> DEFINE v == [x EXCEPT !.snap.automation = conv.automation, !.first = FALSE]
  <2>2. v.msg = x.msg /\ v.snap.optedOut = x.snap.optedOut BY <2>1 DEF Underway, Snapshot
  <2>3. SetIngest(e, v) /\ x.stage = "shown" /\ UNCHANGED <<late, window, flushes, answered>>
    BY <1>7 DEF ReadForm, history
  <2> HIDE DEF v
  <2> QED BY <1>3, <2>2, <2>3
<1>8. CASE Silence(e)
  BY <1>3, <1>8 DEF Silence, Idle
<1>9. CASE Collect(e)
  <2>1. /\ x.msg \notin late
        /\ SetIngest(e, Idle)
        /\ window'.msgs = window.msgs \cup {x.msg}
        /\ UNCHANGED <<late, flushes, answered>>
    BY <1>9 DEF Collect, Collected, Carries, OptedOut, LateInv, history
  <2>2. \A d \in Deliveries, m \in late : Carries(d, m)' => Carries(d, m) /\ ingests'[d] = ingests[d]
    BY <1>1, <2>1 DEF Carries, Idle
  <2> QED BY <2>1, <2>2 DEF LateInv, StopIsRespected
<1>10. CASE IngestFails(e)
  BY <1>3, <1>10 DEF IngestFails, Idle
<1> QED BY <1>4, <1>5, <1>6, <1>7, <1>8, <1>9, <1>10 DEF IngestStep

LEMMA LateFlush ==
    ASSUME TypeOK, LateInv, NEW i \in DOMAIN flushes,
           FlushStep(i) \/ RejectFails(i) \/ FlushFails(i)
    PROVE  LateInv'
<1> DEFINE x == flushes[i]
<1>1. x \in Turns BY TurnsHold
<1>2. /\ UNCHANGED <<ingests, window, late>>
      /\ \A d \in Deliveries, m \in late : Carries(d, m)' => Carries(d, m)
  BY DEF FlushStep, Begin, Judge, Reject, Gate, Answer, RejectFails, FlushFails, Carries, history
<1>3. \A m \in late : answered'[m] = answered[m]
  <2>1. CASE Answer(i)
    <3>1. late \subseteq Msgs /\ \A m \in late : m \notin x.msgs BY DEF TypeOK, LateInv
    <3>2. \A m \in late : answered[m] \in Nat BY <3>1 DEF TypeOK
    <3> QED BY <2>1, <3>1, <3>2 DEF Answer
  <2>2. CASE ~Answer(i)
    BY <2>2 DEF FlushStep, Begin, Judge, Reject, Gate, RejectFails, FlushFails, history
  <2> QED BY <2>1, <2>2
<1>4. \A j \in DOMAIN flushes' : late \cap flushes'[j].msgs = {}
  <2>1. CASE TurnEnds(i)
    BY <2>1, TurnEndsRemoves DEF TypeOK, LateInv
  <2>2. ASSUME NEW v, SetTurn(i, v), v.msgs = x.msgs
        PROVE  \A j \in DOMAIN flushes' : late \cap flushes'[j].msgs = {}
    BY <2>2 DEF SetTurn, TypeOK, LateInv
  <2>3. /\ [x EXCEPT !.stage = "judging"].msgs = x.msgs
        /\ [x EXCEPT !.stage = "gating"].msgs = x.msgs
        /\ [x EXCEPT !.stage = "drafting"].msgs = x.msgs
        /\ [x EXCEPT !.stage = "rejecting", !.verdict = "firm"].msgs = x.msgs
        /\ Silenced(x).msgs = x.msgs
    BY <1>1 DEF Turns, Silenced
  <2>4. CASE ~TurnEnds(i)
    BY <2>2, <2>3, <2>4 DEF FlushStep, Begin, Judge, Reject, Gate, Answer, RejectFails, FlushFails
  <2> QED BY <2>1, <2>4
<1> QED BY <1>2, <1>3, <1>4, LateKept

LEMMA LateStep ==
    ASSUME TypeOK, OnePlace, LateInv, [Next]_vars
    PROVE  LateInv'
<1>1. CASE UNCHANGED vars
  BY <1>1 DEF vars, history, LateInv, StopIsRespected, Carries
<1>2. CASE Fire
  <2>1. Turn(window) \in Turns /\ Turn(window).msgs = window.msgs /\ flushes \in Seq(Turns)
    BY <1>2 DEF Fire, Turn, Turns, TypeOK, Bursts, Verdicts
  <2>2. /\ flushes' \in Seq(Turns) /\ Len(flushes') = Len(flushes) + 1
        /\ \A i \in 1 .. Len(flushes) : flushes'[i] = flushes[i]
        /\ flushes'[Len(flushes) + 1] = Turn(window)
    BY <1>2, <2>1, AppendProperties DEF Fire
  <2>3. \A i \in DOMAIN flushes' : i \in DOMAIN flushes \/ i = Len(flushes) + 1
    BY <2>1, <2>2
  <2>4. \A i \in DOMAIN flushes' : late \cap flushes'[i].msgs = {}
    BY <2>1, <2>2, <2>3 DEF LateInv
  <2>5. window'.msgs = {} /\ UNCHANGED <<ingests, late, answered>> BY <1>2 DEF Fire, Closed, history
  <2> QED BY <2>4, <2>5 DEF LateInv, StopIsRespected, Carries
<1>3. CASE (\E enabled \in BOOLEAN : SetAutomation(enabled)) \/ OwnerInstructs
  BY <1>3 DEF SetAutomation, OwnerInstructs, Becomes, LateInv, StopIsRespected, Carries, history
<1>4. CASE Restart
  BY <1>4 DEF Restart, LateInv, StopIsRespected, Carries, Idle, Closed
<1> QED BY <1>1, <1>2, <1>3, <1>4, LateIngest, LateFlush DEF Next

\* A message that came in after the lead's stop was recorded is never answered.
THEOREM NoAnswerAfterStop == Spec => []StopIsRespected
<1>1. Init => LateInv BY DEF Init, LateInv, StopIsRespected, Closed
<1>2. TypeOK /\ OnePlace /\ LateInv /\ [Next]_vars => LateInv' BY LateStep
<1>3. LateInv => StopIsRespected BY DEF LateInv
<1> QED BY <1>1, <1>2, <1>3, TypeAndPlace, PTL DEF Spec

-----------------------------------------------------------------------------
(* The lead's rejection.                                                     *)

LEMMA RecordedFlush ==
    ASSUME TypeOK, RecordedInv, NEW i \in DOMAIN flushes,
           FlushStep(i) \/ RejectFails(i) \/ FlushFails(i)
    PROVE  RecordedInv'
<1> DEFINE x == flushes[i]
<1>1. x \in Turns BY TurnsHold
<1>2. x.stage # "gating" => x.verdict # "recorded" BY DEF RecordedInv
<1>3. x.snap.automation => x.verdict # "recorded" BY DEF RecordedInv
<1>4. ASSUME NEW v, SetTurn(i, v), UNCHANGED verdicts,
             v.verdict = "recorded" => v.stage = "gating" /\ ~v.snap.automation
      PROVE  RecordedInv'
  BY <1>4 DEF SetTurn, TypeOK, RecordedInv, RejectingTurnIsSilent
<1>5. ASSUME TurnEnds(i), verdicts' \in {verdicts, verdicts \cup {x.verdict}},
             verdicts' # verdicts => x.verdict # "recorded"
      PROVE  RecordedInv'
  <2>1. \A j \in DOMAIN flushes' : \E k \in DOMAIN flushes : flushes'[j] = flushes[k]
    BY <1>5, TurnEndsRemoves DEF TypeOK
  <2>2. "recorded" \notin verdicts' BY <1>5 DEF RecordedInv, RejectingTurnIsSilent
  <2> QED BY <2>1, <2>2 DEF RecordedInv, RejectingTurnIsSilent
<1>6. CASE Begin(i)
  <2>1. [x EXCEPT !.stage = "judging"].verdict = x.verdict BY <1>1 DEF Turns
  <2> QED BY <1>2, <1>4, <1>6, <2>1 DEF Begin, history
<1>7. CASE Judge(i)
  <2>1. /\ [x EXCEPT !.stage = "gating"].verdict = x.verdict
        /\ [x EXCEPT !.stage = "rejecting", !.verdict = "firm"].verdict = "firm"
    BY <1>1 DEF Turns
  <2> QED BY <1>2, <1>4, <1>7, <2>1 DEF Judge, history
<1>8. CASE Reject(i)
  <2>1. /\ [x EXCEPT !.stage = "gating"].verdict = x.verdict
        /\ Silenced(x).stage = "gating" /\ ~Silenced(x).snap.automation
    BY <1>1 DEF Turns, Snapshot, Silenced
  <2> QED BY <1>2, <1>4, <1>8, <2>1 DEF Reject, history
<1>9. CASE RejectFails(i)
  <2>1. [x EXCEPT !.stage = "gating"].verdict = x.verdict BY <1>1 DEF Turns
  <2> QED BY <1>2, <1>4, <1>9, <2>1 DEF RejectFails, history
<1>10. CASE Gate(i)
  <2>1. [x EXCEPT !.stage = "drafting"].verdict = x.verdict BY <1>1 DEF Turns
  <2> QED BY <1>3, <1>4, <1>5, <1>10, <2>1 DEF Gate
<1>11. CASE Answer(i)
  BY <1>2, <1>5, <1>11 DEF Answer
<1>12. CASE FlushFails(i)
  BY <1>5, <1>12 DEF FlushFails
<1> QED BY <1>6, <1>7, <1>8, <1>9, <1>10, <1>11, <1>12 DEF FlushStep

LEMMA RecordedStep ==
    ASSUME TypeOK, RecordedInv, [Next]_vars
    PROVE  RecordedInv'
<1>1. ASSUME UNCHANGED <<flushes, verdicts>> PROVE RecordedInv'
  BY <1>1 DEF RecordedInv, RejectingTurnIsSilent
<1>2. CASE Fire
  <2>1. Turn(window) \in Turns /\ Turn(window).verdict = "none" /\ flushes \in Seq(Turns)
    BY <1>2 DEF Fire, Turn, Turns, TypeOK, Bursts, Verdicts
  <2>2. /\ flushes' \in Seq(Turns) /\ Len(flushes') = Len(flushes) + 1
        /\ \A i \in 1 .. Len(flushes) : flushes'[i] = flushes[i]
        /\ flushes'[Len(flushes) + 1] = Turn(window)
    BY <1>2, <2>1, AppendProperties DEF Fire
  <2>3. \A i \in DOMAIN flushes' : i \in DOMAIN flushes \/ i = Len(flushes) + 1
    BY <2>1, <2>2
  <2>4. UNCHANGED verdicts BY <1>2 DEF Fire, history
  <2> QED BY <2>1, <2>2, <2>3, <2>4 DEF RecordedInv, RejectingTurnIsSilent
<1>3. CASE (\E enabled \in BOOLEAN : SetAutomation(enabled)) \/ OwnerInstructs
  BY <1>1, <1>3 DEF SetAutomation, OwnerInstructs, Becomes, history
<1>4. CASE Restart
  BY <1>4 DEF Restart, RecordedInv, RejectingTurnIsSilent
<1>5. ASSUME NEW e \in Deliveries,
             (\E m \in Msgs : Load(e, m)) \/ IngestStep(e) \/ IngestFails(e)
      PROVE  UNCHANGED <<flushes, verdicts>>
  BY <1>5 DEF Load, IngestStep, Store, Preview, ReadForm, Silence, Collect, IngestFails, history
<1> QED BY <1>1, <1>2, <1>3, <1>4, <1>5, RecordedFlush DEF Next, vars, history

\* A turn that has recorded a rejection answers nothing.
THEOREM RejectionIsSilent == Spec => []RejectingTurnIsSilent
<1>1. Init => RecordedInv BY DEF Init, RecordedInv, RejectingTurnIsSilent
<1>2. TypeOK /\ RecordedInv /\ [Next]_vars => RecordedInv' BY RecordedStep
<1>3. RecordedInv => RejectingTurnIsSilent BY DEF RecordedInv
<1> QED BY <1>1, <1>2, <1>3, TypeCorrect, PTL DEF Spec
=============================================================================
