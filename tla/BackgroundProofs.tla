-------------------------- MODULE BackgroundProofs --------------------------
(***************************************************************************)
(* What the background services promise, for every value of the constants: *)
(* the realtime outbox and the refresh sessions, whose proofs are here, and *)
(* the services whose invariants are in LeadServicesProofs and             *)
(* ReminderServicesProofs.                                                 *)
(***************************************************************************)
EXTENDS LeadServicesProofs, ReminderServicesProofs

-----------------------------------------------------------------------------
(* RealtimeOutbox. *)

PublisherStates == {RO!Waiting} \cup [stage : {"publish", "mark", "release"}, row : Reminders]
OutboxRows ==
    [status : {"none", "pending", "publishing", "published", "failed_permanent"},
     ready : BOOLEAN, lease : {"none", "held", "expired"}, attempts : 0 .. MaxTries]

\* The publishers about to send a row's signal.
Sending(e) == {p \in Workers : publisher[p].stage = "publish" /\ publisher[p].row = e}

OutboxTypes ==
    /\ signal \in [Reminders -> OutboxRows]
    /\ publisher \in [Workers -> PublisherStates]
    /\ told \in [Reminders -> Nat] /\ stumbles \in 0 .. MaxStumbles

\* Each time a signal went out, and each publisher about to send it, is a try
\* that was counted; who is about to mark a row has sent its signal.
OutboxInv ==
    /\ OutboxTypes
    /\ \A e \in Reminders :
           /\ IsFiniteSet(Sending(e))
           /\ told[e] + Cardinality(Sending(e)) <= signal[e].attempts
           /\ signal[e].status = "published" => told[e] > 0
    /\ \A p \in Workers : publisher[p].stage = "mark" => told[publisher[p].row] > 0

LEMMA OutboxStarts == RO!Init /\ RO!OutboxAssumption => OutboxInv
<1> SUFFICES ASSUME RO!Init, RO!OutboxAssumption PROVE OutboxInv OBVIOUS
<1>1. OutboxTypes
  BY DEF RO!Init, OutboxTypes, RO!OutboxAssumption, RO!Unwritten, OutboxRows, PublisherStates
<1>2. \A e \in Reminders : Sending(e) = {} BY DEF RO!Init, Sending, RO!Waiting
<1>3. \A p \in Workers : publisher[p].stage # "mark" BY DEF RO!Init, RO!Waiting
<1>4. ASSUME NEW e \in Reminders
      PROVE  /\ IsFiniteSet(Sending(e)) /\ told[e] + Cardinality(Sending(e)) <= signal[e].attempts
             /\ signal[e].status # "published"
  <2>1. IsFiniteSet(Sending(e)) /\ Cardinality(Sending(e)) = 0 BY <1>2, FS_EmptySet
  <2> QED BY <2>1 DEF RO!Init, RO!Unwritten
<1> QED BY <1>1, <1>3, <1>4 DEF OutboxInv

LEMMA OutboxPromises ==
    OutboxInv /\ RO!OutboxAssumption => RO!TypeOK /\ RO!PublishedWasTold
<1> SUFFICES ASSUME OutboxInv, RO!OutboxAssumption
             PROVE  RO!TypeOK /\ RO!PublishedWasTold
  OBVIOUS
<1>1. RO!TypeOK BY DEF OutboxInv, OutboxTypes, RO!TypeOK, OutboxRows, PublisherStates
<1>2. ASSUME NEW e \in Reminders
      PROVE  (signal[e].status = "published" => told[e] > 0) /\ told[e] <= MaxTries
  <2>1. told[e] \in Nat /\ signal[e].attempts \in 0 .. MaxTries /\ MaxTries \in Nat
    BY DEF OutboxInv, OutboxTypes, OutboxRows, RO!OutboxAssumption
  <2>2. Cardinality(Sending(e)) \in Nat BY FS_CardinalityType DEF OutboxInv
  <2> QED BY <2>1, <2>2 DEF OutboxInv
<1> QED BY <1>1, <1>2 DEF RO!PublishedWasTold

LEMMA PublisherBusy ==
    ASSUME OutboxTypes, NEW p \in Workers, publisher[p] # RO!Waiting
    PROVE  /\ publisher[p] \in [stage : {"publish", "mark", "release"}, row : Reminders]
           /\ publisher[p].row \in Reminders
  BY DEF OutboxTypes, PublisherStates

\* A publisher that goes on is no longer about to send.
LEMMA SendingLess ==
    ASSUME OutboxTypes, NEW p \in Workers, NEW s, s.stage # "publish",
           publisher' = [publisher EXCEPT ![p] = s], NEW e \in Reminders,
           IsFiniteSet(Sending(e))
    PROVE  /\ IsFiniteSet(Sending(e)')
           /\ Cardinality(Sending(e)') =
                  IF p \in Sending(e) THEN Cardinality(Sending(e)) - 1
                                      ELSE Cardinality(Sending(e))
           /\ Cardinality(Sending(e)) \in Nat
<1>1. \A q \in Workers : publisher'[q] = IF q = p THEN s ELSE publisher[q]
  BY DEF OutboxTypes
<1>2. Sending(e)' = Sending(e) \ {p} BY <1>1 DEF Sending
<1> QED BY <1>2, FS_RemoveElement, FS_CardinalityType

\* A publisher leaves its row to be marked or handed back, or lets go of it.
LEMMA PublisherLeaves ==
    ASSUME OutboxInv, NEW p \in Workers, NEW s \in PublisherStates, s.stage # "publish",
           s.stage = "mark" => told[s.row] > 0,
           publisher' = [publisher EXCEPT ![p] = s], UNCHANGED <<signal, told>>,
           stumbles' \in 0 .. MaxStumbles
    PROVE  OutboxInv'
<1>1. OutboxTypes' BY DEF OutboxInv, OutboxTypes
<1>2. \A q \in Workers : publisher'[q] = IF q = p THEN s ELSE publisher[q]
  BY DEF OutboxInv, OutboxTypes
<1>3. ASSUME NEW e \in Reminders
      PROVE  /\ IsFiniteSet(Sending(e)')
             /\ told[e] + Cardinality(Sending(e)') <= signal[e].attempts
  <2>1. told[e] \in Nat /\ signal[e].attempts \in Nat
    BY DEF OutboxInv, OutboxTypes, OutboxRows
  <2>2. IsFiniteSet(Sending(e)) /\ told[e] + Cardinality(Sending(e)) <= signal[e].attempts
    BY DEF OutboxInv
  <2>3. /\ IsFiniteSet(Sending(e)') /\ Cardinality(Sending(e)) \in Nat
        /\ Cardinality(Sending(e)') \in {Cardinality(Sending(e)), Cardinality(Sending(e)) - 1}
    BY <2>2, SendingLess DEF OutboxInv
  <2> QED BY <2>1, <2>2, <2>3
<1> QED BY <1>1, <1>2, <1>3 DEF OutboxInv

\* Rows written without their count, published only if told.
LEMMA RowsTouched ==
    ASSUME OutboxInv, signal' \in [Reminders -> OutboxRows], UNCHANGED <<publisher, told>>,
           \A e \in Reminders : /\ signal'[e].attempts = signal[e].attempts
                                /\ signal'[e].status = "published" => told[e] > 0,
           stumbles' \in 0 .. MaxStumbles
    PROVE  OutboxInv'
<1>1. \A e : Sending(e)' = Sending(e) BY DEF Sending
<1> QED BY <1>1 DEF OutboxInv, OutboxTypes

LEMMA ClosedRows ==
    ASSUME OutboxTypes
    PROVE  /\ RO!Closed \in [Reminders -> OutboxRows]
           /\ \A e \in Reminders :
                  /\ RO!Closed[e].attempts = signal[e].attempts
                  /\ RO!Closed[e].status = "published" => signal[e].status = "published"
<1>1. ASSUME NEW e \in Reminders
      PROVE  LET r == [signal[e] EXCEPT !.status = "failed_permanent"]
             IN  r \in OutboxRows /\ r.attempts = signal[e].attempts
                 /\ r.status = "failed_permanent"
  BY DEF OutboxTypes, OutboxRows
<1> QED BY <1>1 DEF RO!Closed, OutboxTypes

LEMMA ClaimKeeps ==
    ASSUME OutboxInv, RO!OutboxAssumption, NEW p \in Workers, NEW e \in Reminders, RO!Claim(p, e)
    PROVE  OutboxInv'
<1> DEFINE c == RO!Closed
           r == [c[e] EXCEPT !.status = "publishing", !.lease = "held", !.attempts = @ + 1]
           s == [stage |-> "publish", row |-> e]
<1>1. /\ publisher[p] = RO!Waiting /\ RO!ToBeTold(c[e])
      /\ publisher' = [publisher EXCEPT ![p] = s] /\ UNCHANGED <<told, stumbles>>
  BY DEF RO!Claim, RO!At
<1>a. signal' = [c EXCEPT ![e] = r] BY DEF RO!Claim
<1>2. /\ c \in [Reminders -> OutboxRows]
      /\ \A x \in Reminders : /\ c[x].attempts = signal[x].attempts
                              /\ c[x].status = "published" => signal[x].status = "published"
  BY ClosedRows DEF OutboxInv
<1> HIDE DEF c
<1>3. /\ signal'[e] \in OutboxRows /\ signal'[e].attempts = c[e].attempts + 1
      /\ signal'[e].status = "publishing"
      /\ \A x \in Reminders : x # e => signal'[x] = c[x]
      /\ signal' \in [Reminders -> OutboxRows]
  <2>1. c[e] \in OutboxRows /\ c[e].attempts < MaxTries /\ MaxTries \in Nat
    BY <1>1, <1>2 DEF RO!ToBeTold, RO!OutboxAssumption
  <2>2. c[e].attempts + 1 \in 0 .. MaxTries BY <2>1 DEF OutboxRows
  <2>3. r \in OutboxRows /\ r.attempts = c[e].attempts + 1 /\ r.status = "publishing"
    BY <2>1, <2>2 DEF OutboxRows
  <2> HIDE DEF r
  <2> QED BY <1>a, <1>2, <2>3
<1>4. s \in PublisherStates /\ s.stage = "publish" /\ s.row = e BY DEF PublisherStates
<1> HIDE DEF s
<1>5. OutboxTypes' BY <1>1, <1>3, <1>4 DEF OutboxInv, OutboxTypes
<1>6. \A q \in Workers : publisher'[q] = IF q = p THEN s ELSE publisher[q]
  BY <1>1 DEF OutboxInv, OutboxTypes
<1>8. publisher[p].stage = "idle" BY <1>1 DEF RO!Waiting
<1>9. ASSUME NEW x \in Reminders
      PROVE  /\ IsFiniteSet(Sending(x)')
             /\ told'[x] + Cardinality(Sending(x)') <= signal'[x].attempts
             /\ signal'[x].status = "published" => told'[x] > 0
  <2>1. told[x] \in Nat /\ signal[x].attempts \in Nat
    BY DEF OutboxInv, OutboxTypes, OutboxRows
  <2>2. IsFiniteSet(Sending(x)) /\ Cardinality(Sending(x)) \in Nat
    BY FS_CardinalityType DEF OutboxInv
  <2>3. CASE x = e
    <3>1. Sending(x)' = Sending(x) \cup {p} /\ p \notin Sending(x)
      BY <1>4, <1>6, <1>8, <2>3 DEF Sending
    <3>2. IsFiniteSet(Sending(x)') /\ Cardinality(Sending(x)') = Cardinality(Sending(x)) + 1
      BY <2>2, <3>1, FS_AddElement
    <3> QED BY <1>1, <1>2, <1>3, <2>1, <2>2, <2>3, <3>2 DEF OutboxInv
  <2>4. CASE x # e
    <3>1. Sending(x)' = Sending(x) BY <1>4, <1>6, <1>8, <2>4 DEF Sending
    <3> QED BY <1>1, <1>2, <1>3, <2>2, <2>4, <3>1 DEF OutboxInv
  <2> QED BY <2>3, <2>4
<1>10. \A q \in Workers : publisher'[q].stage = "mark" => told'[publisher'[q].row] > 0
  BY <1>1, <1>4, <1>6 DEF OutboxInv
<1> QED BY <1>5, <1>9, <1>10 DEF OutboxInv

LEMMA PublishesKeeps ==
    ASSUME OutboxInv, NEW p \in Workers, RO!Publishes(p)
    PROVE  OutboxInv'
<1> DEFINE e == publisher[p].row
           s == [publisher[p] EXCEPT !.stage = "mark"]
<1>1. /\ publisher[p] \in [stage : {"publish", "mark", "release"}, row : Reminders]
      /\ e \in Reminders
  BY PublisherBusy DEF OutboxInv, RO!Publishes, RO!Waiting
<1>2. s \in PublisherStates /\ s.stage = "mark" /\ s.row = e BY <1>1 DEF PublisherStates
<1>3. /\ publisher' = [publisher EXCEPT ![p] = s] /\ told' = [told EXCEPT ![e] = @ + 1]
      /\ UNCHANGED <<signal, stumbles>> /\ p \in Sending(e)
  BY <1>1 DEF RO!Publishes, RO!At, Sending
<1>4. \A x \in Reminders : x # e => p \notin Sending(x) BY DEF Sending
<1> HIDE DEF s, e
<1>5. OutboxTypes' BY <1>1, <1>2, <1>3 DEF OutboxInv, OutboxTypes
<1>6. \A q \in Workers : publisher'[q] = IF q = p THEN s ELSE publisher[q]
  BY <1>3 DEF OutboxInv, OutboxTypes
<1>7. \A x \in Reminders : told[x] \in Nat /\ told'[x] = IF x = e THEN told[x] + 1 ELSE told[x]
  BY <1>1, <1>3 DEF OutboxInv, OutboxTypes
<1>8. ASSUME NEW x \in Reminders
      PROVE  /\ IsFiniteSet(Sending(x)')
             /\ told'[x] + Cardinality(Sending(x)') <= signal'[x].attempts
             /\ signal'[x].status = "published" => told'[x] > 0
  <2>1. signal[x].attempts \in Nat BY DEF OutboxInv, OutboxTypes, OutboxRows
  <2>2. IsFiniteSet(Sending(x)) /\ told[x] + Cardinality(Sending(x)) <= signal[x].attempts
        /\ (signal[x].status = "published" => told[x] > 0)
    BY DEF OutboxInv
  <2>3. /\ IsFiniteSet(Sending(x)')
        /\ Cardinality(Sending(x)') = IF p \in Sending(x) THEN Cardinality(Sending(x)) - 1
                                                          ELSE Cardinality(Sending(x))
        /\ Cardinality(Sending(x)) \in Nat
    BY <1>2, <1>3, <2>2, SendingLess DEF OutboxInv
  <2> QED BY <1>3, <1>4, <1>7, <2>1, <2>2, <2>3
<1>9. \A q \in Workers : publisher'[q].stage = "mark" => told'[publisher'[q].row] > 0
  <2> SUFFICES ASSUME NEW q \in Workers, publisher'[q].stage = "mark"
               PROVE  told'[publisher'[q].row] > 0
    OBVIOUS
  <2>1. CASE q = p BY <1>1, <1>2, <1>6, <1>7, <2>1
  <2>2. CASE q # p
    <3>1. publisher'[q] = publisher[q] /\ publisher[q].stage = "mark" BY <1>6, <2>2
    <3>2. publisher[q].row \in Reminders /\ told[publisher[q].row] > 0
      BY <3>1, PublisherBusy DEF OutboxInv, RO!Waiting
    <3> QED BY <1>7, <3>1, <3>2
  <2> QED BY <2>1, <2>2
<1> QED BY <1>5, <1>8, <1>9 DEF OutboxInv

LEMMA SettlesKeeps ==
    ASSUME OutboxInv, NEW p \in Workers, RO!Settles(p)
    PROVE  OutboxInv'
<1> DEFINE e == publisher[p].row
           marked == [signal[e] EXCEPT !.status = "published", !.lease = "none"]
           released == [signal[e] EXCEPT !.status = "pending", !.lease = "none", !.ready = FALSE]
<1>1. e \in Reminders BY PublisherBusy DEF OutboxInv, RO!Settles, RO!Waiting
<1>2. /\ marked \in OutboxRows /\ marked.attempts = signal[e].attempts
      /\ released \in OutboxRows /\ released.attempts = signal[e].attempts
      /\ released.status = "pending"
  BY <1>1 DEF OutboxInv, OutboxTypes, OutboxRows
<1>3. /\ \/ signal' = signal
         \/ signal' = [signal EXCEPT ![e] = released]
         \/ publisher[p].stage = "mark" /\ signal' = [signal EXCEPT ![e] = marked]
      /\ publisher' = [publisher EXCEPT ![p] = RO!Waiting] /\ UNCHANGED <<told, stumbles>>
  BY DEF RO!Settles, RO!At
<1>4. publisher[p].stage = "mark" => told[e] > 0 BY DEF OutboxInv
<1> HIDE DEF e, marked, released
<1>5. /\ signal' \in [Reminders -> OutboxRows]
      /\ \A x \in Reminders : /\ signal'[x].attempts = signal[x].attempts
                              /\ signal'[x].status = "published" => told[x] > 0
  BY <1>1, <1>2, <1>3, <1>4 DEF OutboxInv, OutboxTypes
<1>6. RO!Waiting \in PublisherStates /\ RO!Waiting.stage = "idle"
  BY DEF PublisherStates, RO!Waiting
<1>7. OutboxTypes' BY <1>3, <1>5, <1>6 DEF OutboxInv, OutboxTypes
<1>8. \A q \in Workers : publisher'[q] = IF q = p THEN RO!Waiting ELSE publisher[q]
  BY <1>3 DEF OutboxInv, OutboxTypes
<1>9. ASSUME NEW x \in Reminders
      PROVE  IsFiniteSet(Sending(x)') /\ told[x] + Cardinality(Sending(x)') <= signal[x].attempts
  <2>1. told[x] \in Nat /\ signal[x].attempts \in Nat
    BY DEF OutboxInv, OutboxTypes, OutboxRows
  <2>2. IsFiniteSet(Sending(x)) /\ told[x] + Cardinality(Sending(x)) <= signal[x].attempts
    BY DEF OutboxInv
  <2>3. /\ IsFiniteSet(Sending(x)') /\ Cardinality(Sending(x)) \in Nat
        /\ Cardinality(Sending(x)') \in {Cardinality(Sending(x)), Cardinality(Sending(x)) - 1}
    BY <1>3, <1>6, <2>2, SendingLess DEF OutboxInv
  <2> QED BY <2>1, <2>2, <2>3
<1> QED BY <1>3, <1>5, <1>6, <1>7, <1>8, <1>9 DEF OutboxInv

LEMMA OutboxStep ==
    OutboxInv /\ RO!OutboxAssumption /\ [RO!Next]_signalling => OutboxInv'
<1> SUFFICES ASSUME OutboxInv, RO!OutboxAssumption, [RO!Next]_signalling PROVE OutboxInv'
  OBVIOUS
<1>0. /\ stumbles \in 0 .. MaxStumbles /\ MaxStumbles \in Nat
      /\ RO!Stumble => stumbles' \in 0 .. MaxStumbles
  BY DEF OutboxInv, OutboxTypes, RO!OutboxAssumption, RO!Stumble
<1>1. ASSUME NEW e \in Reminders, RO!Enqueue(e) \/ RO!Ages(e) PROVE OutboxInv'
  <2>1. PICK r : /\ signal' = [signal EXCEPT ![e] = r] /\ r \in OutboxRows
                 /\ r.attempts = signal[e].attempts
                 /\ r.status = "published" => signal[e].status = "published"
    <3>1. signal[e] \in OutboxRows BY DEF OutboxInv, OutboxTypes
    <3>2. CASE RO!Enqueue(e)
      <4> DEFINE r == [signal[e] EXCEPT !.status = "pending", !.ready = TRUE]
      <4>1. r \in OutboxRows /\ r.attempts = signal[e].attempts /\ r.status = "pending"
        BY <3>1 DEF OutboxRows
      <4>2. signal' = [signal EXCEPT ![e] = r] BY <3>2 DEF RO!Enqueue
      <4> HIDE DEF r
      <4> QED BY <4>1, <4>2
    <3>3. CASE RO!BackoffEnds(e)
      <4> DEFINE r == [signal[e] EXCEPT !.ready = TRUE]
      <4>1. r \in OutboxRows /\ r.attempts = signal[e].attempts /\ r.status = signal[e].status
        BY <3>1 DEF OutboxRows
      <4>2. signal' = [signal EXCEPT ![e] = r] BY <3>3 DEF RO!BackoffEnds
      <4> HIDE DEF r
      <4> QED BY <4>1, <4>2
    <3>4. CASE RO!LeaseExpires(e)
      <4> DEFINE r == [signal[e] EXCEPT !.lease = "expired"]
      <4>1. r \in OutboxRows /\ r.attempts = signal[e].attempts /\ r.status = signal[e].status
        BY <3>1 DEF OutboxRows
      <4>2. signal' = [signal EXCEPT ![e] = r] BY <3>4 DEF RO!LeaseExpires
      <4> HIDE DEF r
      <4> QED BY <4>1, <4>2
    <3> QED BY <1>1, <3>2, <3>3, <3>4 DEF RO!Ages
  <2>2. UNCHANGED <<publisher, told>> /\ stumbles' \in 0 .. MaxStumbles
    BY <1>0, <1>1 DEF RO!Enqueue, RO!Ages, RO!BackoffEnds, RO!LeaseExpires
  <2>3. /\ signal' \in [Reminders -> OutboxRows]
        /\ \A x \in Reminders : /\ signal'[x].attempts = signal[x].attempts
                                /\ signal'[x].status = "published" => told[x] > 0
    BY <2>1 DEF OutboxInv, OutboxTypes
  <2> QED BY <2>2, <2>3, RowsTouched
<1>2. ASSUME NEW p \in Workers, RO!FindsNothing(p) PROVE OutboxInv'
  <2>1. signal' = RO!Closed /\ UNCHANGED <<publisher, told, stumbles>>
    BY <1>2 DEF RO!FindsNothing
  <2>2. /\ RO!Closed \in [Reminders -> OutboxRows]
        /\ \A e \in Reminders :
               /\ RO!Closed[e].attempts = signal[e].attempts
               /\ RO!Closed[e].status = "published" => signal[e].status = "published"
    BY ClosedRows DEF OutboxInv
  <2> QED BY <1>0, <2>1, <2>2, RowsTouched DEF OutboxInv
<1>3. ASSUME NEW p \in Workers, RO!Unavailable(p) \/ RO!MarkFails(p) PROVE OutboxInv'
  <2> DEFINE s == [publisher[p] EXCEPT !.stage = "release"]
  <2>1. publisher[p] \in [stage : {"publish", "mark", "release"}, row : Reminders]
    BY <1>3, PublisherBusy DEF OutboxInv, RO!Unavailable, RO!MarkFails, RO!Waiting
  <2>2. s \in PublisherStates /\ s.stage = "release" BY <2>1 DEF PublisherStates
  <2>3. /\ publisher' = [publisher EXCEPT ![p] = s] /\ UNCHANGED <<signal, told>>
        /\ stumbles' \in 0 .. MaxStumbles
    BY <1>0, <1>3 DEF RO!Unavailable, RO!MarkFails, RO!At
  <2> HIDE DEF s
  <2> QED BY <2>2, <2>3, PublisherLeaves
<1>4. ASSUME NEW p \in Workers, RO!Stops(p) PROVE OutboxInv'
  <2>1. RO!Waiting \in PublisherStates /\ RO!Waiting.stage = "idle"
    BY DEF PublisherStates, RO!Waiting
  <2>2. /\ publisher' = [publisher EXCEPT ![p] = RO!Waiting] /\ UNCHANGED <<signal, told>>
        /\ stumbles' \in 0 .. MaxStumbles
    BY <1>0, <1>4 DEF RO!Stops, RO!At
  <2> QED BY <2>1, <2>2, PublisherLeaves
<1>5. CASE UNCHANGED signalling
  <2>1. \A e : Sending(e)' = Sending(e) BY <1>5 DEF Sending, signalling
  <2> QED BY <1>5, <2>1 DEF OutboxInv, OutboxTypes, signalling
<1> QED BY <1>1, <1>2, <1>3, <1>4, <1>5, ClaimKeeps, PublishesKeeps, SettlesKeeps
        DEF RO!Next, RO!Drains

-----------------------------------------------------------------------------
(* AuthSessions. *)

Requests == [does : {"rotate", "compromise", "revoke", "expire"}, on : Sessions]

\* A session that is used belongs to a family whose founder is used, and what a
\* request works on is used: no sign-in or rotation meets a family of its own id.
Founded ==
    /\ \A s \in Sessions : ~Unused(s) => ~Unused(family[s])
    /\ \A c \in Calls : call[c] # NoCall => ~Unused(call[c].on)

SessionsInv == TypeOK /\ Founded /\ SoundFamilies

-----------------------------------------------------------------------------
(* Types. *)

LEMMA SessionsTypesStart == Init => TypeOK
  BY DEF Init, TypeOK, Statuses

\* What a refresh decides to do is one of the things a request can do.
LEMMA DecisionType ==
    ASSUME TypeOK, NEW s \in Sessions
    PROVE  Decision(s) \in {"rotate", "compromise", "revoke", "expire", "nothing"}
<1>1. session[s] \in [status : Statuses, over : BOOLEAN] BY DEF TypeOK
<1>2. session[s].status \in Statuses /\ session[s].over \in BOOLEAN BY <1>1
<1>3. enabled \in BOOLEAN BY DEF TypeOK
<1> DEFINE st == session[s].status  ov == session[s].over
<1>4. CASE st = "rotated" BY <1>4 DEF Decision
<1>5. CASE st = "active" /\ ov BY <1>5, <1>2 DEF Decision
<1>6. CASE st = "active" /\ ~ov /\ ~enabled BY <1>6, <1>2, <1>3 DEF Decision
<1>7. CASE st = "active" /\ ~ov /\ enabled BY <1>7, <1>2, <1>3 DEF Decision
<1>8. CASE st \notin {"active", "rotated"} BY <1>8, <1>2 DEF Decision
<1> QED BY <1>2, <1>3, <1>4, <1>5, <1>6, <1>7, <1>8

LEMMA RequestType ==
    ASSUME TypeOK, NEW c \in Calls
    PROVE  call[c] \in {NoCall} \cup Requests
  BY DEF TypeOK, Requests

LEMMA BusyRequest ==
    ASSUME TypeOK, NEW c \in Calls, call[c].does # "nothing"
    PROVE  call[c] \in Requests /\ call[c].on \in Sessions /\ call[c] # NoCall
  BY RequestType DEF Requests, NoCall

\* Each step keeps the types.
LEMMA SessionsTypesStep == TypeOK /\ [Next]_vars => TypeOK'
<1> SUFFICES ASSUME TypeOK, [Next]_vars PROVE TypeOK'
  OBVIOUS
<1>1. CASE Switches BY <1>1 DEF Switches, TypeOK
<1>2. ASSUME NEW s \in Sessions, SignIn(s) PROVE TypeOK'
  BY <1>2 DEF SignIn, TypeOK, Fresh, Statuses
<1>3. ASSUME NEW s \in Sessions, Lapses(s) PROVE TypeOK'
  BY <1>3 DEF Lapses, TypeOK, Statuses
<1>4. ASSUME NEW except \in SUBSET Sessions, RevokesActive(except) PROVE TypeOK'
  BY <1>4 DEF RevokesActive, TypeOK, Statuses
<1>5. ASSUME NEW c \in Calls, LosesRotation(c) PROVE TypeOK'
  <2>1. call[c] \in Requests BY <1>5, BusyRequest DEF LosesRotation
  <2>2. [call[c] EXCEPT !.does = "compromise"] \in Requests BY <2>1 DEF Requests
  <2> QED BY <1>5, <2>2 DEF LosesRotation, TypeOK, Requests
<1>6. ASSUME NEW c \in Calls, Compromises(c) PROVE TypeOK'
  BY <1>6 DEF Compromises, TypeOK, Statuses
<1>7. ASSUME NEW c \in Calls, ClosesById(c) PROVE TypeOK'
  <2>1. call[c].on \in Sessions BY <1>7, BusyRequest DEF ClosesById
  <2> QED BY <1>7, <2>1 DEF ClosesById, TypeOK, Statuses
<1>8. ASSUME NEW c \in Calls, Fails(c) PROVE TypeOK'
  BY <1>8 DEF Fails, TypeOK
<1>9. ASSUME NEW c \in Calls, NEW s \in Sessions, ReadsForRefresh(c, s) PROVE TypeOK'
  <2>1. [does |-> Decision(s), on |-> s] \in Requests
    BY <1>9, DecisionType DEF ReadsForRefresh, Requests
  <2> QED BY <1>9, <2>1 DEF ReadsForRefresh, TypeOK, Requests
<1>10. ASSUME NEW c \in Calls, NEW s \in Sessions, ReadsForLogout(c, s) PROVE TypeOK'
  BY <1>10 DEF ReadsForLogout, TypeOK
<1>11. ASSUME NEW c \in Calls, NEW s \in Sessions, Rotates(c, s) PROVE TypeOK'
  <2>1. call[c].on \in Sessions BY <1>11, BusyRequest DEF Rotates
  <2> QED BY <1>11, <2>1 DEF Rotates, TypeOK, Fresh, Statuses
<1>12. CASE UNCHANGED vars BY <1>12 DEF vars, TypeOK
<1>13. ASSUME NEW except \in {{}} \cup {{s} : s \in Sessions} PROVE except \in SUBSET Sessions
  OBVIOUS
<1> QED BY <1>1, <1>2, <1>3, <1>4, <1>5, <1>6, <1>7, <1>8, <1>9, <1>10, <1>11, <1>12, <1>13 DEF Next

-----------------------------------------------------------------------------
(* Families. *)

InUse(s) == session[s].status \in {"active", "compromised"}

\* What SoundFamilies says, without the sets.
LEMMA Sound ==
    TypeOK => (SoundFamilies <=>
        \A s, q \in Sessions : Active(s) /\ family[q] = family[s] /\ InUse(q) => q = s)
  BY DEF SoundFamilies, Active, Family, InUse, Unused, TypeOK

\* Sessions whose status keeps what matters keep the invariant: nothing comes
\* into use and no family changes.
LEMMA NothingBegins ==
    ASSUME TypeOK, TypeOK', SoundFamilies, UNCHANGED family,
           \A s \in Sessions : Active(s)' => Active(s),
           \A s, q \in Sessions :
               Active(s)' /\ family[q] = family[s] /\ InUse(q)' => InUse(q)
    PROVE  SoundFamilies'
<1>1. \A s, q \in Sessions : Active(s) /\ family[q] = family[s] /\ InUse(q) => q = s
  BY Sound
<1>2. \A s, q \in Sessions :
          Active(s)' /\ family'[q] = family'[s] /\ InUse(q)' => q = s
  BY <1>1
<1> QED BY <1>2 DEF SoundFamilies, Active, Family, InUse, Unused, TypeOK

LEMMA SessionsStart == Init => SessionsInv
  BY SessionsTypesStart DEF Init, SessionsInv, Founded, SoundFamilies, Active, Unused, NoCall

LEMMA SignInKeeps ==
    ASSUME SessionsInv, TypeOK', NEW s \in Sessions, SignIn(s)
    PROVE  Founded' /\ SoundFamilies'
<1>1. /\ \A q \in Sessions : session'[q] = IF q = s THEN Fresh ELSE session[q]
      /\ \A q \in Sessions : family'[q] = IF q = s THEN s ELSE family[q]
      /\ UNCHANGED call /\ Unused(s)
  BY DEF SignIn, SessionsInv, TypeOK
<1>2. Founded'
  BY <1>1 DEF SessionsInv, Founded, TypeOK, Unused, Fresh
<1>3. \A q \in Sessions : InUse(q)' /\ q # s => family[q] # s
  BY <1>1 DEF SessionsInv, Founded, Unused, InUse
<1>4. \A x, q \in Sessions :
          Active(x)' /\ family'[q] = family'[x] /\ InUse(q)' => q = x
  <2> SUFFICES ASSUME NEW x \in Sessions, NEW q \in Sessions,
                      Active(x)', family'[q] = family'[x], InUse(q)'
               PROVE  q = x
    OBVIOUS
  <2>1. InUse(x)' BY DEF Active, InUse
  <2>2. CASE x = s \/ q = s BY <2>1, <2>2, <1>1, <1>3
  <2>3. CASE x # s /\ q # s
    BY <2>3, <1>1, Sound DEF SessionsInv, Active, InUse
  <2> QED BY <2>2, <2>3
<1> QED BY <1>2, <1>4 DEF SoundFamilies, Active, Family, InUse, Unused

\* The successor takes the place of the one session its family had in use.
LEMMA RotationKeeps ==
    ASSUME SessionsInv, TypeOK', NEW c \in Calls, NEW new \in Sessions, Rotates(c, new)
    PROVE  Founded' /\ SoundFamilies'
<1> DEFINE old == call[c].on
<1>0. old \in Sessions /\ ~Unused(old) /\ Active(old) /\ Unused(new) /\ new # old
  BY BusyRequest DEF Rotates, SessionsInv, Founded, ClaimsRotation, Active, Unused
<1>1. /\ \A q \in Sessions : session'[q].status =
             IF q = new THEN "active" ELSE IF q = old THEN "rotated" ELSE session[q].status
      /\ \A q \in Sessions : family'[q] = IF q = new THEN family[old] ELSE family[q]
      /\ \A d \in Calls : call'[d] = IF d = c THEN NoCall ELSE call[d]
  BY <1>0 DEF Rotates, SessionsInv, TypeOK, Fresh
<1>2. family[old] \in Sessions /\ ~Unused(family[old]) /\ family[old] # new
  BY <1>0 DEF SessionsInv, Founded, TypeOK
<1>3. \A q \in Sessions : ~Unused(q) => ~Unused(q)'
  BY <1>1 DEF Unused
<1>4. Founded'
  <2>1. \A q \in Sessions : ~Unused(q)' => ~Unused(family[q])'
    BY <1>0, <1>1, <1>2, <1>3 DEF Unused, SessionsInv, Founded, TypeOK
  <2>2. \A d \in Calls : call'[d] # NoCall => call[d] # NoCall /\ call'[d].on = call[d].on
    BY <1>1
  <2>3. \A d \in Calls : call'[d] # NoCall => ~Unused(call[d].on)'
    BY <2>2, <1>3, RequestType DEF SessionsInv, Founded, Requests
  <2> QED BY <2>1, <2>3 DEF Founded, Unused
<1>5. \A x, q \in Sessions :
          Active(x)' /\ family'[q] = family'[x] /\ InUse(q)' => q = x
  <2> SUFFICES ASSUME NEW x \in Sessions, NEW q \in Sessions,
                      Active(x)', family'[q] = family'[x], InUse(q)'
               PROVE  q = x
    OBVIOUS
  <2>1. x # old /\ q # old BY <1>0, <1>1 DEF Active, InUse
  <2>2. \A y \in Sessions \ {new, old} : InUse(y)' => InUse(y) /\ family'[y] = family[y]
    BY <1>1 DEF InUse
  <2>3. \A y \in Sessions : InUse(y) /\ family[y] = family[old] => y = old
    BY <1>0, Sound DEF SessionsInv
  <2>4. CASE x = new
    BY <2>1, <2>2, <2>3, <2>4, <1>1
  <2>5. CASE q = new
    BY <2>1, <2>2, <2>3, <2>5, <1>1 DEF Active, InUse
  <2>6. CASE x # new /\ q # new
    BY <2>1, <2>2, <2>6, <1>1, Sound DEF SessionsInv, Active, InUse
  <2> QED BY <2>4, <2>5, <2>6
<1> QED BY <1>4, <1>5 DEF SoundFamilies, Active, Family, InUse, Unused

\* A step that uses no new session, and whose requests work on used ones.
LEMMA FoundedKept ==
    ASSUME SessionsInv, TypeOK', UNCHANGED family,
           \A q \in Sessions : session'[q].status = "none" <=> session[q].status = "none",
           \A d \in Calls : call'[d] # NoCall => session'[call'[d].on].status # "none"
    PROVE  Founded'
<1> QED BY DEF SessionsInv, Founded, TypeOK, Unused

\* The same for a step whose requests go on, end, or only change their mind.
LEMMA RequestsGoOn ==
    ASSUME SessionsInv, TypeOK', UNCHANGED family,
           \A q \in Sessions : session'[q].status = "none" <=> session[q].status = "none",
           \A d \in Calls : \/ call'[d] = NoCall
                            \/ call[d] # NoCall /\ call'[d].on = call[d].on
    PROVE  Founded'
<1>1. \A d \in Calls : call[d] # NoCall => call[d].on \in Sessions
  BY RequestType DEF SessionsInv, Requests
<1>2. \A d \in Calls : call'[d] # NoCall => session'[call'[d].on].status # "none"
  BY <1>1 DEF SessionsInv, Founded, Unused
<1> QED BY <1>2, FoundedKept

LEMMA CompromiseKeeps ==
    ASSUME SessionsInv, TypeOK', NEW c \in Calls, Compromises(c)
    PROVE  Founded' /\ SoundFamilies'
<1> DEFINE used == call[c].on  shut == Compromised(used)
<1>0. used \in Sessions /\ call[c] # NoCall
  BY BusyRequest DEF Compromises, SessionsInv
<1>1. /\ \A q \in Sessions : session'[q].status =
             IF q \in shut THEN "compromised" ELSE session[q].status
      /\ UNCHANGED family
      /\ \A d \in Calls : call'[d] = IF d = c THEN NoCall ELSE call[d]
  BY DEF Compromises, SessionsInv, TypeOK
<1>2. \A q \in shut : ~Unused(q) /\ family[q] = family[used] /\ q \in Sessions
  BY DEF Compromised, Family
<1>3. \A q \in Sessions : session'[q].status = "none" <=> session[q].status = "none"
  BY <1>1, <1>2 DEF Unused
<1>4. Founded'
  <2>1. \A d \in Calls : call'[d] = NoCall \/ (call[d] # NoCall /\ call'[d].on = call[d].on)
    BY <1>1
  <2>2. UNCHANGED family BY <1>1
  <2> QED BY <2>1, <2>2, <1>3, RequestsGoOn
<1>5. \A s \in Sessions : Active(s)' => Active(s) /\ family[s] # family[used]
  BY <1>1 DEF Active, Compromised, Family, Unused
<1>6. \A s, q \in Sessions :
          Active(s)' /\ family[q] = family[s] /\ InUse(q)' => InUse(q)
  BY <1>1, <1>2, <1>5 DEF InUse
<1>7. SoundFamilies'
  BY <1>1, <1>5, <1>6, NothingBegins DEF SessionsInv
<1> QED BY <1>4, <1>7

LEMMA CloseKeeps ==
    ASSUME SessionsInv, TypeOK', NEW c \in Calls, ClosesById(c)
    PROVE  Founded' /\ SoundFamilies'
<1> DEFINE on == call[c].on
<1>0. on \in Sessions /\ call[c] # NoCall /\ ~Unused(on)
  BY BusyRequest DEF ClosesById, SessionsInv, Founded
<1>1. /\ \A q \in Sessions : q # on => session'[q].status = session[q].status
      /\ session'[on].status \in {"revoked", "expired"}
      /\ UNCHANGED family
      /\ \A d \in Calls : call'[d] = IF d = c THEN NoCall ELSE call[d]
  BY <1>0 DEF ClosesById, SessionsInv, TypeOK
<1>2. \A q \in Sessions : session'[q].status = "none" <=> session[q].status = "none" BY <1>0, <1>1 DEF Unused
<1>3. Founded'
  <2>1. \A d \in Calls : call'[d] = NoCall \/ (call[d] # NoCall /\ call'[d].on = call[d].on)
    BY <1>1
  <2>2. UNCHANGED family BY <1>1
  <2> QED BY <2>1, <2>2, <1>2, RequestsGoOn
<1>4. SoundFamilies' BY <1>1, NothingBegins DEF SessionsInv, Active, InUse
<1> QED BY <1>3, <1>4

LEMMA RevocationKeeps ==
    ASSUME SessionsInv, TypeOK', NEW except \in SUBSET Sessions, RevokesActive(except)
    PROVE  Founded' /\ SoundFamilies'
<1>1. /\ \A q \in Sessions : session'[q].status =
             IF session[q].status = "active" /\ q \notin except
             THEN "revoked" ELSE session[q].status
      /\ UNCHANGED <<family, call>>
  BY DEF RevokesActive, SessionsInv, TypeOK
<1>2. \A q \in Sessions : session'[q].status = "none" <=> session[q].status = "none" BY <1>1 DEF Unused
<1>3. Founded'
  <2>1. \A d \in Calls : call'[d] = NoCall \/ (call[d] # NoCall /\ call'[d].on = call[d].on)
    BY <1>1
  <2>2. UNCHANGED family BY <1>1
  <2> QED BY <2>1, <2>2, <1>2, RequestsGoOn
<1>4. SoundFamilies' BY <1>1, NothingBegins DEF SessionsInv, Active, InUse
<1> QED BY <1>3, <1>4

\* Requests that only read, decide or fail, and time, change no status.
LEMMA OthersKeep ==
    ASSUME SessionsInv, TypeOK', UNCHANGED family,
           \A q \in Sessions : session'[q].status = session[q].status,
           \A d \in Calls : \/ call'[d] = NoCall
                            \/ call[d] # NoCall /\ call'[d].on = call[d].on
                            \/ /\ call'[d].on \in Sessions
                               /\ session[call'[d].on].status # "none"
    PROVE  Founded' /\ SoundFamilies'
<1>1. \A q \in Sessions : session'[q].status = "none" <=> session[q].status = "none"
  OBVIOUS
<1>2. \A d \in Calls : call[d] # NoCall =>
          call[d].on \in Sessions /\ session[call[d].on].status # "none"
  BY RequestType DEF SessionsInv, Requests, Founded, Unused
<1>3. \A d \in Calls : call'[d] # NoCall =>
          call'[d].on \in Sessions /\ session[call'[d].on].status # "none"
  BY <1>2
<1>4. \A d \in Calls : call'[d] # NoCall => session'[call'[d].on].status # "none"
  BY <1>1, <1>3
<1>5. Founded' BY <1>1, <1>4, FoundedKept
<1>6. SoundFamilies' BY NothingBegins DEF SessionsInv, Active, InUse
<1> QED BY <1>5, <1>6

\* Each step keeps the invariant.
LEMMA SessionsStep == SessionsInv /\ [Next]_vars => SessionsInv'
<1> SUFFICES ASSUME SessionsInv, [Next]_vars PROVE SessionsInv'
  OBVIOUS
<1>0. TypeOK /\ TypeOK' BY SessionsTypesStep DEF SessionsInv
<1> SUFFICES Founded' /\ SoundFamilies' BY <1>0 DEF SessionsInv
<1>a. ASSUME UNCHANGED <<session, family, call>> PROVE Founded' /\ SoundFamilies'
  <2>1. \A d \in Calls : call'[d] = NoCall \/ (call[d] # NoCall /\ call'[d].on = call[d].on)
    BY <1>a
  <2> QED BY <1>0, <1>a, <2>1, OthersKeep
<1>1. CASE Switches BY <1>1, <1>a DEF Switches
<1>2. ASSUME NEW s \in Sessions, SignIn(s) PROVE Founded' /\ SoundFamilies'
  BY <1>0, <1>2, SignInKeeps
<1>3. ASSUME NEW s \in Sessions, Lapses(s) PROVE Founded' /\ SoundFamilies'
  <2>1. \A q \in Sessions : session'[q].status = session[q].status
    BY <1>0, <1>3 DEF Lapses, TypeOK
  <2> QED BY <1>0, <1>3, <2>1, OthersKeep DEF Lapses
<1>4. ASSUME NEW except \in SUBSET Sessions, RevokesActive(except)
      PROVE Founded' /\ SoundFamilies'
  BY <1>0, <1>4, RevocationKeeps
<1>5. ASSUME NEW c \in Calls, LosesRotation(c) PROVE Founded' /\ SoundFamilies'
  <2>1. call[c] \in Requests /\ call[c] # NoCall
    BY <1>0, <1>5, BusyRequest DEF LosesRotation
  <2>2. \A d \in Calls : call'[d] = call[d] \/ (d = c /\ call'[d].on = call[d].on)
    BY <1>0, <1>5, <2>1 DEF LosesRotation, TypeOK, Requests
  <2>3. \A d \in Calls : call'[d] = NoCall \/ (call[d] # NoCall /\ call'[d].on = call[d].on)
    BY <2>1, <2>2
  <2> QED BY <1>0, <1>5, <2>3, OthersKeep DEF LosesRotation
<1>6. ASSUME NEW c \in Calls, Compromises(c) PROVE Founded' /\ SoundFamilies'
  BY <1>0, <1>6, CompromiseKeeps
<1>7. ASSUME NEW c \in Calls, ClosesById(c) PROVE Founded' /\ SoundFamilies'
  BY <1>0, <1>7, CloseKeeps
<1>8. ASSUME NEW c \in Calls, Fails(c) PROVE Founded' /\ SoundFamilies'
  <2>1. \A d \in Calls : call'[d] = NoCall \/ call'[d] = call[d]
    BY <1>0, <1>8 DEF Fails, TypeOK
  <2> QED BY <1>0, <1>8, <2>1, OthersKeep DEF Fails
<1>9. ASSUME NEW c \in Calls, NEW s \in Sessions,
             ReadsForRefresh(c, s) \/ ReadsForLogout(c, s)
      PROVE Founded' /\ SoundFamilies'
  <2>1. session[s].status # "none" /\ UNCHANGED <<session, family>>
    BY <1>9 DEF ReadsForRefresh, ReadsForLogout, Unused
  <2>2. \A d \in Calls : call'[d] = call[d] \/ (d = c /\ call'[d].on = s)
    BY <1>0, <1>9 DEF ReadsForRefresh, ReadsForLogout, TypeOK
  <2>3. \A d \in Calls : \/ call'[d] = NoCall
                         \/ call[d] # NoCall /\ call'[d].on = call[d].on
                         \/ call'[d].on \in Sessions /\ session[call'[d].on].status # "none"
    BY <2>1, <2>2
  <2> QED BY <1>0, <2>1, <2>3, OthersKeep
<1>10. ASSUME NEW c \in Calls, NEW s \in Sessions, Rotates(c, s)
       PROVE Founded' /\ SoundFamilies'
  BY <1>0, <1>10, RotationKeeps
<1>11. CASE UNCHANGED vars BY <1>a, <1>11 DEF vars
<1>12. ASSUME NEW except \in {{}} \cup {{s} : s \in Sessions} PROVE except \in SUBSET Sessions
  OBVIOUS
<1> QED BY <1>1, <1>2, <1>3, <1>4, <1>5, <1>6, <1>7, <1>8, <1>9, <1>10, <1>11, <1>12 DEF Next

-----------------------------------------------------------------------------
(* The specification of all of them.  A service's own steps are its Next, and *)
(* the others' leave its variables alone.                                     *)

LEMMA ServicesStep ==
    [BackgroundNext]_Everything =>
        /\ [Next]_vars
        /\ [RS!Next]_reminding /\ [CR!Next]_retrying /\ [RO!Next]_signalling
        /\ [HA!Next]_ringing /\ [NF!Next]_hinting /\ [MP!Next]_polling
        /\ [CC!Next]_callchasing /\ [LI!Next]_takingIn /\ [ER!Next]_reminderOfEvent
        /\ [OC!Next]_callingOwner
  BY DEF BackgroundNext, Everything, Rest

LEMMA ServicesStart ==
    BackgroundInit =>
        /\ Init /\ RS!Init /\ CR!Init /\ RO!Init /\ HA!Init /\ NF!Init /\ MP!Init /\ CC!Init
        /\ LI!Init /\ ER!Init /\ OC!Init
  BY DEF BackgroundInit

LEMMA Bounds ==
    /\ RS!SweepAssumption /\ CR!RetryAssumption /\ RO!OutboxAssumption /\ HA!HandsetAssumption
    /\ NF!HintAssumption /\ MP!PollAssumption /\ CC!ChaseAssumption /\ LI!IntakeAssumption
    /\ ER!EventAssumption /\ OC!OwnerCallAssumption
  BY BoundsAreSound

\* The invariants of all services together.
ServicesInv ==
    /\ SessionsInv /\ SweepInv /\ QueueInv /\ OutboxInv /\ HandInv /\ HintInv /\ PollInv
    /\ ChaseInv /\ IntakeInv /\ EventInv /\ CallInv

LEMMA ServicesInvStarts == BackgroundInit => ServicesInv
  BY ServicesStart, Bounds, SessionsStart, SweepStarts, RetryStarts, OutboxStarts, HandStarts,
     HintStarts, PollStarts, ChaseStarts, IntakeStarts, EventStarts, CallStarts
     DEF ServicesInv

LEMMA ServicesInvStep == ServicesInv /\ [BackgroundNext]_Everything => ServicesInv'
  BY ServicesStep, Bounds, SessionsStep, SweepStep, RetryStep, OutboxStep, HandStep, HintStep,
     PollStep, ChaseStep, IntakeStep, EventStep, CallStep
     DEF ServicesInv

LEMMA ServicesKeep == BackgroundSpec => []ServicesInv
  BY ServicesInvStarts, ServicesInvStep, PTL DEF BackgroundSpec

\* Every service's state has its types, with every counter inside its bound.
THEOREM TypesAreRight == BackgroundSpec => []TypesOK
<1>1. ServicesInv => TypesOK
  BY Bounds, SweepPromises, RetryPromises, OutboxPromises, HandPromises, HintPromises,
     PollPromises, ChasePromises, IntakePromises, EventPromises, CallPromises
     DEF ServicesInv, TypesOK, SessionsInv
<1> QED BY <1>1, ServicesKeep, PTL

\* A reminder nothing disturbed is retired only with a verdict, and "sent" is
\* its verdict only if it has rung, whatever sweeps, crashes and moved due times
\* meet.
THEOREM RemindersEndWithVerdict == BackgroundSpec => []RetiredWithVerdict
<1>1. ServicesInv => RetiredWithVerdict
  BY SweepPromises DEF ServicesInv, RetiredWithVerdict
<1> QED BY <1>1, ServicesKeep, PTL

\* An outbox row is published only when its signal has gone out, and the signal
\* went out at most as often as the row was tried.
THEOREM SignalsWereTold == BackgroundSpec => []PublishedWasTold
<1>1. ServicesInv => PublishedWasTold
  BY Bounds, OutboxPromises DEF ServicesInv, PublishedWasTold
<1> QED BY <1>1, ServicesKeep, PTL

\* Between two syncs the handset rings exactly for what the server has, except
\* for what changed since its cursor or was read without the permission.
THEOREM HandsetsAreInStep == BackgroundSpec => []InStep
<1>1. ServicesInv => InStep BY HandPromises DEF ServicesInv, InStep
<1> QED BY <1>1, ServicesKeep, PTL

\* No step of the handset sets an alarm over a different one still pending.
THEOREM AlarmsAreNeverStacked == BackgroundSpec => NeverStacked
<1>1. ServicesInv /\ [BackgroundNext]_Everything
      => [\A r \in Tasks : alarms[r] # HA!NoTime /\ alarms'[r] # HA!NoTime
                               => alarms'[r] = alarms[r]]_alarms
  BY ServicesStep, HandNeverStacks DEF ServicesInv
<1> QED BY <1>1, ServicesKeep, PTL DEF BackgroundSpec, NeverStacked, HA!NeverStacked

\* A sync of the next-follow-up hint that no write disturbed leaves the earliest
\* open due time, whatever the syncs before it left.
THEOREM HintsHeal == BackgroundSpec => []SelfHeals
<1>1. ServicesInv => SelfHeals BY Bounds, HintPromises DEF ServicesInv, SelfHeals
<1> QED BY <1>1, ServicesKeep, PTL

\* Before a source's watermark moves every lead of its history was looked at, or
\* cut off in the middle of a page by the cap; if Meta fills its pages and they
\* add up to the cap, every one was looked at.
THEOREM HistoryComesFirst == BackgroundSpec => []HistoryFirst
<1>1. ServicesInv => HistoryFirst BY Bounds, PollPromises DEF ServicesInv, HistoryFirst
<1> QED BY <1>1, ServicesKeep, PTL

\* A chase called completed has put the task to the owner and written to the
\* lead, whichever sweeps took it over on the way.
THEOREM CompletedIsDone == BackgroundSpec => []CompletedMeansDone
<1>1. ServicesInv => CompletedMeansDone BY ChasePromises DEF ServicesInv, CompletedMeansDone
<1> QED BY <1>1, ServicesKeep, PTL

\* Whatever number of forms, doors and sweeps meet, and whatever fails between
\* two steps: one alert, and one opening for each that was not handed back.
THEOREM OneAlertOneOpening == BackgroundSpec => []OneOpening
<1>1. ServicesInv => OneOpening BY Bounds, IntakePromises DEF ServicesInv, OneOpening
<1> QED BY <1>1, ServicesKeep, PTL

\* The owner hears of a booked event once for each claim that was not lost to an
\* error after sending, and a claim that stands has told.
THEOREM EventsAreTold == BackgroundSpec => []ToldOnceAndNotLost
<1>1. ServicesInv => ToldOnceAndNotLost
  BY Bounds, EventPromises DEF ServicesInv, ToldOnceAndNotLost
<1> QED BY <1>1, ServicesKeep, PTL

\* The owner is rung at most once about a lead, and a sweep rings at most once.
THEOREM OwnerIsRungSparingly == BackgroundSpec => []RingsSparingly
<1>1. ServicesInv => RingsSparingly BY Bounds, CallPromises DEF ServicesInv, RingsSparingly
<1> QED BY <1>1, ServicesKeep, PTL

\* A family never has two sessions in use, nor one beside a compromised one, for
\* any number of refreshes, replays, sign-outs and failures at once.
THEOREM FamiliesAreSound == BackgroundSpec => []SoundFamilies
<1>1. ServicesInv => SoundFamilies BY DEF ServicesInv, SessionsInv
<1> QED BY <1>1, ServicesKeep, PTL

\* The queue of readings implements the contract of leased jobs: whatever leases
\* expire and writes fail, only the worker that holds a message gives it back or
\* ends it, and what is ended stays so.
THEOREM ImplementsLeasedJobs == BackgroundSpec => OnlyTheHolderEnds
<1>1. ServicesInv => HeldRight BY HeldIsRight DEF ServicesInv, QueueInv
<1>2. ServicesInv /\ HeldRight /\ HeldRight' /\ [BackgroundNext]_Everything
      => [CR!Jobs!Next]_<<CR!Ended, [m \in Reminders |-> CR!Holder(m)]>>
  BY ServicesStep, StepMaps DEF ServicesInv, QueueInv, Held
<1>3. BackgroundInit => CR!Jobs!Init BY ServicesStart, InitMaps
<1> QED BY <1>1, <1>2, <1>3, ServicesKeep, PTL
        DEF BackgroundSpec, OnlyTheHolderEnds, CR!OnlyTheHolderEnds, CR!Jobs!Spec
=============================================================================
