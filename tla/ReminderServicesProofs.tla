----------------------- MODULE ReminderServicesProofs -----------------------
(***************************************************************************)
(* The inductive invariants of the background services about reminders and *)
(* other jobs that fall due: the reminder sweep, the alarms of a handset, the *)
(* owner's reminder of a booked event and the second reading of a message. *)
(* Laid out as LeadServicesProofs is.                                      *)
(***************************************************************************)
EXTENDS Background, TLAPS

-----------------------------------------------------------------------------
(* ReminderSweep. *)

Todos ==
    [status : {"none", "pending", "closed"}, due : 0 .. LastDue,
     notified : BOOLEAN, claim : {"free", "held", "expired"}, outcome : RS!Outcomes,
     attempts : Nat, pushed : BOOLEAN, version : 0 .. MaxMoves + 1]
Delivering ==
    [stage : {"push", "mark", "whatsapp"}, task : Reminders, attempts : Nat,
     pushed : BOOLEAN, version : 1 .. MaxMoves + 1]
Recording ==
    [stage : {"record"}, task : Reminders, version : 1 .. MaxMoves + 1,
     verdict : {"sent", "skipped", "failed", "retry"}]
Finishing == [stage : {"finish"}, task : Reminders, version : 1 .. MaxMoves + 1]
SweeperStates == {RS!Off} \cup Delivering \cup Recording \cup Finishing

On(w) == sweeper[w] # RS!Off

\* A delivery nothing has disturbed is the only one of its reminder: it has the
\* lease, and the reminder is as it was when it was claimed.
Undisturbed(w) ==
    LET r == sweeper[w].task IN
    /\ todo[r].claim = "held" /\ ~todo[r].notified /\ sweeper[w].version = todo[r].version
    /\ sweeper[w].stage = "record" /\ sweeper[w].verdict = "sent" => rung[r] > 0
    /\ sweeper[w].stage = "finish" => todo[r].outcome # "pending"
    /\ \A v \in Workers : On(v) /\ sweeper[v].task = r => v = w

SweepInv ==
    /\ RS!TypeOK
    /\ \A r \in Reminders : /\ todo[r].status = "none" => todo[r].claim # "held"
                            /\ todo[r].status = "pending" => todo[r].version >= 1
    /\ \A w \in Workers : On(w) /\ sweeper[w].task \notin disturbed => Undisturbed(w)
    /\ RS!RetiredWithVerdict

LEMMA SweepTypes ==
    RS!TypeOK <=> /\ time \in 0 .. LastDue /\ todo \in [Reminders -> Todos]
                  /\ sweeper \in [Workers -> SweeperStates]
                  /\ closing \subseteq Reminders /\ disturbed \subseteq Reminders
                  /\ rung \in [Reminders -> Nat] /\ upsets \in 0 .. MaxUpsets
  BY DEF RS!TypeOK, Todos, SweeperStates, Delivering, Recording, Finishing

LEMMA OnType ==
    ASSUME RS!TypeOK, NEW w \in Workers, On(w)
    PROVE  sweeper[w].task \in Reminders /\ sweeper[w].version \in 1 .. MaxMoves + 1
<1>1. sweeper[w] \in Delivering \cup Recording \cup Finishing
  BY SweepTypes DEF SweeperStates, On
<1> QED BY <1>1 DEF Delivering, Recording, Finishing

LEMMA SweepStarts == RS!Init /\ RS!SweepAssumption => SweepInv
<1> SUFFICES ASSUME RS!Init, RS!SweepAssumption PROVE SweepInv OBVIOUS
<1>1. RS!NoTask \in Todos BY DEF RS!NoTask, Todos, RS!Outcomes, RS!SweepAssumption
<1>2. RS!TypeOK BY <1>1, SweepTypes DEF RS!Init, RS!SweepAssumption, SweeperStates
<1> QED BY <1>2 DEF RS!Init, SweepInv, On, RS!NoTask, RS!RetiredWithVerdict

LEMMA SweepPromises == SweepInv => RS!TypeOK /\ RS!RetiredWithVerdict
  BY DEF SweepInv

\* A worker that goes on with its reminder, writes it, or lets go of it.
LEMMA HolderGoes ==
    ASSUME SweepInv, NEW w \in Workers, On(w), NEW r, r = sweeper[w].task,
           sweeper' \in [Workers -> SweeperStates],
           \A v \in Workers : v # w => sweeper'[v] = sweeper[v],
           todo' \in [Reminders -> Todos], \A q \in Reminders : q # r => todo'[q] = todo[q],
           todo'[r].status = todo[r].status, todo'[r].version = todo[r].version,
           todo'[r].claim = "held" => todo[r].status # "none",
           rung' \in [Reminders -> Nat], \A q \in Reminders : rung'[q] >= rung[q],
           UNCHANGED <<time, closing, disturbed>>, upsets' \in 0 .. MaxUpsets,
           On(w)' => sweeper'[w].task = r,
           r \notin disturbed /\ On(w)' =>
               /\ sweeper'[w].version = sweeper[w].version
               /\ todo'[r].claim = todo[r].claim /\ todo'[r].notified = todo[r].notified
               /\ sweeper'[w].stage = "record" /\ sweeper'[w].verdict = "sent" => rung'[r] > 0
               /\ sweeper'[w].stage = "finish" => todo'[r].outcome # "pending",
           r \notin disturbed => /\ todo'[r].notified => todo'[r].outcome # "pending"
                                 /\ todo'[r].outcome = "sent" => rung'[r] > 0
    PROVE  SweepInv'
<1>1. r \in Reminders BY OnType DEF SweepInv
<1>2. /\ todo \in [Reminders -> Todos] /\ sweeper \in [Workers -> SweeperStates]
      /\ rung \in [Reminders -> Nat]
  BY SweepTypes DEF SweepInv
<1>3. RS!TypeOK' BY <1>2, SweepTypes DEF SweepInv, RS!TypeOK, Todos, SweeperStates, Delivering, Recording, Finishing
<1>5. \A q \in Reminders : /\ todo'[q].status = "none" => todo'[q].claim # "held"
                           /\ todo'[q].status = "pending" => todo'[q].version >= 1
  BY <1>1 DEF SweepInv
<1>6. ASSUME NEW v \in Workers, On(v)', sweeper'[v].task \notin disturbed'
      PROVE  Undisturbed(v)'
  <2>1. CASE v = w
    <3>1. On(w)' /\ sweeper'[w].task = r /\ r \notin disturbed BY <1>6, <2>1
    <3>2. Undisturbed(w) BY <3>1 DEF SweepInv
    <3>3. \A u \in Workers : On(u)' /\ sweeper'[u].task = r => u = w
      BY <3>2 DEF On, Undisturbed
    <3> QED BY <1>1, <2>1, <3>1, <3>2, <3>3 DEF Undisturbed
  <2>2. CASE v # w
    <3>1. sweeper'[v] = sweeper[v] /\ On(v) /\ sweeper[v].task \notin disturbed
      BY <1>6, <2>2 DEF On
    <3>2. Undisturbed(v) BY <3>1 DEF SweepInv
    <3>3. sweeper[v].task # r BY <2>2, <3>2 DEF Undisturbed
    <3>4. sweeper[v].task \in Reminders BY <3>1, OnType DEF SweepInv
    <3>5. todo'[sweeper[v].task] = todo[sweeper[v].task] BY <3>3, <3>4
    <3>6. \A u \in Workers : On(u)' /\ sweeper'[u].task = sweeper[v].task => u = v
      <4> SUFFICES ASSUME NEW u \in Workers, On(u)', sweeper'[u].task = sweeper[v].task
                   PROVE  u = v
        OBVIOUS
      <4>1. u # w BY <3>3
      <4> QED BY <3>2, <4>1 DEF On, Undisturbed
    <3>7. rung[sweeper[v].task] > 0 => rung'[sweeper[v].task] > 0 BY <1>2, <3>4
    <3> QED BY <3>1, <3>2, <3>5, <3>6, <3>7 DEF Undisturbed
  <2> QED BY <2>1, <2>2
<1>7. RS!RetiredWithVerdict'
  <2> SUFFICES ASSUME NEW q \in Reminders, q \notin disturbed
               PROVE  /\ todo'[q].notified => todo'[q].outcome # "pending"
                      /\ todo'[q].outcome = "sent" => rung'[q] > 0
    BY DEF RS!RetiredWithVerdict
  <2>1. rung[q] > 0 => rung'[q] > 0 BY <1>2
  <2> QED BY <2>1 DEF SweepInv, RS!RetiredWithVerdict
<1> QED BY <1>3, <1>5, <1>6, <1>7 DEF SweepInv

\* A reminder written by anyone else, workers as they are: disturbed, if it is
\* held and no longer what was claimed.
LEMMA TaskWritten ==
    ASSUME SweepInv, NEW r \in Reminders, todo' \in [Reminders -> Todos],
           \A q \in Reminders : q # r => todo'[q] = todo[q],
           todo'[r].status # "none", todo'[r].status = "pending" => todo'[r].version >= 1,
           UNCHANGED <<time, sweeper>>, closing' \subseteq Reminders,
           disturbed' \in {disturbed, disturbed \cup {r}},
           rung' \in [Reminders -> Nat], \A q \in Reminders : q # r => rung'[q] = rung[q],
           upsets' \in 0 .. MaxUpsets,
           r \notin disturbed' =>
               /\ RS!Held(r) => /\ todo'[r].claim = todo[r].claim
                                /\ todo'[r].notified = todo[r].notified
                                /\ todo'[r].version = todo[r].version
                                /\ todo'[r].outcome = todo[r].outcome /\ rung'[r] = rung[r]
               /\ todo'[r].notified => todo'[r].outcome # "pending"
               /\ todo'[r].outcome = "sent" => rung'[r] > 0
    PROVE  SweepInv'
<1>1. todo \in [Reminders -> Todos] /\ sweeper \in [Workers -> SweeperStates] BY SweepTypes DEF SweepInv
<1>2. RS!TypeOK' BY <1>1, SweepTypes DEF SweepInv, RS!TypeOK, Todos, SweeperStates, Delivering, Recording, Finishing
<1>4. \A q \in Reminders : /\ todo'[q].status = "none" => todo'[q].claim # "held"
                           /\ todo'[q].status = "pending" => todo'[q].version >= 1
  BY DEF SweepInv
<1>5. ASSUME NEW v \in Workers, On(v)', sweeper'[v].task \notin disturbed'
      PROVE  Undisturbed(v)'
  <2>1. On(v) /\ sweeper[v].task \notin disturbed /\ sweeper' = sweeper BY <1>5 DEF On
  <2>2. Undisturbed(v) /\ sweeper[v].task \in Reminders BY <2>1, OnType DEF SweepInv
  <2>3. sweeper[v].task = r => RS!Held(r) BY <2>1 DEF On, RS!Held
  <2>4. CASE sweeper[v].task = r BY <1>5, <2>1, <2>2, <2>3, <2>4 DEF Undisturbed, On
  <2>5. CASE sweeper[v].task # r BY <2>1, <2>2, <2>5 DEF Undisturbed, On
  <2> QED BY <2>4, <2>5
<1>6. RS!RetiredWithVerdict' BY DEF SweepInv, RS!RetiredWithVerdict
<1> QED BY <1>2, <1>4, <1>5, <1>6 DEF SweepInv

LEMMA OwnerWritesTask ==
    ASSUME SweepInv, RS!SweepAssumption, NEW r \in Reminders, RS!Changes(r)
    PROVE  SweepInv'
<1>0. /\ todo \in [Reminders -> Todos] /\ todo[r] \in Todos /\ rung \in [Reminders -> Nat]
      /\ closing \subseteq Reminders /\ upsets \in 0 .. MaxUpsets
  BY SweepTypes DEF SweepInv
<1>1. CASE RS!StartsClosing(r)
  <2>1. todo' \in [Reminders -> Todos] /\ \A q \in Reminders : todo'[q] = todo[q]
    BY <1>0, <1>1 DEF RS!StartsClosing
  <2>2. todo[r].status = "pending" /\ UNCHANGED <<time, todo, sweeper, rung, disturbed, upsets>>
        /\ closing' \subseteq Reminders
    BY <1>0, <1>1 DEF RS!StartsClosing
  <2>3. /\ todo[r].version >= 1 /\ rung' \in [Reminders -> Nat] /\ disturbed' = disturbed
        /\ upsets' \in 0 .. MaxUpsets /\ \A q \in Reminders : rung'[q] = rung[q]
        /\ r \notin disturbed' => /\ todo'[r].notified => todo'[r].outcome # "pending"
                                  /\ todo'[r].outcome = "sent" => rung'[r] > 0
    BY <1>0, <2>2 DEF SweepInv, RS!RetiredWithVerdict
  <2> QED BY <1>0, <2>1, <2>2, <2>3, TaskWritten
<1>2. CASE RS!Closes(r)
  <2> DEFINE t == [todo[r] EXCEPT !.status = "closed"]
  <2>1. /\ t \in Todos /\ t.status = "closed" /\ t.claim = todo[r].claim
        /\ t.notified = todo[r].notified /\ t.version = todo[r].version
        /\ t.outcome = todo[r].outcome
    BY <1>0 DEF Todos
  <2>2. /\ todo' = [todo EXCEPT ![r] = t] /\ closing' \subseteq Reminders
        /\ UNCHANGED <<time, sweeper, rung, disturbed, upsets>>
    BY <1>0, <1>2 DEF RS!Closes, RS!Set
  <2> HIDE DEF t
  <2>9. /\ todo' \in [Reminders -> Todos] /\ todo'[r] = t
        /\ \A q \in Reminders : q # r => todo'[q] = todo[q]
    BY <1>0, <2>1, <2>2
  <2>3. /\ rung' \in [Reminders -> Nat] /\ disturbed' = disturbed
        /\ upsets' \in 0 .. MaxUpsets /\ \A q \in Reminders : rung'[q] = rung[q]
        /\ r \notin disturbed' => /\ t.notified => t.outcome # "pending"
                                  /\ t.outcome = "sent" => rung'[r] > 0
    BY <1>0, <2>1, <2>2 DEF SweepInv, RS!RetiredWithVerdict
  <2> QED BY <1>0, <2>1, <2>2, <2>3, <2>9, TaskWritten
<1>3. ASSUME NEW due_ \in RS!DueTimes, RS!Create(r, due_) PROVE SweepInv'
  <2> DEFINE t == [RS!NoTask EXCEPT !.status = "pending", !.due = due_, !.version = 1]
  <2>0. /\ due_ \in 0 .. LastDue /\ 1 \in 0 .. MaxMoves + 1
        /\ RS!NoTask \in Todos /\ RS!NoTask.outcome = "pending" /\ ~RS!NoTask.notified
    BY DEF Todos, RS!NoTask, RS!Outcomes, RS!DueTimes, RS!SweepAssumption
  <2>1. /\ t \in Todos /\ t.status = "pending" /\ t.version = 1 /\ ~t.notified
        /\ t.outcome = "pending"
    BY <2>0 DEF Todos
  <2>2. /\ todo' = [todo EXCEPT ![r] = t] /\ todo[r].status = "none"
        /\ UNCHANGED <<time, sweeper, closing, rung, disturbed, upsets>>
    BY <1>3 DEF RS!Create, RS!Set
  <2> HIDE DEF t
  <2>9. /\ todo' \in [Reminders -> Todos] /\ todo'[r] = t
        /\ \A q \in Reminders : q # r => todo'[q] = todo[q]
    BY <1>0, <2>1, <2>2
  <2>3. RS!Held(r) => r \in disturbed BY <2>2 DEF SweepInv, RS!Held, On, Undisturbed
  <2>4. /\ rung' \in [Reminders -> Nat] /\ disturbed' = disturbed /\ closing' \subseteq Reminders
        /\ upsets' \in 0 .. MaxUpsets /\ \A q \in Reminders : rung'[q] = rung[q]
    BY <1>0, <2>2
  <2> QED BY <2>1, <2>2, <2>3, <2>4, <2>9, TaskWritten
<1>4. ASSUME NEW due_ \in RS!DueTimes, RS!Move(r, due_) PROVE SweepInv'
  <2> DEFINE t == [RS!NoTask EXCEPT !.status = "pending", !.due = due_,
                             !.pushed = todo[r].pushed, !.version = todo[r].version + 1]
  <2>0. todo[r].version \in Nat /\ todo[r].pushed \in BOOLEAN /\ todo[r].version <= MaxMoves
        /\ MaxMoves \in Nat
    BY <1>0, <1>4 DEF Todos, RS!Move, RS!SweepAssumption
  <2>5. /\ due_ \in 0 .. LastDue /\ todo[r].version + 1 \in 0 .. MaxMoves + 1
        /\ RS!NoTask \in Todos /\ RS!NoTask.outcome = "pending" /\ ~RS!NoTask.notified
    BY <2>0 DEF Todos, RS!NoTask, RS!Outcomes, RS!DueTimes, RS!SweepAssumption
  <2>6. /\ t \in Todos /\ t.status = "pending" /\ t.version = todo[r].version + 1 /\ ~t.notified
        /\ t.outcome = "pending"
    BY <2>0, <2>5 DEF Todos
  <2>1. /\ t \in Todos /\ t.status = "pending" /\ t.version >= 1 /\ ~t.notified
        /\ t.outcome = "pending"
    BY <2>0, <2>6
  <2>2. /\ todo' = [todo EXCEPT ![r] = t] /\ rung' = [rung EXCEPT ![r] = 0]
        /\ disturbed' = IF RS!Held(r) THEN disturbed \cup {r} ELSE disturbed
        /\ UNCHANGED <<time, sweeper, closing, upsets>>
    BY <1>4 DEF RS!Move, RS!Set
  <2> HIDE DEF t
  <2>9. /\ todo' \in [Reminders -> Todos] /\ todo'[r] = t
        /\ \A q \in Reminders : q # r => todo'[q] = todo[q]
    BY <1>0, <2>1, <2>2
  <2>3. rung' \in [Reminders -> Nat] /\ \A q \in Reminders : q # r => rung'[q] = rung[q]
    BY <1>0, <2>2
  <2>4. /\ disturbed' \in {disturbed, disturbed \cup {r}} /\ closing' \subseteq Reminders
        /\ upsets' \in 0 .. MaxUpsets /\ (RS!Held(r) => r \in disturbed')
    BY <1>0, <2>2
  <2> QED BY <2>1, <2>2, <2>3, <2>4, <2>9, TaskWritten
<1> QED BY <1>1, <1>2, <1>3, <1>4 DEF RS!Changes

LEMMA ClaimsReminder ==
    ASSUME SweepInv, RS!SweepAssumption, NEW w \in Workers, NEW r \in Reminders, RS!Claim(w, r)
    PROVE  SweepInv'
<1> DEFINE t == [todo[r] EXCEPT !.claim = "held"]
           s == [stage |-> "push", task |-> r, attempts |-> todo[r].attempts,
                 pushed |-> todo[r].pushed, version |-> todo[r].version]
<1>0. /\ todo \in [Reminders -> Todos] /\ todo[r] \in Todos
      /\ sweeper \in [Workers -> SweeperStates]
  BY SweepTypes DEF SweepInv
<1>1. /\ sweeper[w] = RS!Off /\ RS!FreeToTake(todo[r])
      /\ todo' = [todo EXCEPT ![r] = t] /\ sweeper' = [sweeper EXCEPT ![w] = s]
      /\ UNCHANGED <<time, closing, rung, disturbed, upsets>>
  BY DEF RS!Claim, RS!Set, RS!At
<1>2. /\ todo[r].status = "pending" /\ ~todo[r].notified /\ todo[r].claim # "held"
      /\ todo[r].version >= 1
  BY <1>1 DEF RS!FreeToTake, SweepInv
<1>3. /\ t \in Todos /\ t.claim = "held" /\ t.status = "pending"
      /\ t.notified = todo[r].notified /\ t.version = todo[r].version
      /\ t.outcome = todo[r].outcome
  BY <1>0, <1>2 DEF Todos
<1>4. s \in SweeperStates /\ s # RS!Off /\ s.task = r /\ s.version = todo[r].version /\ s.stage = "push"
  BY <1>0, <1>2 DEF SweeperStates, Delivering, Todos, RS!Off
<1> HIDE DEF s, t
<1>5. RS!TypeOK'
  BY <1>0, <1>1, <1>3, <1>4, SweepTypes
     DEF SweepInv, RS!TypeOK, Todos, SweeperStates, Delivering, Recording, Finishing
<1>6. /\ todo'[r] = t /\ \A q \in Reminders : q # r => todo'[q] = todo[q]
      /\ sweeper'[w] = s /\ \A v \in Workers : v # w => sweeper'[v] = sweeper[v]
  BY <1>0, <1>1
<1>7. \A v \in Workers : On(v) /\ sweeper[v].task = r => r \in disturbed
  BY <1>2 DEF SweepInv, Undisturbed
<1>8. ASSUME NEW v \in Workers, On(v)', sweeper'[v].task \notin disturbed'
      PROVE  Undisturbed(v)'
  <2>1. CASE v = w
    <3>1. \A u \in Workers : On(u)' /\ sweeper'[u].task = r => u = w
      BY <1>1, <1>4, <1>6, <1>7, <1>8, <2>1 DEF On
    <3> QED BY <1>2, <1>3, <1>4, <1>6, <2>1, <3>1 DEF Undisturbed
  <2>2. CASE v # w
    <3>1. sweeper'[v] = sweeper[v] /\ On(v) /\ sweeper[v].task \notin disturbed
      BY <1>1, <1>6, <1>8, <2>2 DEF On
    <3>2. Undisturbed(v) /\ sweeper[v].task # r /\ sweeper[v].task \in Reminders
      BY <1>7, <3>1, OnType DEF SweepInv
    <3>3. \A u \in Workers : On(u)' /\ sweeper'[u].task = sweeper[v].task => u = v
      BY <1>4, <1>6, <3>2 DEF On, Undisturbed
    <3> QED BY <1>1, <1>6, <3>1, <3>2, <3>3 DEF Undisturbed
  <2> QED BY <2>1, <2>2
<1>9. RS!RetiredWithVerdict' BY <1>1, <1>3, <1>6 DEF SweepInv, RS!RetiredWithVerdict
<1>10. \A q \in Reminders : /\ todo'[q].status = "none" => todo'[q].claim # "held"
                            /\ todo'[q].status = "pending" => todo'[q].version >= 1
  BY <1>2, <1>3, <1>6 DEF SweepInv
<1> QED BY <1>5, <1>8, <1>9, <1>10 DEF SweepInv

\* A worker that moves on and leaves the reminder as it is.
LEMMA StageGoes ==
    ASSUME SweepInv, NEW w \in Workers, On(w),
           sweeper' \in [Workers -> SweeperStates],
           \A v \in Workers : v # w => sweeper'[v] = sweeper[v],
           On(w)' => sweeper'[w].task = sweeper[w].task /\ sweeper'[w].version = sweeper[w].version,
           sweeper'[w].stage # "finish",
           sweeper'[w].stage = "record" /\ sweeper'[w].verdict = "sent" =>
               sweeper[w].task \in disturbed \/ rung'[sweeper[w].task] > 0,
           rung' \in [Reminders -> Nat], \A q \in Reminders : rung'[q] >= rung[q],
           UNCHANGED <<time, todo, closing, disturbed>>, upsets' \in 0 .. MaxUpsets
    PROVE  SweepInv'
<1> DEFINE r == sweeper[w].task
<1>1. r \in Reminders /\ todo \in [Reminders -> Todos] /\ todo[r] \in Todos
      /\ rung \in [Reminders -> Nat]
  BY OnType, SweepTypes DEF SweepInv
<1>2. todo' \in [Reminders -> Todos] /\ \A q \in Reminders : todo'[q] = todo[q] BY <1>1
<1>3. todo[r].claim = "held" => todo[r].status # "none" BY <1>1 DEF SweepInv
<1>4. r \notin disturbed => /\ todo'[r].notified => todo'[r].outcome # "pending"
                            /\ todo'[r].outcome = "sent" => rung'[r] > 0
  BY <1>1, <1>2 DEF SweepInv, RS!RetiredWithVerdict
<1> HIDE DEF r
<1> QED BY <1>1, <1>2, <1>3, <1>4, HolderGoes DEF r

LEMMA Delivers ==
    ASSUME SweepInv, RS!SweepAssumption, NEW w \in Workers,
           RS!Pushes(w) \/ RS!MarksPushed(w) \/ RS!GivesUp(w) \/ RS!SendsNothing(w) \/ RS!Sends(w)
    PROVE  SweepInv'
<1> DEFINE r == sweeper[w].task
<1>0. /\ sweeper \in [Workers -> SweeperStates] /\ rung \in [Reminders -> Nat]
      /\ todo \in [Reminders -> Todos] /\ upsets \in 0 .. MaxUpsets
  BY SweepTypes DEF SweepInv
<1>1. sweeper[w].stage \in {"push", "mark", "whatsapp"}
  BY DEF RS!Pushes, RS!MarksPushed, RS!GivesUp, RS!SendsNothing, RS!Sends
<1>2. sweeper[w] \in Delivering /\ On(w)
  BY <1>0, <1>1 DEF SweeperStates, Recording, Finishing, RS!Off, On
<1>3. r \in Reminders /\ sweeper[w].version \in 1 .. MaxMoves + 1 BY <1>2 DEF Delivering
<1>4. \A st \in {"push", "mark", "whatsapp"} :
          LET s == [sweeper[w] EXCEPT !.stage = st]
          IN  s \in SweeperStates /\ s.stage = st /\ s.task = r /\ s.version = sweeper[w].version
  BY <1>2 DEF SweeperStates, Delivering
<1>5. \A v \in {"sent", "skipped", "failed", "retry"} :
          LET s == [stage |-> "record", task |-> r, version |-> sweeper[w].version, verdict |-> v]
          IN  s \in SweeperStates /\ s.stage = "record" /\ s.verdict = v /\ s.task = r
              /\ s.version = sweeper[w].version
  BY <1>3 DEF SweeperStates, Recording
<1>6. CASE RS!Pushes(w)
  <2>1. PICK st \in {"mark", "whatsapp"} : sweeper' = [sweeper EXCEPT ![w] = [sweeper[w] EXCEPT !.stage = st]]
    BY <1>6 DEF RS!Pushes, RS!Goes, RS!At
  <2>2. UNCHANGED <<time, todo, closing, rung, disturbed, upsets>> BY <1>6 DEF RS!Pushes
  <2> QED BY <1>0, <1>2, <1>4, <2>1, <2>2, StageGoes
<1>7. CASE RS!MarksPushed(w)
  <2> DEFINE t == [todo[r] EXCEPT !.pushed = TRUE]
             s == [sweeper[w] EXCEPT !.stage = "whatsapp"]
  <2>1. /\ t \in Todos /\ t.status = todo[r].status /\ t.version = todo[r].version
        /\ t.claim = todo[r].claim /\ t.notified = todo[r].notified /\ t.outcome = todo[r].outcome
    BY <1>0, <1>3 DEF Todos
  <2>2. /\ todo' = [todo EXCEPT ![r] = t] /\ sweeper' = [sweeper EXCEPT ![w] = s]
        /\ UNCHANGED <<time, closing, rung, disturbed, upsets>>
    BY <1>7 DEF RS!MarksPushed, RS!Set, RS!Goes, RS!At
  <2>3. s \in SweeperStates /\ s.stage = "whatsapp" /\ s.task = r /\ s.version = sweeper[w].version
    BY <1>4
  <2> HIDE DEF t, s
  <2>4. r \notin disturbed => /\ t.notified => t.outcome # "pending"
                              /\ t.outcome = "sent" => rung'[r] > 0
    BY <1>3, <2>1, <2>2 DEF SweepInv, RS!RetiredWithVerdict
  <2>5. t.claim = "held" => todo[r].status # "none" BY <1>3, <2>1 DEF SweepInv
  <2>6. /\ todo' \in [Reminders -> Todos] /\ todo'[r] = t
        /\ \A q \in Reminders : q # r => todo'[q] = todo[q]
        /\ sweeper' \in [Workers -> SweeperStates] /\ sweeper'[w] = s
        /\ \A v_ \in Workers : v_ # w => sweeper'[v_] = sweeper[v_]
    BY <1>0, <1>3, <2>1, <2>2, <2>3
  <2>7. r \notin disturbed => /\ todo'[r].notified => todo'[r].outcome # "pending"
                              /\ todo'[r].outcome = "sent" => rung'[r] > 0
    BY <2>4, <2>6
  <2>8. /\ sweeper'[w].stage = "whatsapp" /\ sweeper'[w].task = r
        /\ sweeper'[w].version = sweeper[w].version
        /\ todo'[r].status = todo[r].status /\ todo'[r].version = todo[r].version
        /\ todo'[r].claim = todo[r].claim /\ todo'[r].notified = todo[r].notified
        /\ (todo'[r].claim = "held" => todo[r].status # "none")
    BY <2>1, <2>3, <2>5, <2>6
  <2>9. /\ rung' \in [Reminders -> Nat] /\ upsets' \in 0 .. MaxUpsets
        /\ \A q \in Reminders : rung'[q] >= rung[q]
    BY <1>0, <2>2
  <2> HIDE DEF r
  <2> QED BY <1>2, <2>2, <2>6, <2>7, <2>8, <2>9, HolderGoes DEF r
<1>8. CASE RS!GivesUp(w) \/ RS!SendsNothing(w)
  <2>1. PICK v \in {"failed", "skipped", "retry"} :
            sweeper' = [sweeper EXCEPT ![w] = [stage |-> "record", task |-> r,
                                               version |-> sweeper[w].version, verdict |-> v]]
    BY <1>8 DEF RS!GivesUp, RS!SendsNothing, RS!Verdict, RS!At
  <2>2. UNCHANGED <<time, todo, closing, rung, disturbed, upsets>>
    BY <1>8 DEF RS!GivesUp, RS!SendsNothing
  <2> QED BY <1>0, <1>2, <1>5, <2>1, <2>2, StageGoes
<1>9. CASE RS!Sends(w)
  <2>1. sweeper' = [sweeper EXCEPT ![w] = [stage |-> "record", task |-> r,
                                           version |-> sweeper[w].version, verdict |-> "sent"]]
    BY <1>9 DEF RS!Sends, RS!Verdict, RS!At
  <2>2. /\ rung' = IF sweeper[w].version = todo[r].version
                   THEN [rung EXCEPT ![r] = @ + 1] ELSE rung
        /\ UNCHANGED <<time, todo, closing, disturbed, upsets>>
    BY <1>9 DEF RS!Sends
  <2>3. rung' \in [Reminders -> Nat] /\ \A q \in Reminders : rung'[q] >= rung[q]
    BY <1>0, <1>3, <2>2
  <2>4. r \in disturbed \/ rung'[r] > 0
    BY <1>0, <1>2, <1>3, <2>2 DEF SweepInv, Undisturbed
  <2> QED BY <1>0, <1>2, <1>5, <2>1, <2>2, <2>3, <2>4, StageGoes
<1> QED BY <1>6, <1>7, <1>8, <1>9

LEMMA RecordsAndFinishes ==
    ASSUME SweepInv, RS!SweepAssumption, NEW w \in Workers,
           RS!Records(w) \/ RS!LosesRecord(w) \/ RS!Finishes(w) \/ RS!Stops(w)
    PROVE  SweepInv'
<1> DEFINE r == sweeper[w].task
<1>0. /\ sweeper \in [Workers -> SweeperStates] /\ rung \in [Reminders -> Nat]
      /\ todo \in [Reminders -> Todos] /\ upsets \in 0 .. MaxUpsets
      /\ RS!Upset => upsets' \in 0 .. MaxUpsets
  BY SweepTypes DEF SweepInv, RS!Upset, RS!SweepAssumption
<1>1. On(w)
  BY DEF RS!Records, RS!LosesRecord, RS!Finishes, RS!Stops, On, RS!Off
<1>2. r \in Reminders /\ sweeper[w].version \in 1 .. MaxMoves + 1 BY <1>1, OnType DEF SweepInv
<1>3. RS!Off \in SweeperStates /\ RS!Off.stage = "idle" BY DEF SweeperStates, RS!Off
<1>4. todo[r].claim = "held" => todo[r].status # "none" BY <1>2 DEF SweepInv
<1>5. CASE RS!Records(w)
  <2> DEFINE v == sweeper[w].verdict
             t == [todo[r] EXCEPT !.outcome = IF v = "retry" THEN "pending" ELSE v,
                                  !.attempts = @ + 1]
             f == [stage |-> "finish", task |-> r, version |-> sweeper[w].version]
  <2>1. sweeper[w] \in Recording
    BY <1>0, <1>5 DEF RS!Records, SweeperStates, Delivering, Finishing, RS!Off
  <2>2. v \in {"sent", "skipped", "failed", "retry"} BY <2>1 DEF Recording
  <2> DEFINE e == IF v = "retry" THEN "pending" ELSE v
             n == todo[r].attempts + 1
  <2>11. e \in RS!Outcomes /\ n \in Nat /\ t = [todo[r] EXCEPT !.outcome = e, !.attempts = n]
         /\ todo[r] \in Todos
    BY <1>0, <1>2, <2>2 DEF RS!Outcomes, Todos
  <2> HIDE DEF e, n
  <2>12. /\ t \in Todos /\ t.status = todo[r].status /\ t.version = todo[r].version
         /\ t.claim = todo[r].claim /\ t.notified = todo[r].notified /\ t.outcome = e
    BY <2>11 DEF Todos
  <2>3. /\ t \in Todos /\ t.status = todo[r].status /\ t.version = todo[r].version
        /\ t.claim = todo[r].claim /\ t.notified = todo[r].notified
        /\ t.outcome = IF v = "retry" THEN "pending" ELSE v
    BY <2>12 DEF e
  <2>4. /\ todo' = [todo EXCEPT ![r] = t] /\ UNCHANGED <<time, closing, rung, disturbed, upsets>>
        /\ sweeper' = [sweeper EXCEPT ![w] = IF v # "retry" THEN f ELSE RS!Off]
    BY <1>5 DEF RS!Records, RS!Set, RS!At, RS!EndsDelivery
  <2>5. f \in SweeperStates /\ f.stage = "finish" /\ f.task = r /\ f.version = sweeper[w].version
    BY <1>2 DEF SweeperStates, Finishing
  <2>6. sweeper[w].stage = "record" BY <1>5 DEF RS!Records
  <2>7. r \notin disturbed => Undisturbed(w) BY <1>1 DEF SweepInv
  <2>8. r \notin disturbed => ~todo[r].notified /\ (v = "sent" => rung[r] > 0)
    BY <2>6, <2>7 DEF Undisturbed
  <2>13. /\ rung' \in [Reminders -> Nat] /\ upsets' \in 0 .. MaxUpsets
         /\ \A q \in Reminders : rung'[q] = rung[q]
    BY <1>0, <2>4
  <2> HIDE DEF t, f, v, r
  <2> DEFINE s == IF v # "retry" THEN f ELSE RS!Off
  <2>14. s \in SweeperStates BY <1>3, <2>5
  <2>15. /\ todo' \in [Reminders -> Todos] /\ todo'[r] = t
         /\ \A q \in Reminders : q # r => todo'[q] = todo[q]
         /\ sweeper' \in [Workers -> SweeperStates] /\ sweeper'[w] = s
         /\ \A v_ \in Workers : v_ # w => sweeper'[v_] = sweeper[v_]
    BY <1>0, <1>2, <2>3, <2>4, <2>14
  <2>16. /\ todo'[r].status = todo[r].status /\ todo'[r].version = todo[r].version
         /\ todo'[r].claim = todo[r].claim /\ todo'[r].notified = todo[r].notified
         /\ todo'[r].outcome = IF v = "retry" THEN "pending" ELSE v
         /\ todo'[r].claim = "held" => todo[r].status # "none"
    BY <1>4, <2>3, <2>15
  <2>17. On(w)' => v # "retry" /\ sweeper'[w] = f BY <2>15 DEF On
  <2>18. On(w)' => /\ sweeper'[w].stage = "finish" /\ sweeper'[w].task = r
                   /\ sweeper'[w].version = sweeper[w].version /\ todo'[r].outcome # "pending"
    BY <2>2, <2>5, <2>16, <2>17
  <2>19. r \notin disturbed => /\ todo'[r].notified => todo'[r].outcome # "pending"
                               /\ todo'[r].outcome = "sent" => rung'[r] > 0
    BY <1>2, <2>8, <2>13, <2>16 DEF r
  <2>20. \A q \in Reminders : rung'[q] >= rung[q] BY <1>0, <2>13
  <2> HIDE DEF s
  <2> QED BY <1>1, <2>4, <2>13, <2>15, <2>16, <2>18, <2>19, <2>20, HolderGoes DEF r
<1>6. CASE RS!LosesRecord(w)
  <2> DEFINE s == [stage |-> "record", task |-> r, version |-> sweeper[w].version, verdict |-> "retry"]
  <2>1. /\ sweeper' = [sweeper EXCEPT ![w] = s] /\ upsets' \in 0 .. MaxUpsets
        /\ UNCHANGED <<time, todo, closing, rung, disturbed>>
    BY <1>0, <1>6 DEF RS!LosesRecord, RS!Verdict, RS!At
  <2>2. s \in SweeperStates /\ s.stage = "record" /\ s.verdict = "retry" /\ s.task = r
        /\ s.version = sweeper[w].version
    BY <1>2 DEF SweeperStates, Recording
  <2> HIDE DEF s
  <2> QED BY <1>0, <1>1, <2>1, <2>2, StageGoes
<1>7. CASE RS!Finishes(w)
  <2> DEFINE t == [todo[r] EXCEPT !.notified = TRUE, !.claim = "free"]
  <2>1. /\ t \in Todos /\ t.status = todo[r].status /\ t.version = todo[r].version
        /\ t.claim = "free" /\ t.outcome = todo[r].outcome
    BY <1>0, <1>2 DEF Todos
  <2>2. /\ todo' = [todo EXCEPT ![r] = t] /\ sweeper' = [sweeper EXCEPT ![w] = RS!Off]
        /\ UNCHANGED <<time, closing, rung, disturbed, upsets>>
    BY <1>7 DEF RS!Finishes, RS!Set, RS!At
  <2>3. r \notin disturbed => todo[r].outcome # "pending" /\ (todo[r].outcome = "sent" => rung[r] > 0)
    BY <1>1, <1>2, <1>7 DEF RS!Finishes, SweepInv, Undisturbed, RS!RetiredWithVerdict
  <2> HIDE DEF t
  <2>4. /\ todo' \in [Reminders -> Todos] /\ todo'[r] = t
        /\ \A q \in Reminders : q # r => todo'[q] = todo[q]
        /\ sweeper' \in [Workers -> SweeperStates] /\ ~On(w)'
        /\ \A v \in Workers : v # w => sweeper'[v] = sweeper[v]
    BY <1>0, <1>2, <1>3, <2>1, <2>2 DEF On
  <2>5. /\ todo'[r].status = todo[r].status /\ todo'[r].version = todo[r].version
        /\ todo'[r].claim # "held"
        /\ r \notin disturbed => /\ todo'[r].notified => todo'[r].outcome # "pending"
                                 /\ todo'[r].outcome = "sent" => rung'[r] > 0
    BY <2>1, <2>2, <2>3, <2>4
  <2>6. /\ rung' \in [Reminders -> Nat] /\ upsets' \in 0 .. MaxUpsets
        /\ \A q \in Reminders : rung'[q] >= rung[q]
    BY <1>0, <2>2
  <2> HIDE DEF r
  <2> QED BY <1>1, <2>2, <2>4, <2>5, <2>6, HolderGoes DEF r
<1>8. CASE RS!Stops(w)
  <2>1. /\ sweeper' = [sweeper EXCEPT ![w] = RS!Off] /\ upsets' \in 0 .. MaxUpsets
        /\ UNCHANGED <<time, todo, closing, rung, disturbed>>
    BY <1>0, <1>8 DEF RS!Stops, RS!At
  <2>2. /\ sweeper' \in [Workers -> SweeperStates] /\ ~On(w)' /\ sweeper'[w].stage = "idle"
        /\ \A v \in Workers : v # w => sweeper'[v] = sweeper[v]
    BY <1>0, <1>3, <2>1 DEF On
  <2>3. rung' \in [Reminders -> Nat] /\ \A q \in Reminders : rung'[q] >= rung[q]
    BY <1>0, <2>1
  <2> QED BY <1>1, <2>1, <2>2, <2>3, StageGoes
<1> QED BY <1>5, <1>6, <1>7, <1>8

LEMMA SweepStep == SweepInv /\ RS!SweepAssumption /\ [RS!Next]_reminding => SweepInv'
<1> SUFFICES ASSUME SweepInv, RS!SweepAssumption, [RS!Next]_reminding PROVE SweepInv'
  OBVIOUS
<1>1. CASE RS!Tick
  <2>1. time' \in 0 .. LastDue
    BY <1>1 DEF RS!Tick, SweepInv, RS!TypeOK, RS!SweepAssumption
  <2> QED BY <1>1, <2>1 DEF RS!Tick, SweepInv, RS!TypeOK, RS!RetiredWithVerdict, Undisturbed, On
<1>2. ASSUME NEW r \in Reminders, RS!LeaseExpires(r) PROVE SweepInv'
  <2> DEFINE t == [todo[r] EXCEPT !.claim = "expired"]
  <2>0. /\ todo \in [Reminders -> Todos] /\ todo[r] \in Todos /\ rung \in [Reminders -> Nat]
        /\ closing \subseteq Reminders /\ upsets \in 0 .. MaxUpsets
    BY SweepTypes DEF SweepInv
  <2>1. /\ t \in Todos /\ t.status = todo[r].status /\ t.version = todo[r].version
        /\ t.notified = todo[r].notified /\ t.outcome = todo[r].outcome
    BY <2>0 DEF Todos
  <2>2. /\ todo' = [todo EXCEPT ![r] = t] /\ todo[r].claim = "held"
        /\ UNCHANGED <<time, sweeper, closing, rung>>
        /\ disturbed' = IF RS!Held(r) THEN disturbed \cup {r} ELSE disturbed
    BY <1>2 DEF RS!LeaseExpires, RS!Set
  <2>3. upsets' \in 0 .. MaxUpsets
    BY <1>2, <2>0 DEF RS!LeaseExpires, RS!Upset, RS!SweepAssumption
  <2> HIDE DEF t
  <2>9. /\ todo' \in [Reminders -> Todos] /\ todo'[r] = t
        /\ \A q \in Reminders : q # r => todo'[q] = todo[q]
    BY <2>0, <2>1, <2>2
  <2>4. /\ t.status # "none" /\ (t.status = "pending" => t.version >= 1)
        /\ r \notin disturbed => /\ t.notified => t.outcome # "pending"
                                 /\ t.outcome = "sent" => rung'[r] > 0
    BY <2>1, <2>2 DEF SweepInv, RS!RetiredWithVerdict
  <2> QED BY <2>0, <2>1, <2>2, <2>3, <2>4, <2>9, TaskWritten
<1>3. CASE UNCHANGED reminding
  BY <1>3 DEF reminding, SweepInv, RS!TypeOK, RS!RetiredWithVerdict, Undisturbed, On
<1> QED BY <1>1, <1>2, <1>3, OwnerWritesTask, ClaimsReminder, Delivers, RecordsAndFinishes
        DEF RS!Next, RS!Sweep

-----------------------------------------------------------------------------
(* HandsetAlarms. *)

PlainPhones == [stage : {"page", "cursor"}, page : HA!Pages, later : SUBSET Tasks]
ArmingPhones ==
    [stage : {"schedule", "store"}, page : HA!Pages, later : SUBSET Tasks,
     wanted : SUBSET Tasks, todo : SUBSET Tasks]
ServerTasks ==
    {HA!Absent} \cup
    [status : {"pending", "closed"}, due : HA!Instants, version : 1 .. MaxVersion]

HandTypes ==
    /\ clock \in 0 .. MaxTime
    /\ task \in [Tasks -> ServerTasks]
    /\ fresh \subseteq Tasks /\ missed \subseteq Tasks
    /\ phone \in {HA!Idle} \cup PlainPhones \cup ArmingPhones
    /\ phone.stage \in {"schedule", "store"} =>
           phone.wanted \subseteq HA!Listed /\ phone.todo \subseteq phone.wanted
    /\ alarms \in [Tasks -> HA!Instants \cup {HA!NoTime}]
    /\ armed \in [Tasks -> 0 .. MaxVersion]
    /\ granted \in BOOLEAN
    /\ upheavals \in 0 .. MaxUpheavals

Live(r) == task[r].status = "pending" /\ task[r].due > clock
Rings(r) == alarms[r] # HA!NoTime

\* A reminder as it should be on the handset: with the alarm of the server's
\* version of it, and that version as the one armed.
Good(r) == alarms[r] = HA!ProperAlarm(r) /\ (Rings(r) => armed[r] = task[r].version)

\* Of any reminder at any moment: an alarm is ahead, it is of the version armed
\* if that is the server's, and what is not to be looked at again is good.
AlarmOf(r) ==
    /\ Rings(r) => alarms[r] > clock /\ task[r].status # "none"
    /\ armed[r] <= task[r].version
    /\ Rings(r) /\ armed[r] = task[r].version => alarms[r] = task[r].due
    /\ r \notin fresh \cup missed => Good(r)

\* A row of the page, which is what the server has unless it was written later.
RowOf(r) ==
    /\ task[r].status # "none" /\ HA!Page[r].version <= task[r].version
    /\ HA!Page[r].version = task[r].version => HA!Page[r].due = task[r].due
    /\ r \notin phone.later =>
           /\ HA!Page[r].version = task[r].version
           /\ HA!Page[r].schedulable => task[r].status = "pending"
           /\ Live(r) => HA!Page[r].schedulable

\* How far the sync is with a row, stage by stage.
StageOf(r) ==
    /\ phone.stage = "page" =>
           /\ armed[r] <= HA!Page[r].version
           /\ Rings(r) /\ armed[r] = HA!Page[r].version => alarms[r] = HA!Page[r].due
    /\ phone.stage = "schedule" =>
           /\ armed[r] <= HA!Page[r].version
           /\ Rings(r) => r \in phone.wanted \ phone.todo /\ alarms[r] = HA!Page[r].due
           /\ r \notin phone.later =>
                  /\ r \in phone.wanted => HA!Page[r].schedulable
                  /\ Live(r) => r \in phone.todo \/ alarms[r] = HA!Page[r].due
    /\ phone.stage = "store" =>
           /\ Rings(r) => r \in phone.wanted /\ alarms[r] = HA!Page[r].due
           /\ r \notin phone.later => alarms[r] = HA!ProperAlarm(r)

SyncOf(r) ==
    /\ r \in HA!Listed => RowOf(r) /\ StageOf(r)
    /\ r \in phone.later => r \in fresh
    /\ r \notin HA!Listed \cup phone.later => r \notin fresh \/ task[r].status = "none"
    /\ phone.stage = "schedule" /\ r \in phone.todo => r \in fresh \cup missed
    /\ phone.stage = "cursor" /\ r \notin phone.later \cup missed => Good(r)

HandInv ==
    /\ HandTypes
    /\ \A r \in Tasks : AlarmOf(r) /\ (phone # HA!Idle => SyncOf(r))

LEMMA HandFacts ==
    ASSUME HandTypes, NEW r \in Tasks
    PROVE  /\ clock \in Int /\ alarms[r] \in Int /\ armed[r] \in Nat
           /\ task[r] \in ServerTasks /\ task[r].due \in Int /\ task[r].version \in Nat
           /\ task[r].status \in {"none", "pending", "closed"}
           /\ task[r].status # "none" => task[r].due # HA!NoTime
           /\ task[r].status = "none" => task[r] = HA!Absent
           /\ (alarms[r] # HA!NoTime => alarms[r] \in HA!Instants)
  BY DEF HandTypes, ServerTasks, HA!Absent, HA!NoTime, HA!Instants

LEMMA PhoneFacts ==
    ASSUME HandTypes, phone # HA!Idle
    PROVE  /\ phone \in PlainPhones \cup ArmingPhones
           /\ phone.stage \in {"page", "cursor", "schedule", "store"}
           /\ phone.later \subseteq Tasks /\ HA!Page \in HA!Pages /\ HA!Listed \subseteq Tasks
           /\ \A r \in HA!Listed : /\ HA!Page[r] \in HA!Snapshots
                                   /\ HA!Page[r].version \in Nat /\ HA!Page[r].due \in Int
                                   /\ HA!Page[r].due # HA!NoTime
                                   /\ HA!Page[r].schedulable \in BOOLEAN
<1>1. phone \in PlainPhones \cup ArmingPhones BY DEF HandTypes
<1>2. /\ phone.stage \in {"page", "cursor", "schedule", "store"}
      /\ phone.later \subseteq Tasks /\ HA!Page \in HA!Pages
  BY <1>1 DEF PlainPhones, ArmingPhones, HA!Page
<1>3. PICK seen \in SUBSET Tasks : HA!Page \in [seen -> HA!Snapshots] BY <1>2 DEF HA!Pages
<1>4. HA!Listed = seen BY <1>3 DEF HA!Listed
<1> QED BY <1>1, <1>2, <1>3, <1>4 DEF HA!Snapshots, HA!NoTime, HA!Instants

LEMMA IdleStage == HA!Idle.stage = "idle" BY DEF HA!Idle

LEMMA HandStarts == HA!Init /\ HA!HandsetAssumption => HandInv
<1> SUFFICES ASSUME HA!Init, HA!HandsetAssumption PROVE HandInv OBVIOUS
<1>1. HandTypes
  BY IdleStage DEF HA!Init, HA!HandsetAssumption, HandTypes, ServerTasks
<1>2. \A r \in Tasks : AlarmOf(r)
  BY DEF HA!Init, AlarmOf, Rings, Good, HA!ProperAlarm, HA!Absent, HA!NoTime
<1> QED BY <1>1, <1>2 DEF HandInv, HA!Init

LEMMA HandPromises == HandInv => HA!TypeOK /\ HA!InStep
<1> SUFFICES ASSUME HandInv PROVE HA!TypeOK /\ HA!InStep OBVIOUS
<1>1. HA!TypeOK
  <2>1. CASE phone = HA!Idle BY <2>1, IdleStage DEF HandInv, HandTypes, HA!TypeOK, ServerTasks
  <2>2. CASE phone # HA!Idle
    BY <2>2, PhoneFacts DEF HandInv, HandTypes, HA!TypeOK, ServerTasks, HA!Page
  <2> QED BY <2>1, <2>2
<1>2. HA!InStep BY DEF HandInv, HA!InStep, AlarmOf, Good
<1> QED BY <1>1, <1>2

\* A reminder written elsewhere is fresh, and one the sync has to look at again.
LEMMA TaskChanged ==
    ASSUME HandInv, NEW r \in Tasks, NEW t \in ServerTasks, HA!Write(r, t),
           t.status # "none", t.version \in Nat, t.version >= task[r].version,
           task[r].status # "none" /\ t.version = task[r].version => t.due = task[r].due
    PROVE  HandInv'
<1>1. /\ task' = [task EXCEPT ![r] = t] /\ fresh' = fresh \cup {r}
      /\ phone' = IF phone = HA!Idle THEN phone ELSE [phone EXCEPT !.later = @ \cup {r}]
      /\ UNCHANGED <<clock, alarms, armed, granted, missed, upheavals>>
  BY DEF HA!Write
<1>2. /\ task' \in [Tasks -> ServerTasks] /\ fresh' \subseteq Tasks /\ task'[r] = t
      /\ \A q \in Tasks : q # r => task'[q] = task[q]
  BY <1>1 DEF HandInv, HandTypes
<1>3. phone' # HA!Idle =>
          /\ phone # HA!Idle /\ phone'.stage = phone.stage /\ HA!Page' = HA!Page
          /\ HA!Listed' = HA!Listed /\ phone'.later = phone.later \cup {r}
          /\ phone'.later \subseteq Tasks /\ phone' \in PlainPhones \cup ArmingPhones
          /\ phone.stage \in {"schedule", "store"} =>
                 phone'.wanted = phone.wanted /\ phone'.todo = phone.todo
  <2> SUFFICES ASSUME phone # HA!Idle, phone' = [phone EXCEPT !.later = @ \cup {r}]
               PROVE  /\ phone'.stage = phone.stage /\ HA!Page' = HA!Page
                      /\ HA!Listed' = HA!Listed /\ phone'.later = phone.later \cup {r}
                      /\ phone'.later \subseteq Tasks /\ phone' \in PlainPhones \cup ArmingPhones
                      /\ phone.stage \in {"schedule", "store"} =>
                             phone'.wanted = phone.wanted /\ phone'.todo = phone.todo
    BY <1>1
  <2>1. CASE phone \in PlainPhones
    BY <2>1 DEF PlainPhones, HA!Page, HA!Listed
  <2>2. CASE phone \in ArmingPhones
    BY <2>2 DEF ArmingPhones, HA!Page, HA!Listed
  <2> QED BY <2>1, <2>2, PhoneFacts DEF HandInv
<1>4. HandTypes'
  BY <1>1, <1>2, <1>3, IdleStage DEF HandInv, HandTypes
<1>5. ASSUME NEW q \in Tasks PROVE AlarmOf(q)' /\ (phone' # HA!Idle => SyncOf(q)')
  <2>1. AlarmOf(q) /\ (phone # HA!Idle => SyncOf(q)) BY DEF HandInv
  <2>2. CASE q # r
    <3>1. /\ task'[q] = task[q] /\ (q \in fresh' <=> q \in fresh)
          /\ (Live(q)' <=> Live(q)) /\ (Rings(q)' <=> Rings(q)) /\ (Good(q)' <=> Good(q))
          /\ HA!ProperAlarm(q)' = HA!ProperAlarm(q)
      BY <1>1, <1>2, <2>2 DEF Live, Rings, Good, HA!ProperAlarm
    <3>2. AlarmOf(q)' BY <1>1, <2>1, <3>1 DEF AlarmOf
    <3>3. ASSUME phone' # HA!Idle PROVE SyncOf(q)'
      <4>1. SyncOf(q) /\ (q \in phone'.later <=> q \in phone.later) BY <1>3, <2>1, <2>2, <3>3
      <4>2. q \in HA!Listed => RowOf(q)' BY <1>3, <3>1, <3>3, <4>1 DEF SyncOf, RowOf
      <4>3. q \in HA!Listed => StageOf(q)' BY <1>1, <1>3, <3>1, <3>3, <4>1 DEF SyncOf, StageOf
      <4> QED BY <1>1, <1>3, <3>1, <3>3, <4>1, <4>2, <4>3 DEF SyncOf
    <3> QED BY <3>2, <3>3
  <2>3. CASE q = r
    <3>1. /\ armed[r] \in Nat /\ task[r].version \in Nat BY HandFacts DEF HandInv
    <3>2. r \in fresh' /\ (Rings(r)' <=> Rings(r)) BY <1>1 DEF Rings
    <3>3. AlarmOf(r)' BY <1>1, <1>2, <2>1, <2>3, <3>1, <3>2 DEF AlarmOf
    <3>4. ASSUME phone' # HA!Idle PROVE SyncOf(r)'
      <4>1. SyncOf(r) /\ r \in phone'.later BY <1>3, <2>1, <2>3, <3>4
      <4>4. r \in HA!Listed => HA!Page[r].version \in Nat BY <1>3, <3>4, PhoneFacts DEF HandInv
      <4>2. r \in HA!Listed => RowOf(r)' BY <1>2, <1>3, <3>1, <3>4, <4>1, <4>4 DEF SyncOf, RowOf
      <4>3. r \in HA!Listed => StageOf(r)' BY <1>1, <1>3, <3>2, <3>4, <4>1 DEF SyncOf, StageOf
      <4> QED BY <1>1, <1>3, <3>2, <3>4, <4>1, <4>2, <4>3 DEF SyncOf
    <3> QED BY <2>3, <3>3, <3>4
  <2> QED BY <2>2, <2>3
<1> QED BY <1>4, <1>5 DEF HandInv

LEMMA OwnerChangesTask ==
    ASSUME HandInv, HA!HandsetAssumption, NEW r \in Tasks,
           HA!Close(r) \/ \E when \in HA!Instants : HA!Create(r, when) \/ HA!Reschedule(r, when)
    PROVE  HandInv'
<1>0. /\ task[r] \in ServerTasks /\ task[r].version \in Nat /\ MaxVersion \in Nat \ {0}
      /\ task[r].status = "none" => task[r] = HA!Absent
      /\ task[r].status # "none" =>
             task[r] \in [status : {"pending", "closed"}, due : HA!Instants, version : 1 .. MaxVersion]
  BY HandFacts DEF HandInv, HA!HandsetAssumption, ServerTasks, HA!Absent
<1>1. CASE HA!Close(r)
  <2> DEFINE t == [task[r] EXCEPT !.status = "closed"]
  <2>1. /\ t \in ServerTasks /\ t.status = "closed" /\ t.version = task[r].version
        /\ t.due = task[r].due
    BY <1>0, <1>1 DEF HA!Close, ServerTasks
  <2>2. HA!Write(r, t) BY <1>1 DEF HA!Close
  <2> HIDE DEF t
  <2> QED BY <1>0, <2>1, <2>2, TaskChanged
<1>2. ASSUME NEW when \in HA!Instants, HA!Create(r, when) PROVE HandInv'
  <2> DEFINE t == [status |-> "pending", due |-> when, version |-> 1]
  <2>1. /\ t \in ServerTasks /\ t.status = "pending" /\ t.version = 1 BY <1>0 DEF ServerTasks
  <2>2. HA!Write(r, t) /\ task[r].status = "none" BY <1>2 DEF HA!Create
  <2>3. task[r].version = 0 BY <1>0, <2>2 DEF HA!Absent
  <2> HIDE DEF t
  <2> QED BY <1>0, <2>1, <2>2, <2>3, TaskChanged
<1>3. ASSUME NEW when \in HA!Instants, HA!Reschedule(r, when) PROVE HandInv'
  <2> DEFINE t == [status |-> "pending", due |-> when, version |-> task[r].version + 1]
  <2>1. /\ HA!Write(r, t) /\ task[r].version < MaxVersion BY <1>3 DEF HA!Reschedule
  <2>2. /\ t \in ServerTasks /\ t.status = "pending" /\ t.version = task[r].version + 1
    BY <1>0, <2>1 DEF ServerTasks
  <2> HIDE DEF t
  <2> QED BY <1>0, <2>1, <2>2, TaskChanged
<1> QED BY <1>1, <1>2, <1>3

LEMMA PageIsRead ==
    ASSUME HandInv, HA!SyncFetches PROVE HandInv'
<1> DEFINE rows_ == {r \in fresh \cup HA!Acknowledged : task[r].status # "none"}
           read == [r \in rows_ |-> HA!Serialized(r)]
           p == [stage |-> "page", page |-> read, later |-> {}]
<1>1. phone' = p /\ UNCHANGED <<clock, task, fresh, alarms, armed, granted, missed, upheavals>>
  BY DEF HA!SyncFetches
<1>2. rows_ \subseteq Tasks BY DEF HandInv, HandTypes, HA!Acknowledged
<1>3. \A r \in rows_ : HA!Serialized(r) \in HA!Snapshots
  <2> TAKE r \in rows_
  <2>1. r \in Tasks /\ task[r].status # "none" BY <1>2
  <2>2. task[r].due \in HA!Instants /\ task[r].version \in 1 .. MaxVersion
    BY <2>1 DEF HandInv, HandTypes, ServerTasks, HA!Absent
  <2> QED BY <2>2 DEF HA!Serialized, HA!Snapshots
<1>4. read \in HA!Pages /\ DOMAIN read = rows_
  <2>1. read \in [rows_ -> HA!Snapshots] BY <1>3
  <2> HIDE DEF read
  <2> QED BY <1>2, <2>1 DEF HA!Pages
<1>5. p \in PlainPhones /\ p.stage = "page" /\ p.page = read /\ p.later = {}
  BY <1>4 DEF PlainPhones
<1>6. /\ phone'.stage = "page" /\ HA!Page' = read /\ HA!Listed' = rows_ /\ phone'.later = {}
      /\ phone' \in PlainPhones
  BY <1>1, <1>4, <1>5 DEF HA!Page, HA!Listed
<1>7. HandTypes' BY <1>1, <1>6 DEF HandInv, HandTypes
<1>8. ASSUME NEW r \in Tasks PROVE AlarmOf(r)' /\ SyncOf(r)'
  <2>1. AlarmOf(r) BY DEF HandInv
  <2>2. AlarmOf(r)' BY <1>1, <2>1 DEF AlarmOf, Rings, Good, HA!ProperAlarm
  <2>3. r \in rows_ => /\ HA!Page'[r].due = task[r].due /\ HA!Page'[r].version = task[r].version
                       /\ HA!Page'[r].schedulable = Live(r) /\ task[r].status # "none"
    BY <1>6 DEF HA!Serialized, Live
  <2>4. task[r].version \in Nat BY HandFacts DEF HandInv
  <2>9. /\ task'[r] = task[r] /\ (Live(r)' <=> Live(r)) /\ phone'.later = {}
        /\ Live(r) => task[r].status = "pending"
    BY <1>1, <1>6 DEF Live
  <2>5. ASSUME r \in rows_ PROVE RowOf(r)'
    <3>1. /\ HA!Page'[r].version = task'[r].version /\ HA!Page'[r].due = task'[r].due
          /\ (HA!Page'[r].schedulable <=> Live(r)) /\ task'[r].status # "none"
          /\ HA!Page'[r].version <= task'[r].version
      BY <2>3, <2>4, <2>5, <2>9
    <3> HIDE DEF rows_, read, p
    <3> QED BY <2>9, <3>1 DEF RowOf
  <2>6. r \in rows_ => StageOf(r)' BY <1>1, <1>6, <2>1, <2>3 DEF StageOf, AlarmOf, Rings
  <2>7. r \notin rows_ => r \notin fresh \/ task[r].status = "none" OBVIOUS
  <2> HIDE DEF rows_, read, p
  <2>8. SyncOf(r)' BY <1>1, <1>6, <2>5, <2>6, <2>7 DEF SyncOf
  <2> QED BY <2>2, <2>8
<1> QED BY <1>7, <1>8 DEF HandInv

\* Steps that leave the reminders and the clock as they are, seen per reminder.
LEMMA Unpermitted ==
    ASSUME HandInv, HA!SkipsUnpermitted PROVE HandInv'
<1>1. /\ phone.stage = "page" /\ phone' = [phone EXCEPT !.stage = "cursor"]
      /\ missed' = missed \cup HA!Listed
      /\ UNCHANGED <<clock, task, fresh, alarms, armed, granted, upheavals>>
  BY DEF HA!SkipsUnpermitted
<1>2. phone # HA!Idle /\ phone \in PlainPhones /\ HA!Listed \subseteq Tasks
  <2>1. phone # HA!Idle BY <1>1, IdleStage
  <2> QED BY <1>1, <2>1, PhoneFacts DEF HandInv, ArmingPhones
<1>3. /\ phone'.stage = "cursor" /\ HA!Page' = HA!Page /\ HA!Listed' = HA!Listed
      /\ phone'.later = phone.later /\ phone' \in PlainPhones
  BY <1>1, <1>2 DEF PlainPhones, HA!Page, HA!Listed
<1>4. HandTypes' BY <1>1, <1>2, <1>3 DEF HandInv, HandTypes
<1>5. ASSUME NEW r \in Tasks PROVE AlarmOf(r)' /\ SyncOf(r)'
  <2>1. AlarmOf(r) /\ SyncOf(r) BY <1>2 DEF HandInv
  <2>2. AlarmOf(r)' BY <1>1, <2>1 DEF AlarmOf, Rings, Good, HA!ProperAlarm
  <2>3. r \in HA!Listed => RowOf(r)' BY <1>1, <1>3, <2>1 DEF SyncOf, RowOf, Live
  <2>4. StageOf(r)' BY <1>3 DEF StageOf
  <2>5. task[r].status = "none" => Good(r) BY <2>1 DEF AlarmOf, Good, Rings, HA!ProperAlarm
  <2>6. r \notin phone.later \cup missed' => Good(r)
    BY <1>1, <2>1, <2>5 DEF SyncOf, AlarmOf
  <2>7. Good(r)' <=> Good(r) BY <1>1 DEF Good, Rings, HA!ProperAlarm
  <2> QED BY <1>1, <1>3, <2>1, <2>2, <2>3, <2>4, <2>6, <2>7 DEF SyncOf
<1> QED BY <1>4, <1>5 DEF HandInv

LEMMA StaleIsCancelled ==
    ASSUME HandInv, HA!CancelsStale PROVE HandInv'
<1> DEFINE wanted_ == {r \in HA!Listed : HA!Usable(r)}
           kept_ == {r \in wanted_ : HA!Pending(r) /\ armed[r] = HA!Page[r].version}
           p == [stage |-> "schedule", page |-> HA!Page, later |-> phone.later,
                 wanted |-> wanted_, todo |-> wanted_ \ kept_]
<1>1. /\ phone.stage = "page" /\ phone' = p
      /\ alarms' = [r \in Tasks |-> IF r \in HA!Listed /\ HA!Stale(r) THEN HA!NoTime ELSE alarms[r]]
      /\ UNCHANGED <<clock, task, fresh, armed, granted, missed, upheavals>>
  BY DEF HA!CancelsStale
<1>2. phone # HA!Idle BY <1>1, IdleStage
<1>3. HA!Page \in HA!Pages /\ HA!Listed \subseteq Tasks /\ phone.later \subseteq Tasks
  BY <1>2, PhoneFacts DEF HandInv
<1>4. /\ p \in ArmingPhones /\ p.stage = "schedule" /\ p.page = HA!Page /\ p.later = phone.later
      /\ p.wanted = wanted_ /\ p.todo = wanted_ \ kept_
  BY <1>3 DEF ArmingPhones
<1>5. /\ phone' \in ArmingPhones /\ phone'.stage = "schedule" /\ HA!Page' = HA!Page
      /\ HA!Listed' = HA!Listed /\ phone'.later = phone.later
      /\ phone'.wanted = wanted_ /\ phone'.todo = wanted_ \ kept_
  BY <1>1, <1>4 DEF HA!Page, HA!Listed
<1>6. alarms' \in [Tasks -> HA!Instants \cup {HA!NoTime}] BY <1>1 DEF HandInv, HandTypes
<1>7. phone'.wanted \subseteq HA!Listed' /\ phone'.todo \subseteq phone'.wanted BY <1>5
<1>8. HandTypes' BY <1>1, <1>5, <1>6, <1>7 DEF HandInv, HandTypes
<1>9. ASSUME NEW r \in Tasks PROVE AlarmOf(r)' /\ SyncOf(r)'
  <2>1. AlarmOf(r) /\ SyncOf(r) BY <1>2 DEF HandInv
  <2>2. alarms'[r] = IF r \in HA!Listed /\ HA!Stale(r) THEN HA!NoTime ELSE alarms[r] BY <1>1
  <2>3. /\ (Live(r)' <=> Live(r)) /\ HA!ProperAlarm(r)' = HA!ProperAlarm(r)
        /\ task'[r] = task[r] /\ armed'[r] = armed[r]
    BY <1>1 DEF Live, HA!ProperAlarm
  <2>4. Rings(r)' => Rings(r) /\ alarms'[r] = alarms[r] BY <2>2 DEF Rings
  <2>5. r \in HA!Listed => /\ HA!Page[r].version \in Nat /\ HA!Page[r].due \in Int
                           /\ HA!Page[r].due # HA!NoTime
                           /\ HA!Page[r].schedulable \in BOOLEAN
    BY <1>2, PhoneFacts DEF HandInv
  <2>6. /\ clock \in Int /\ armed[r] \in Nat /\ task[r].version \in Nat /\ task[r].due \in Int
        /\ alarms[r] \in Int
    BY HandFacts DEF HandInv
  <2>7. ASSUME r \in HA!Listed, Rings(r)'
        PROVE  r \in kept_ /\ alarms[r] = HA!Page[r].due /\ HA!Page[r].schedulable
    <3>1. HA!Usable(r) /\ armed[r] = HA!Page[r].version /\ HA!Pending(r)
      BY <2>2, <2>4, <2>7 DEF Rings, HA!Stale, HA!Pending
    <3>2. r \in kept_ BY <2>7, <3>1
    <3> QED BY <1>1, <2>1, <2>4, <2>7, <3>1, <3>2 DEF SyncOf, StageOf, HA!Usable
  <2>8. Good(r) => Good(r)' \/ r \in HA!Listed BY <2>2, <2>3 DEF Good, Rings
  <2>9. r \in HA!Listed /\ r \notin fresh \cup missed => Good(r)'
    <3> SUFFICES ASSUME r \in HA!Listed, r \notin fresh \cup missed PROVE Good(r)' OBVIOUS
    <3>1. Good(r) /\ r \notin phone.later /\ RowOf(r) BY <2>1 DEF AlarmOf, SyncOf
    <3>2. /\ HA!Page[r].version = task[r].version /\ HA!Page[r].due = task[r].due
          /\ Live(r) => HA!Page[r].schedulable
      BY <3>1 DEF RowOf
    <3>3. CASE Rings(r)
      <4>1. Live(r) /\ alarms[r] = task[r].due /\ armed[r] = task[r].version
        BY <3>1, <3>3 DEF Good, Rings, HA!ProperAlarm, Live
      <4>2. ~HA!Stale(r) BY <2>6, <3>2, <4>1 DEF HA!Stale, HA!Usable, Live
      <4> QED BY <2>2, <2>3, <3>1, <4>2 DEF Good, Rings
    <3>4. CASE ~Rings(r)
      <4>1. alarms'[r] = alarms[r] BY <2>2, <3>4 DEF Rings
      <4> QED BY <2>3, <3>1, <4>1 DEF Good, Rings
    <3> QED BY <3>3, <3>4
  <2>10. AlarmOf(r)' BY <1>1, <2>1, <2>3, <2>4, <2>8, <2>9 DEF AlarmOf
  <2>11. r \in HA!Listed => RowOf(r)' BY <1>5, <2>1, <2>3 DEF SyncOf, RowOf
  <2>12. r \in HA!Listed => StageOf(r)'
    <3> SUFFICES ASSUME r \in HA!Listed PROVE StageOf(r)' OBVIOUS
    <3>1. RowOf(r) /\ armed[r] <= HA!Page[r].version BY <1>1, <2>1 DEF SyncOf, StageOf
    <3>2. Rings(r)' => r \in wanted_ \ (wanted_ \ kept_) /\ alarms'[r] = HA!Page[r].due
      BY <2>4, <2>7
    <3>3. r \in wanted_ => HA!Page[r].schedulable BY DEF HA!Usable
    <3>4. ASSUME r \notin phone.later, Live(r), r \notin wanted_ \ kept_
          PROVE  alarms'[r] = HA!Page[r].due
      <4>1. HA!Page[r].schedulable /\ HA!Page[r].due = task[r].due BY <3>1, <3>4 DEF RowOf
      <4>2. HA!Usable(r) BY <3>4, <4>1 DEF HA!Usable, Live
      <4>3. r \in kept_ BY <3>4, <4>2
      <4>4. Rings(r)' BY <2>2, <4>2, <4>3 DEF Rings, HA!Stale, HA!Pending
      <4> QED BY <3>2, <4>4
    <3> HIDE DEF wanted_, kept_, p
    <3> QED BY <1>5, <2>3, <3>1, <3>2, <3>3, <3>4 DEF StageOf
  <2>13. r \in phone'.todo => r \in fresh \cup missed
    <3> SUFFICES ASSUME r \in wanted_ \ kept_, r \notin fresh \cup missed PROVE FALSE BY <1>5
    <3>1. Good(r) /\ r \notin phone.later /\ r \in HA!Listed /\ HA!Usable(r) BY <2>1 DEF AlarmOf, SyncOf
    <3>2. /\ HA!Page[r].version = task[r].version /\ HA!Page[r].due = task[r].due
          /\ task[r].status = "pending"
      BY <2>1, <3>1 DEF SyncOf, RowOf, HA!Usable
    <3>3. Live(r) BY <3>1, <3>2 DEF Live, HA!Usable
    <3>4. alarms[r] = task[r].due /\ Rings(r) /\ armed[r] = task[r].version
      BY <2>5, <3>1, <3>2, <3>3 DEF Good, Live, HA!ProperAlarm, Rings
    <3>5. r \in kept_ BY <3>1, <3>2, <3>4 DEF HA!Pending, Rings
    <3> QED BY <3>5
  <2> HIDE DEF wanted_, kept_, p
  <2>14. SyncOf(r)' BY <1>1, <1>5, <2>1, <2>3, <2>11, <2>12, <2>13 DEF SyncOf
  <2> QED BY <2>10, <2>14
<1> QED BY <1>8, <1>9 DEF HandInv

LEMMA AlarmsAreSet ==
    ASSUME HandInv, HA!Schedules
    PROVE  HandInv' /\ \A r \in Tasks : Rings(r) => alarms'[r] = alarms[r]
<1>1. /\ phone.stage = "schedule" /\ phone' = [phone EXCEPT !.stage = "store"]
      /\ alarms' = [r \in Tasks |-> IF r \in phone.todo /\ HA!Page[r].due > clock
                                    THEN HA!Page[r].due ELSE alarms[r]]
      /\ UNCHANGED <<clock, task, fresh, armed, granted, missed, upheavals>>
  BY DEF HA!Schedules
<1>2. phone # HA!Idle /\ phone \in ArmingPhones
  <2>1. phone # HA!Idle BY <1>1, IdleStage
  <2> QED BY <1>1, <2>1, PhoneFacts DEF HandInv, PlainPhones
<1>3. /\ phone'.stage = "store" /\ HA!Page' = HA!Page /\ HA!Listed' = HA!Listed
      /\ phone'.later = phone.later /\ phone'.wanted = phone.wanted /\ phone'.todo = phone.todo
      /\ phone' \in ArmingPhones
  BY <1>1, <1>2 DEF ArmingPhones, HA!Page, HA!Listed
<1>4. /\ phone.wanted \subseteq HA!Listed /\ phone.todo \subseteq phone.wanted
      /\ HA!Listed \subseteq Tasks
  BY <1>1, <1>2, PhoneFacts DEF HandInv, HandTypes
<1>5. \A r \in phone.todo : HA!Page[r].due \in HA!Instants
  BY <1>2, <1>4, PhoneFacts DEF HandInv, HA!Snapshots
<1>6. alarms' \in [Tasks -> HA!Instants \cup {HA!NoTime}] BY <1>1, <1>5 DEF HandInv, HandTypes
<1>7. HandTypes' BY <1>1, <1>3, <1>4, <1>6 DEF HandInv, HandTypes
<1>8. ASSUME NEW r \in Tasks
      PROVE  AlarmOf(r)' /\ SyncOf(r)' /\ (Rings(r) => alarms'[r] = alarms[r])
  <2>1. AlarmOf(r) /\ SyncOf(r) BY <1>2 DEF HandInv
  <2>2. alarms'[r] = IF r \in phone.todo /\ HA!Page[r].due > clock
                     THEN HA!Page[r].due ELSE alarms[r]
    BY <1>1
  <2>3. /\ (Live(r)' <=> Live(r)) /\ HA!ProperAlarm(r)' = HA!ProperAlarm(r)
        /\ task'[r] = task[r] /\ armed'[r] = armed[r]
    BY <1>1 DEF Live, HA!ProperAlarm
  <2>4. r \in HA!Listed => /\ HA!Page[r].version \in Nat /\ HA!Page[r].due \in Int
                           /\ HA!Page[r].due # HA!NoTime
                           /\ HA!Page[r].schedulable \in BOOLEAN
    BY <1>2, PhoneFacts DEF HandInv
  <2>5. /\ clock \in Int /\ armed[r] \in Nat /\ task[r].version \in Nat /\ task[r].due \in Int
        /\ alarms[r] \in Int
    BY HandFacts DEF HandInv
  <2>6. r \in HA!Listed => StageOf(r) BY <2>1 DEF SyncOf
  <2>7. Rings(r) /\ r \in HA!Listed => r \in phone.wanted \ phone.todo /\ alarms[r] = HA!Page[r].due
    BY <1>1, <2>6 DEF StageOf
  <2>8. Rings(r) => alarms'[r] = alarms[r] BY <1>4, <2>2, <2>7
  <2>9. Rings(r)' /\ r \in HA!Listed => r \in phone.wanted /\ alarms'[r] = HA!Page[r].due
    BY <1>4, <2>2, <2>7, <2>8 DEF Rings
  <2>10. r \notin fresh \cup missed => alarms'[r] = alarms[r]
    BY <1>1, <2>1, <2>2 DEF SyncOf
  <2>11. ASSUME r \in HA!Listed, r \notin phone.later PROVE alarms'[r] = HA!ProperAlarm(r)
    <3>1. RowOf(r) /\ StageOf(r) BY <2>1, <2>11 DEF SyncOf
    <3>2. /\ HA!Page[r].version = task[r].version /\ HA!Page[r].due = task[r].due
          /\ (HA!Page[r].schedulable => task[r].status = "pending")
      BY <2>11, <3>1 DEF RowOf
    <3>3. CASE Live(r)
      <4>1. r \in phone.todo \/ alarms[r] = HA!Page[r].due
        BY <1>1, <2>11, <3>1, <3>3 DEF StageOf
      <4>2. HA!Page[r].due > clock BY <3>2, <3>3 DEF Live
      <4>3. alarms'[r] = HA!Page[r].due BY <2>2, <4>1, <4>2
      <4> QED BY <3>2, <3>3, <4>3 DEF Live, HA!ProperAlarm
    <3>4. CASE ~Live(r)
      <4>1. r \in phone.wanted => task[r].status = "pending"
        BY <1>1, <2>11, <3>1, <3>2 DEF StageOf
      <4>2. ~Rings(r)'
        <5> SUFFICES ASSUME Rings(r)' PROVE FALSE OBVIOUS
        <5>1. r \in phone.wanted /\ alarms'[r] = task[r].due BY <2>9, <2>11, <3>2
        <5>2. CASE Rings(r)
          <6>1. alarms[r] > clock /\ alarms[r] = task[r].due BY <2>1, <2>8, <5>1, <5>2 DEF AlarmOf
          <6> QED BY <3>4, <4>1, <5>1, <6>1 DEF Live
        <5>3. CASE ~Rings(r)
          <6>1. HA!Page[r].due > clock BY <2>2, <5>3 DEF Rings
          <6> QED BY <3>2, <3>4, <4>1, <5>1, <6>1 DEF Live
        <5> QED BY <5>2, <5>3
      <4> QED BY <3>4, <4>2 DEF Rings, Live, HA!ProperAlarm
    <3> QED BY <3>3, <3>4
  <2>12. AlarmOf(r)'
    <3>1. Rings(r)' /\ ~Rings(r) => /\ r \in phone.todo /\ r \in HA!Listed /\ HA!Page[r].due > clock
                                    /\ alarms'[r] = HA!Page[r].due
      BY <1>4, <2>2 DEF Rings
    <3>2. r \in HA!Listed => /\ task[r].status # "none" /\ HA!Page[r].version <= task[r].version
                             /\ HA!Page[r].version = task[r].version => HA!Page[r].due = task[r].due
                             /\ armed[r] <= HA!Page[r].version
      BY <1>1, <2>1, <2>6 DEF SyncOf, RowOf, StageOf
    <3>3. Rings(r)' => alarms'[r] > clock /\ task[r].status # "none"
      BY <2>1, <2>8, <3>1, <3>2 DEF AlarmOf
    <3>4. Rings(r)' /\ armed[r] = task[r].version => alarms'[r] = task[r].due
      BY <2>1, <2>4, <2>5, <2>8, <3>1, <3>2 DEF AlarmOf
    <3>5. r \notin fresh \cup missed => Good(r)'
      BY <2>1, <2>3, <2>10 DEF AlarmOf, Good, Rings
    <3> QED BY <1>1, <2>1, <2>3, <3>3, <3>4, <3>5 DEF AlarmOf
  <2>13. r \in HA!Listed => RowOf(r)' BY <1>3, <2>1, <2>3 DEF SyncOf, RowOf
  <2>14. r \in HA!Listed => StageOf(r)' BY <1>3, <2>3, <2>9, <2>11 DEF StageOf
  <2>15. SyncOf(r)' BY <1>1, <1>3, <2>1, <2>3, <2>13, <2>14 DEF SyncOf
  <2> QED BY <2>8, <2>12, <2>15
<1> QED BY <1>7, <1>8 DEF HandInv

LEMMA ArmedIsStored ==
    ASSUME HandInv, HA!HandsetAssumption, HA!StoresArmed PROVE HandInv'
<1> DEFINE p == [stage |-> "cursor", page |-> HA!Page, later |-> phone.later]
<1>1. /\ phone.stage = "store" /\ phone' = p /\ missed' = missed \ HA!Listed
      /\ armed' = [r \in Tasks |-> IF r \notin HA!Listed THEN armed[r]
                                   ELSE IF r \in phone.wanted THEN HA!Page[r].version ELSE 0]
      /\ UNCHANGED <<clock, task, fresh, alarms, granted, upheavals>>
  BY DEF HA!StoresArmed
<1>2. phone # HA!Idle BY <1>1, IdleStage
<1>3. HA!Page \in HA!Pages /\ HA!Listed \subseteq Tasks /\ phone.later \subseteq Tasks
  BY <1>2, PhoneFacts DEF HandInv
<1>4. p \in PlainPhones /\ p.stage = "cursor" /\ p.page = HA!Page /\ p.later = phone.later
  BY <1>3 DEF PlainPhones
<1>5. /\ phone' \in PlainPhones /\ phone'.stage = "cursor" /\ HA!Page' = HA!Page
      /\ HA!Listed' = HA!Listed /\ phone'.later = phone.later
  BY <1>1, <1>4 DEF HA!Page, HA!Listed
<1>6. armed' \in [Tasks -> 0 .. MaxVersion]
  <2>1. \A r \in HA!Listed : HA!Page[r].version \in 0 .. MaxVersion
    BY <1>2, PhoneFacts DEF HandInv, HA!Snapshots
  <2>2. \A r \in Tasks : armed[r] \in 0 .. MaxVersion BY DEF HandInv, HandTypes
  <2>3. 0 \in 0 .. MaxVersion BY DEF HA!HandsetAssumption
  <2> QED BY <1>1, <2>1, <2>2, <2>3
<1>7. HandTypes' BY <1>1, <1>5, <1>6 DEF HandInv, HandTypes
<1>8. ASSUME NEW r \in Tasks PROVE AlarmOf(r)' /\ SyncOf(r)'
  <2>1. AlarmOf(r) /\ SyncOf(r) BY <1>2 DEF HandInv
  <2>2. armed'[r] = IF r \notin HA!Listed THEN armed[r]
                    ELSE IF r \in phone.wanted THEN HA!Page[r].version ELSE 0
    BY <1>1
  <2>3. /\ (Live(r)' <=> Live(r)) /\ HA!ProperAlarm(r)' = HA!ProperAlarm(r)
        /\ task'[r] = task[r] /\ alarms'[r] = alarms[r] /\ (Rings(r)' <=> Rings(r))
    BY <1>1 DEF Live, HA!ProperAlarm, Rings
  <2>4. /\ task[r].version \in Nat BY HandFacts DEF HandInv
  <2>5. r \in HA!Listed => HA!Page[r].version \in Nat
    BY <1>2, PhoneFacts DEF HandInv
  <2>6. r \notin HA!Listed => SyncOf(r)' /\ AlarmOf(r)'
    <3> SUFFICES ASSUME r \notin HA!Listed PROVE SyncOf(r)' /\ AlarmOf(r)' OBVIOUS
    <3>1. armed'[r] = armed[r] /\ (r \in missed' <=> r \in missed) BY <1>1, <2>2
    <3>2. Good(r)' <=> Good(r) BY <2>3, <3>1 DEF Good
    <3>3. task[r].status = "none" => Good(r) BY <2>1 DEF AlarmOf, Good, HA!ProperAlarm, Rings
    <3>4. AlarmOf(r)' BY <1>1, <2>1, <2>3, <3>1, <3>2 DEF AlarmOf
    <3>5. SyncOf(r)' BY <1>1, <1>5, <2>1, <2>3, <3>1, <3>2, <3>3 DEF SyncOf, AlarmOf
    <3> QED BY <3>4, <3>5
  <2>7. ASSUME r \in HA!Listed PROVE SyncOf(r)' /\ AlarmOf(r)'
    <3>1. RowOf(r) /\ StageOf(r) BY <2>1, <2>7 DEF SyncOf
    <3>2. /\ Rings(r) => r \in phone.wanted /\ alarms[r] = HA!Page[r].due
          /\ r \notin phone.later => alarms[r] = HA!ProperAlarm(r)
      BY <1>1, <3>1 DEF StageOf
    <3>3. /\ HA!Page[r].version <= task[r].version
          /\ HA!Page[r].version = task[r].version => HA!Page[r].due = task[r].due
          /\ r \notin phone.later => HA!Page[r].version = task[r].version
      BY <3>1 DEF RowOf
    <3>4. Rings(r) => armed'[r] = HA!Page[r].version BY <2>2, <2>7, <3>2
    <3>5. armed'[r] <= task[r].version BY <2>2, <2>4, <2>7, <3>3
    <3>6. r \notin phone.later => Good(r)' BY <2>3, <3>2, <3>3, <3>4 DEF Good
    <3>7. r \notin fresh => r \notin phone.later BY <2>1 DEF SyncOf
    <3>8. AlarmOf(r)'
      BY <1>1, <2>1, <2>3, <3>2, <3>3, <3>4, <3>5, <3>6, <3>7 DEF AlarmOf
    <3>9. RowOf(r)' BY <1>5, <2>3, <3>1 DEF RowOf
    <3>10. StageOf(r)' BY <1>5 DEF StageOf
    <3> QED BY <1>1, <1>5, <2>1, <2>3, <2>7, <3>6, <3>8, <3>9, <3>10 DEF SyncOf
  <2> QED BY <2>6, <2>7
<1> QED BY <1>7, <1>8 DEF HandInv

\* Steps that touch neither a reminder nor an alarm, after which no sync goes on.
LEMMA SyncEnds ==
    ASSUME HandInv, phone' = HA!Idle, UNCHANGED <<clock, task, alarms, armed, missed>>,
           granted' \in BOOLEAN, upheavals' \in 0 .. MaxUpheavals,
           fresh' \subseteq Tasks,
           \A r \in Tasks : r \notin fresh' \cup missed => Good(r)
    PROVE  HandInv'
<1>1. HandTypes' BY IdleStage DEF HandInv, HandTypes
<1>2. \A r \in Tasks : AlarmOf(r)' BY DEF HandInv, AlarmOf, Good, Rings, HA!ProperAlarm
<1> QED BY <1>1, <1>2 DEF HandInv

LEMMA CursorIsStored ==
    ASSUME HandInv, HA!StoresCursor PROVE HandInv'
<1>1. /\ phone.stage = "cursor" /\ fresh' = phone.later /\ phone' = HA!Idle
      /\ UNCHANGED <<clock, task, alarms, armed, granted, missed, upheavals>>
  BY DEF HA!StoresCursor
<1>2. phone # HA!Idle BY <1>1, IdleStage
<1>3. phone.later \subseteq Tasks BY <1>2, PhoneFacts DEF HandInv
<1>4. \A r \in Tasks : r \notin fresh' \cup missed => Good(r) BY <1>1, <1>2 DEF HandInv, SyncOf
<1>5. granted' \in BOOLEAN /\ upheavals' \in 0 .. MaxUpheavals BY <1>1 DEF HandInv, HandTypes
<1> QED BY <1>1, <1>3, <1>4, <1>5, SyncEnds

LEMMA UpheavalCounts ==
    ASSUME HandInv, HA!HandsetAssumption, HA!Upheaval PROVE upheavals' \in 0 .. MaxUpheavals
  BY DEF HandInv, HandTypes, HA!HandsetAssumption, HA!Upheaval

LEMMA SyncIsCut ==
    ASSUME HandInv, HA!HandsetAssumption, HA!SyncFails \/ HA!Revoke PROVE HandInv'
<1>1. /\ phone' = HA!Idle /\ UNCHANGED <<clock, task, fresh, alarms, armed, missed>>
      /\ HA!Upheaval /\ granted' \in BOOLEAN
  BY DEF HA!SyncFails, HA!Revoke, HandInv, HandTypes
<1>2. fresh' \subseteq Tasks /\ \A r \in Tasks : r \notin fresh' \cup missed => Good(r)
  BY <1>1 DEF HandInv, HandTypes, AlarmOf
<1> QED BY <1>1, <1>2, UpheavalCounts, SyncEnds

LEMMA NothingMoves ==
    ASSUME HandInv, granted' \in BOOLEAN, upheavals' \in 0 .. MaxUpheavals,
           UNCHANGED <<clock, task, fresh, phone, alarms, armed, missed>>
    PROVE  HandInv'
<1>1. HandTypes' BY DEF HandInv, HandTypes, HA!Listed, HA!Page
<1>2. \A r \in Tasks : AlarmOf(r)' BY DEF HandInv, AlarmOf, Good, Rings, HA!ProperAlarm
<1>3. ASSUME NEW r \in Tasks, phone' # HA!Idle PROVE SyncOf(r)'
  <2>1. SyncOf(r) BY <1>3 DEF HandInv
  <2> QED BY <2>1 DEF SyncOf, RowOf, StageOf, Good, Rings, Live, HA!ProperAlarm, HA!Listed, HA!Page
<1> QED BY <1>1, <1>2, <1>3 DEF HandInv

LEMMA TimePasses ==
    ASSUME HandInv, HA!HandsetAssumption, HA!Tick PROVE HandInv'
<1>1. /\ clock \in Nat /\ clock' = clock + 1 /\ clock' \in 0 .. MaxTime
      /\ UNCHANGED <<task, fresh, phone, armed, granted, missed, upheavals>>
      /\ \A r \in Tasks : alarms'[r] = IF alarms[r] <= clock + 1 THEN HA!NoTime ELSE alarms[r]
  BY DEF HA!Tick, HandInv, HandTypes, HA!HandsetAssumption
<1>2. alarms' \in [Tasks -> HA!Instants \cup {HA!NoTime}]
  BY DEF HA!Tick, HandInv, HandTypes
<1>3. HandTypes' BY <1>1, <1>2 DEF HandInv, HandTypes, HA!Listed, HA!Page
<1>4. ASSUME NEW r \in Tasks PROVE AlarmOf(r)' /\ (phone' # HA!Idle => SyncOf(r)')
  <2>1. AlarmOf(r) /\ (phone # HA!Idle => SyncOf(r)) BY DEF HandInv
  <2>2. /\ clock \in Int /\ alarms[r] \in Int /\ armed[r] \in Nat
        /\ task[r].due \in Int /\ HA!NoTime = -1
        /\ task[r].status # "none" => task[r].due # HA!NoTime
    BY HandFacts DEF HandInv, HA!NoTime
  <2>3. /\ Rings(r)' => Rings(r) /\ alarms'[r] = alarms[r] /\ alarms'[r] > clock'
        /\ Live(r)' => Live(r)
    BY <1>1, <2>2 DEF Rings, Live
  <2>4. alarms[r] = HA!ProperAlarm(r) => alarms'[r] = HA!ProperAlarm(r)'
    BY <1>1, <2>2 DEF HA!ProperAlarm
  <2>5. Good(r) => Good(r)' BY <1>1, <2>3, <2>4 DEF Good
  <2>6. AlarmOf(r)' BY <1>1, <2>1, <2>3, <2>5 DEF AlarmOf
  <2>7. ASSUME phone' # HA!Idle PROVE SyncOf(r)'
    <3>1. SyncOf(r) /\ phone' = phone /\ HA!Page' = HA!Page /\ HA!Listed' = HA!Listed
      BY <1>1, <2>1, <2>7 DEF HA!Page, HA!Listed
    <3>2. RowOf(r) => RowOf(r)' BY <1>1, <2>3, <3>1 DEF RowOf
    <3>4. Live(r)' => (alarms[r] = HA!Page[r].due => alarms'[r] = HA!Page[r].due)
                     \/ r \in phone.later \/ r \notin HA!Listed
      BY <1>1, <2>2, <2>3, <3>1 DEF Live, SyncOf, RowOf
    <3>3. r \in HA!Listed => StageOf(r)'
      BY <1>1, <2>3, <2>4, <3>1, <3>4 DEF StageOf, SyncOf
    <3> QED BY <1>1, <2>5, <3>1, <3>2, <3>3 DEF SyncOf
  <2> QED BY <2>6, <2>7
<1> QED BY <1>3, <1>4 DEF HandInv

LEMMA SyncGoesOn ==
    ASSUME HandInv, HA!HandsetAssumption, HA!Sync PROVE HandInv'
  BY PageIsRead, Unpermitted, StaleIsCancelled, AlarmsAreSet, ArmedIsStored, CursorIsStored,
     SyncIsCut DEF HA!Sync

LEMMA HandStep == HandInv /\ HA!HandsetAssumption /\ [HA!Next]_ringing => HandInv'
<1> SUFFICES ASSUME HandInv, HA!HandsetAssumption, [HA!Next]_ringing PROVE HandInv'
  OBVIOUS
<1>1. CASE HA!Grant
  <2>1. granted' \in BOOLEAN /\ upheavals' \in 0 .. MaxUpheavals
    BY <1>1, UpheavalCounts DEF HA!Grant
  <2> QED BY <1>1, <2>1, NothingMoves DEF HA!Grant
<1>2. CASE UNCHANGED ringing
  <2>1. granted' \in BOOLEAN /\ upheavals' \in 0 .. MaxUpheavals
    BY <1>2 DEF ringing, HandInv, HandTypes
  <2> QED BY <1>2, <2>1, NothingMoves DEF ringing
<1> QED BY <1>1, <1>2, TimePasses, SyncIsCut, SyncGoesOn, OwnerChangesTask DEF HA!Next

\* Of all the steps only Schedules sets an alarm, and not where one is pending.
LEMMA HandNeverStacks ==
    HandInv /\ [HA!Next]_ringing
    => [\A r \in Tasks : alarms[r] # HA!NoTime /\ alarms'[r] # HA!NoTime
                             => alarms'[r] = alarms[r]]_alarms
<1> SUFFICES ASSUME HandInv, HA!Next, NEW r \in Tasks, Rings(r), alarms'[r] # HA!NoTime
             PROVE  alarms'[r] = alarms[r]
  BY DEF ringing, Rings
<1>1. CASE HA!Schedules BY <1>1, AlarmsAreSet
<1>2. CASE HA!CancelsStale BY <1>2 DEF HA!CancelsStale
<1>3. CASE HA!Tick BY <1>3 DEF HA!Tick
<1>4. CASE UNCHANGED alarms BY <1>4
<1> QED BY <1>1, <1>2, <1>3, <1>4
        DEF HA!Next, HA!Sync, HA!Grant, HA!Revoke, HA!SyncFetches, HA!SkipsUnpermitted,
            HA!StoresArmed, HA!StoresCursor, HA!SyncFails, HA!Close, HA!Create, HA!Reschedule,
            HA!Write

-----------------------------------------------------------------------------
(* EventReminder. *)

EveStates ==
    {ER!Idle} \cup [stage : {"claim"}, found : SUBSET Clients]
              \cup [stage : {"notify", "release"}, found : SUBSET Clients, at : Clients]
Holding(w) == eve[w].stage \in {"notify", "release"}

EventTypes ==
    /\ won \subseteq Clients /\ reminded \subseteq Clients /\ lost \subseteq Clients
    /\ ahead \in [Clients -> 0 .. Horizon]
    /\ ownerTold \in [Clients -> Nat] /\ echoes \in [Clients -> Nat]
    /\ eve \in [Workers -> EveStates]
    /\ failures \in 0 .. MaxFailures

\* A claim in hand is in the database, nobody else's, and has told nobody that
\* did not come back as an error; a claim that stands with nobody at work on it
\* has told the owner, or was left behind.
EventInv ==
    /\ EventTypes
    /\ \A w \in Workers : Holding(w) =>
           /\ eve[w].at \in reminded /\ ownerTold[eve[w].at] <= echoes[eve[w].at]
           /\ \A v \in Workers : Holding(v) /\ eve[v].at = eve[w].at => v = w
    /\ \A b \in Clients :
           /\ echoes[b] <= failures
           /\ ownerTold[b] <= 1 + echoes[b]
           /\ b \notin reminded => ownerTold[b] <= echoes[b]
           /\ b \in reminded \ lost => ownerTold[b] > 0 \/ \E w \in Workers : Holding(w) /\ eve[w].at = b

LEMMA EventStarts == ER!Init /\ ER!EventAssumption => EventInv
  BY DEF ER!Init, EventInv, EventTypes, EveStates, Holding, ER!Idle, ER!EventAssumption

LEMMA EventPromises == EventInv /\ ER!EventAssumption => ER!TypeOK /\ ER!ToldOnceAndNotLost
<1> SUFFICES ASSUME EventInv, ER!EventAssumption PROVE ER!TypeOK /\ ER!ToldOnceAndNotLost
  OBVIOUS
<1>1. \A b \in Clients : echoes[b] \in 0 .. MaxFailures
  BY DEF EventInv, EventTypes, ER!EventAssumption
<1>2. ER!TypeOK BY <1>1 DEF EventInv, EventTypes, ER!TypeOK, EveStates
<1>3. ER!ToldOnceAndNotLost BY DEF EventInv, ER!ToldOnceAndNotLost, ER!InHand, Holding
<1> QED BY <1>2, <1>3

LEMMA HoldingType ==
    ASSUME EventTypes, NEW w \in Workers, Holding(w)
    PROVE  /\ eve[w] \in [stage : {"notify", "release"}, found : SUBSET Clients, at : Clients]
           /\ eve[w].at \in Clients /\ eve[w].found \in SUBSET Clients
  BY DEF EventTypes, EveStates, Holding, ER!Idle

LEMMA ClaimingType ==
    ASSUME EventTypes, NEW w \in Workers, eve[w].stage = "claim"
    PROVE  eve[w].found \in SUBSET Clients
  BY DEF EventTypes, EveStates, ER!Idle

\* Going on to the next booking, or ending the sweep, holds nothing.
LEMMA GoesOnType ==
    ASSUME EventTypes, NEW w \in Workers, NEW found \in SUBSET Clients, ER!GoesOn(w, found)
    PROVE  /\ eve' \in [Workers -> EveStates] /\ ~Holding(w)'
           /\ \A v \in Workers : v # w => eve'[v] = eve[v]
<1>1. [stage |-> "claim", found |-> found] \in EveStates /\ ER!Idle \in EveStates
  BY DEF EveStates
<1>2. CASE found = {} BY <1>1, <1>2 DEF ER!GoesOn, EventTypes, Holding, ER!Idle
<1>3. CASE found # {} BY <1>1, <1>3 DEF ER!GoesOn, EventTypes, Holding
<1> QED BY <1>2, <1>3

\* A step that leaves claims and messages as they are, and takes nothing in hand.
LEMMA EventKept ==
    ASSUME EventInv, ER!EventAssumption, NEW w \in Workers, ~Holding(w),
           eve' \in [Workers -> EveStates], ~Holding(w)',
           \A v \in Workers : v # w => eve'[v] = eve[v],
           UNCHANGED <<reminded, ownerTold, echoes, lost>>, UNCHANGED <<won, ahead>>,
           failures' \in failures .. MaxFailures
    PROVE  EventInv'
<1>1. EventTypes' BY DEF EventInv, EventTypes
<1>2. \A v \in Workers : (Holding(v)' <=> Holding(v)) /\ (Holding(v) => eve'[v] = eve[v])
  BY DEF Holding
<1>3. \A b \in Clients : echoes[b] <= failures' BY DEF EventInv, EventTypes
<1> QED BY <1>1, <1>2, <1>3 DEF EventInv

LEMMA EventClaims ==
    ASSUME EventInv, ER!EventAssumption, NEW w \in Workers, NEW b \in Clients, ER!Claims(w, b)
    PROVE  EventInv'
<1> DEFINE rest == eve[w].found \ {b}
           s == [stage |-> "notify", found |-> rest, at |-> b]
<1>1. rest \in SUBSET Clients /\ ~Holding(w)
  BY ClaimingType DEF EventInv, ER!Claims, Holding
<1>2. CASE ER!IsFree(b)
  <2>1. /\ reminded' = reminded \cup {b} /\ eve' = [eve EXCEPT ![w] = s]
        /\ UNCHANGED <<won, ahead, ownerTold, echoes, lost, failures>> /\ b \notin reminded
    BY <1>2 DEF ER!Claims, ER!IsFree
  <2>2. s \in EveStates /\ s.stage = "notify" /\ s.at = b BY <1>1 DEF EveStates
  <2> HIDE DEF s
  <2>3. EventTypes' BY <2>1, <2>2 DEF EventInv, EventTypes
  <2>4. /\ eve'[w] = s /\ \A v \in Workers : v # w => eve'[v] = eve[v]
        /\ Holding(w)' /\ \A v \in Workers : v # w => (Holding(v)' <=> Holding(v))
    BY <2>1, <2>2 DEF EventInv, EventTypes, Holding
  <2>5. \A v \in Workers : Holding(v) => eve[v].at # b BY <2>1 DEF EventInv
  <2>6. \A v \in Workers : Holding(v)' =>
           /\ eve'[v].at \in reminded' /\ ownerTold'[eve'[v].at] <= echoes'[eve'[v].at]
           /\ \A u \in Workers : Holding(u)' /\ eve'[u].at = eve'[v].at => u = v
    BY <2>1, <2>2, <2>4, <2>5 DEF EventInv
  <2>7. \A c \in Clients :
           /\ echoes'[c] <= failures' /\ ownerTold'[c] <= 1 + echoes'[c]
           /\ c \notin reminded' => ownerTold'[c] <= echoes'[c]
           /\ c \in reminded' \ lost' =>
                  ownerTold'[c] > 0 \/ \E v \in Workers : Holding(v)' /\ eve'[v].at = c
    <3> SUFFICES ASSUME NEW c \in Clients, c \in reminded' \ lost', ~(ownerTold'[c] > 0)
                 PROVE  \E v \in Workers : Holding(v)' /\ eve'[v].at = c
      BY <2>1 DEF EventInv
    <3>1. CASE c = b BY <2>2, <2>4, <3>1
    <3>2. CASE c # b
      <4>1. PICK v \in Workers : Holding(v) /\ eve[v].at = c BY <2>1, <3>2 DEF EventInv
      <4> QED BY <1>1, <2>4, <4>1
    <3> QED BY <3>1, <3>2
  <2> QED BY <2>3, <2>6, <2>7 DEF EventInv
<1>3. CASE ~ER!IsFree(b)
  <2>1. /\ ER!GoesOn(w, rest) /\ UNCHANGED <<reminded, ownerTold, echoes, lost>>
        /\ UNCHANGED <<won, ahead>> /\ failures' = failures
    BY <1>3 DEF ER!Claims
  <2>2. failures' \in failures .. MaxFailures BY <2>1 DEF EventInv, EventTypes, ER!EventAssumption
  <2> HIDE DEF rest
  <2> QED BY <1>1, <2>1, <2>2, GoesOnType, EventKept DEF EventInv
<1> QED BY <1>2, <1>3

\* A worker that lets go of a booking: told, handed back, or left behind.
LEMMA LetsGoOfBooking ==
    ASSUME EventInv, ER!EventAssumption, NEW w \in Workers, Holding(w),
           eve' \in [Workers -> EveStates], ~Holding(w)',
           \A v \in Workers : v # w => eve'[v] = eve[v],
           UNCHANGED <<won, ahead, echoes>>, failures' \in failures .. MaxFailures,
           NEW b, b = eve[w].at,
           \/ /\ ownerTold' = [ownerTold EXCEPT ![b] = @ + 1] /\ UNCHANGED <<reminded, lost>>
           \/ reminded' = reminded \ {b} /\ UNCHANGED <<ownerTold, lost>>
           \/ lost' = lost \cup {b} /\ UNCHANGED <<ownerTold, reminded>>
    PROVE  EventInv'
<1>0. b \in Clients /\ ownerTold \in [Clients -> Nat] BY HoldingType DEF EventInv, EventTypes
<1>1. EventTypes' BY <1>0 DEF EventInv, EventTypes
<1>2. \A v \in Workers : v # w => (Holding(v)' <=> Holding(v)) /\ eve'[v] = eve[v]
  BY DEF Holding
<1>3. \A v \in Workers : Holding(v) /\ v # w => eve[v].at # b BY DEF EventInv
<1>4. \A c \in Clients : echoes[c] <= failures' BY DEF EventInv, EventTypes
<1>5. \A c \in Clients : c # b => ownerTold'[c] = ownerTold[c] BY <1>0
<1>6. ownerTold[b] <= echoes[b] /\ b \in reminded BY DEF EventInv
<1>7. echoes[b] \in Nat /\ ownerTold[b] \in Nat BY <1>0 DEF EventInv, EventTypes
<1>8. \A v \in Workers : Holding(v)' =>
         /\ eve'[v].at \in reminded' /\ ownerTold'[eve'[v].at] <= echoes'[eve'[v].at]
         /\ \A u \in Workers : Holding(u)' /\ eve'[u].at = eve'[v].at => u = v
  <2> SUFFICES ASSUME NEW v \in Workers, Holding(v)'
               PROVE  /\ eve'[v].at \in reminded' /\ ownerTold'[eve'[v].at] <= echoes'[eve'[v].at]
                      /\ \A u \in Workers : Holding(u)' /\ eve'[u].at = eve'[v].at => u = v
    OBVIOUS
  <2>1. v # w /\ Holding(v) /\ eve'[v] = eve[v] BY <1>2
  <2>2. eve[v].at \in Clients /\ eve[v].at # b BY <1>3, <2>1, HoldingType DEF EventInv
  <2>3. ownerTold'[eve[v].at] = ownerTold[eve[v].at] /\ eve[v].at \in reminded'
    BY <1>5, <2>1, <2>2 DEF EventInv
  <2>4. \A u \in Workers : Holding(u)' /\ eve'[u].at = eve'[v].at => u = v
    BY <1>2, <2>1 DEF EventInv
  <2> QED BY <2>1, <2>3, <2>4 DEF EventInv
<1>9. ASSUME NEW c \in Clients
      PROVE  /\ ownerTold'[c] <= 1 + echoes'[c]
             /\ c \notin reminded' => ownerTold'[c] <= echoes'[c]
             /\ c \in reminded' \ lost' =>
                    ownerTold'[c] > 0 \/ \E v \in Workers : Holding(v)' /\ eve'[v].at = c
  <2>1. CASE c = b BY <1>0, <1>6, <1>7, <2>1
  <2>2. CASE c # b
    <3>1. /\ ownerTold'[c] = ownerTold[c] /\ (c \in reminded' <=> c \in reminded)
          /\ (c \in lost' <=> c \in lost)
      BY <1>5, <2>2
    <3>2. ASSUME NEW v \in Workers, Holding(v), eve[v].at = c
          PROVE  Holding(v)' /\ eve'[v].at = c
      BY <1>2, <2>2, <3>2
    <3> QED BY <3>1, <3>2 DEF EventInv
  <2> QED BY <2>1, <2>2
<1> QED BY <1>1, <1>4, <1>8, <1>9 DEF EventInv

\* A send that throws, whether or not it went out: the claim is still in hand.
LEMMA EventThrows ==
    ASSUME EventInv, ER!EventAssumption, NEW w \in Workers, eve[w].stage = "notify",
           eve' = [eve EXCEPT ![w].stage = "release"], ER!Blow,
           UNCHANGED <<won, ahead, reminded, lost>>,
           \/ UNCHANGED <<ownerTold, echoes>>
           \/ /\ ownerTold' = [ownerTold EXCEPT ![eve[w].at] = @ + 1]
              /\ echoes' = [echoes EXCEPT ![eve[w].at] = @ + 1]
    PROVE  EventInv'
<1> DEFINE b == eve[w].at
           s == [eve[w] EXCEPT !.stage = "release"]
<1>1. /\ Holding(w) /\ b \in Clients
      /\ eve[w] \in [stage : {"notify", "release"}, found : SUBSET Clients, at : Clients]
  BY HoldingType DEF EventInv, Holding
<1>2. s \in EveStates /\ s.stage = "release" /\ s.at = b BY <1>1 DEF EveStates
<1>3. eve' = [eve EXCEPT ![w] = s] OBVIOUS
<1>4. failures' = failures + 1 /\ failures' \in 0 .. MaxFailures
  BY DEF ER!Blow, EventInv, EventTypes, ER!EventAssumption
<1>5. /\ \A c \in Clients : ownerTold[c] \in Nat /\ echoes[c] \in Nat
      /\ \A c \in Clients : c # b => ownerTold'[c] = ownerTold[c] /\ echoes'[c] = echoes[c]
      /\ \/ ownerTold'[b] = ownerTold[b] /\ echoes'[b] = echoes[b]
         \/ ownerTold'[b] = ownerTold[b] + 1 /\ echoes'[b] = echoes[b] + 1
      /\ ownerTold' \in [Clients -> Nat] /\ echoes' \in [Clients -> Nat]
  BY <1>1 DEF EventInv, EventTypes
<1> HIDE DEF b, s
<1>6. EventTypes' BY <1>2, <1>3, <1>4, <1>5 DEF EventInv, EventTypes
<1>7. \A v \in Workers : (Holding(v)' <=> Holding(v)) /\ (Holding(v) => eve'[v].at = eve[v].at)
  BY <1>1, <1>2, <1>3 DEF EventInv, EventTypes, Holding, b
<1>8. ASSUME NEW c \in Clients
      PROVE  /\ echoes'[c] <= failures' /\ ownerTold'[c] <= 1 + echoes'[c]
             /\ ownerTold[c] <= echoes[c] => ownerTold'[c] <= echoes'[c]
             /\ ownerTold[c] > 0 => ownerTold'[c] > 0
  <2>1. echoes[c] <= failures /\ ownerTold[c] <= 1 + echoes[c] /\ failures \in Nat
    BY DEF EventInv, EventTypes
  <2> QED BY <1>4, <1>5, <2>1
<1>9. \A v \in Workers : Holding(v) => eve[v].at \in Clients BY HoldingType DEF EventInv
<1> QED BY <1>6, <1>7, <1>8, <1>9 DEF EventInv

LEMMA EventStep == EventInv /\ ER!EventAssumption /\ [ER!Next]_reminderOfEvent => EventInv'
<1> SUFFICES ASSUME EventInv, ER!EventAssumption, [ER!Next]_reminderOfEvent PROVE EventInv'
  OBVIOUS
<1>0. /\ failures \in Nat /\ MaxFailures \in Nat /\ failures <= MaxFailures
      /\ failures \in failures .. MaxFailures
      /\ ER!Blow => failures' \in failures .. MaxFailures
  BY DEF EventInv, EventTypes, ER!EventAssumption, ER!Blow
<1>1. ASSUME NEW b \in Clients, ER!Wins(b) PROVE EventInv'
  BY <1>1 DEF ER!Wins, EventInv, EventTypes, Holding
<1>2. ASSUME NEW b \in Clients, NEW d \in 0 .. Horizon, ER!Moves(b, d) PROVE EventInv'
  BY <1>2 DEF ER!Moves, EventInv, EventTypes, Holding
<1>3. CASE ER!TimePasses
  <2>1. ahead' \in [Clients -> 0 .. Horizon]
    BY <1>3 DEF ER!TimePasses, EventInv, EventTypes, ER!EventAssumption
  <2> QED BY <1>3, <2>1 DEF ER!TimePasses, EventInv, EventTypes, Holding
<1>4. ASSUME NEW w \in Workers, ER!Looks(w) PROVE EventInv'
  <2> DEFINE s == [stage |-> "claim", found |-> ER!Due]
  <2>1. s \in EveStates /\ s.stage = "claim" BY DEF EveStates, ER!Due, EventInv, EventTypes
  <2>2. eve[w] = ER!Idle /\ eve' = [eve EXCEPT ![w] = s] BY <1>4 DEF ER!Looks
  <2> HIDE DEF s
  <2>3. /\ eve' \in [Workers -> EveStates] /\ ~Holding(w) /\ ~Holding(w)'
        /\ \A v \in Workers : v # w => eve'[v] = eve[v]
    BY <2>1, <2>2 DEF EventInv, EventTypes, Holding, ER!Idle
  <2> QED BY <1>0, <1>4, <2>3, EventKept DEF ER!Looks
<1>5. ASSUME NEW w \in Workers, ER!Notifies(w) PROVE EventInv'
  <2>1. Holding(w) /\ eve[w].found \in SUBSET Clients
    BY <1>5, HoldingType DEF ER!Notifies, Holding, EventInv
  <2>2. CASE /\ ownerTold' = [ownerTold EXCEPT ![eve[w].at] = @ + 1]
             /\ ER!GoesOn(w, eve[w].found) /\ UNCHANGED <<echoes, failures>>
    <3>1. /\ eve' \in [Workers -> EveStates] /\ ~Holding(w)'
          /\ \A v \in Workers : v # w => eve'[v] = eve[v]
      BY <2>1, <2>2, GoesOnType DEF EventInv
    <3>2. UNCHANGED <<won, ahead, reminded, lost>> BY <1>5 DEF ER!Notifies
    <3>3. failures' \in failures .. MaxFailures BY <1>0, <2>2
    <3> QED BY <2>1, <2>2, <3>1, <3>2, <3>3, LetsGoOfBooking
  <2>3. CASE /\ eve' = [eve EXCEPT ![w].stage = "release"] /\ ER!Blow
             /\ UNCHANGED <<ownerTold, echoes>>
    BY <1>5, <2>3, EventThrows DEF ER!Notifies
  <2>4. CASE /\ eve' = [eve EXCEPT ![w].stage = "release"] /\ ER!Blow
             /\ ownerTold' = [ownerTold EXCEPT ![eve[w].at] = @ + 1]
             /\ echoes' = [echoes EXCEPT ![eve[w].at] = @ + 1]
    BY <1>5, <2>4, EventThrows DEF ER!Notifies
  <2> QED BY <1>5, <2>2, <2>3, <2>4 DEF ER!Notifies
<1>6. ASSUME NEW w \in Workers, ER!Releases(w) PROVE EventInv'
  <2>1. Holding(w) /\ eve[w].found \in SUBSET Clients
    BY <1>6, HoldingType DEF ER!Releases, Holding, EventInv
  <2>2. /\ ER!GoesOn(w, eve[w].found) /\ UNCHANGED <<won, ahead, ownerTold, echoes>>
        /\ \/ reminded' = reminded \ {eve[w].at} /\ UNCHANGED <<lost, failures>>
           \/ ER!Blow /\ lost' = lost \cup {eve[w].at} /\ UNCHANGED reminded
    BY <1>6 DEF ER!Releases, ER!WithoutClaim
  <2>3. failures' \in failures .. MaxFailures BY <1>0, <2>2
  <2> QED BY <2>1, <2>2, <2>3, GoesOnType, LetsGoOfBooking DEF EventInv
<1>7. ASSUME NEW w \in Workers, ER!Crashes(w) PROVE EventInv'
  <2>1. /\ eve' = [eve EXCEPT ![w] = ER!Idle] /\ failures' \in failures .. MaxFailures
        /\ UNCHANGED <<won, ahead, reminded, ownerTold, echoes>> /\ eve[w] # ER!Idle
        /\ lost' = IF eve[w].stage = "claim" THEN lost ELSE lost \cup {eve[w].at}
    BY <1>0, <1>7 DEF ER!Crashes
  <2>2. /\ eve' \in [Workers -> EveStates] /\ ~Holding(w)'
        /\ \A v \in Workers : v # w => eve'[v] = eve[v]
    BY <2>1 DEF EventInv, EventTypes, EveStates, Holding, ER!Idle
  <2>3. CASE eve[w].stage = "claim" BY <2>1, <2>2, <2>3, EventKept DEF Holding
  <2>4. CASE Holding(w) BY <2>1, <2>2, <2>4, LetsGoOfBooking DEF Holding
  <2>5. eve[w].stage = "claim" \/ Holding(w)
    BY <2>1 DEF EventInv, EventTypes, EveStates, Holding
  <2> QED BY <2>3, <2>4, <2>5
<1>8. CASE UNCHANGED reminderOfEvent
  BY <1>8 DEF reminderOfEvent, EventInv, EventTypes, Holding
<1> QED BY <1>1, <1>2, <1>3, <1>4, <1>5, <1>6, <1>7, <1>8, EventClaims DEF ER!Next

-----------------------------------------------------------------------------
(* CommitmentRetry. *)

BusyRetriers == [stage : {"read", "delete", "abandon", "release"}, msg : Reminders, token : Nat \ {0}]
Rows == [status : {"none", "pending", "claimed", "deleted", "failed_permanent"},
         ready : BOOLEAN, lease : {"none", "held", "expired"}, token : Nat, attempts : Nat]

RetryTypes == row \in [Reminders -> Rows] /\ retrier \in [Workers -> {CR!Resting} \cup BusyRetriers]

\* A token was given once: it is at most the count of claims, no two workers
\* have one token of a row, and only a claimed row has one.
TokenInv ==
    /\ \A m \in Reminders : /\ row[m].token <= row[m].attempts
                            /\ row[m].token # 0 => row[m].status = "claimed"
    /\ \A w \in Workers : retrier[w] # CR!Resting =>
           retrier[w].token <= row[retrier[w].msg].attempts
    /\ \A v, w \in Workers :
           retrier[v] # CR!Resting /\ retrier[w] # CR!Resting /\ v # w
             => retrier[v].msg # retrier[w].msg \/ retrier[v].token # retrier[w].token

RetryInv == RetryTypes /\ TokenInv

-----------------------------------------------------------------------------
(* The invariant. *)

LEMMA RetryMarksStart == CR!Init => RetryInv
  BY DEF CR!Init, RetryInv, RetryTypes, TokenInv, Rows, CR!NoRow, CR!Resting

LEMMA BusyBy ==
    ASSUME RetryTypes, NEW w \in Workers, retrier[w] # CR!Resting PROVE retrier[w] \in BusyRetriers
  BY DEF RetryTypes

LEMMA AtStage ==
    ASSUME NEW w \in Workers, retrier[w].stage # "idle" PROVE retrier[w] # CR!Resting
  BY DEF CR!Resting

\* What a write does to a row: the token goes, the count stays.
LEMMA AfterType ==
    ASSUME NEW r \in Rows, NEW stage \in {"delete", "abandon", "release"}
    PROVE  /\ CR!After(r, stage) \in Rows
           /\ CR!After(r, stage).token = 0 /\ CR!After(r, stage).attempts = r.attempts
           /\ stage = "delete" => CR!After(r, stage).status = "deleted"
           /\ stage = "abandon" => CR!After(r, stage).status = "failed_permanent"
           /\ stage = "release" => CR!After(r, stage).status = "pending"
<1>1. CASE stage = "delete" BY <1>1 DEF CR!After, Rows
<1>2. CASE stage = "abandon" BY <1>2 DEF CR!After, Rows
<1>3. CASE stage = "release" BY <1>3 DEF CR!After, Rows
<1> QED BY <1>1, <1>2, <1>3

\* A row written without its token and its count.
LEMMA RowTouched ==
    ASSUME RetryInv, NEW m \in Reminders, NEW r \in Rows, row' = [row EXCEPT ![m] = r],
           r.attempts = row[m].attempts, r.token = row[m].token,
           r.token # 0 => r.status = "claimed", UNCHANGED retrier
    PROVE  RetryInv'
<1>1. /\ row' \in [Reminders -> Rows] /\ row'[m] = r
      /\ \A n \in Reminders : n # m => row'[n] = row[n]
  BY DEF RetryInv, RetryTypes
<1>2. \A n \in Reminders : row'[n].attempts = row[n].attempts /\ row'[n].token = row[n].token
  BY <1>1
<1>3. RetryTypes' BY <1>1 DEF RetryInv, RetryTypes
<1>4. \A w \in Workers : retrier[w] # CR!Resting => retrier[w].msg \in Reminders
  BY BusyBy DEF RetryInv, BusyRetriers
<1>5. TokenInv' BY <1>1, <1>2, <1>4 DEF RetryInv, TokenInv
<1> QED BY <1>3, <1>5 DEF RetryInv

\* A worker goes on with the row it has, or rests.
LEMMA WorkerMoved ==
    ASSUME RetryInv, NEW w \in Workers, NEW s, CR!At(w, s), UNCHANGED row,
           \/ s = CR!Resting
           \/ /\ retrier[w] # CR!Resting /\ s \in BusyRetriers
              /\ s.msg = retrier[w].msg /\ s.token = retrier[w].token
    PROVE  RetryInv'
<1>1. retrier' \in [Workers -> {CR!Resting} \cup BusyRetriers] /\ retrier' = [retrier EXCEPT ![w] = s]
  BY DEF RetryInv, RetryTypes, CR!At
<1>2. retrier'[w] = s /\ \A v \in Workers : v # w => retrier'[v] = retrier[v]
  BY <1>1 DEF RetryInv, RetryTypes
<1>3. RetryTypes' BY <1>1 DEF RetryInv, RetryTypes
<1>4. TokenInv' BY <1>2 DEF RetryInv, TokenInv
<1> QED BY <1>3, <1>4 DEF RetryInv

LEMMA ClaimStep ==
    ASSUME RetryInv, NEW w \in Workers, NEW m \in Reminders, CR!Claim(w, m)
    PROVE  /\ RetryInv'
           /\ row[m].status \in {"pending", "claimed"}
           /\ row'[m].status = "claimed" /\ retrier[w] = CR!Resting
           /\ retrier'[w] # CR!Resting /\ retrier'[w].msg = m
           /\ retrier'[w].token = row'[m].token
           /\ \A n \in Reminders : n # m => row'[n] = row[n]
           /\ \A v \in Workers : v # w => retrier'[v] = retrier[v]
<1> DEFINE n == row[m].attempts + 1
           r == [row[m] EXCEPT !.status = "claimed", !.lease = "held", !.token = n, !.attempts = n]
           s == [stage |-> IF CR!OutOfReadings(n) THEN "abandon" ELSE "read", msg |-> m, token |-> n]
<1>0. row[m] \in Rows BY DEF RetryInv, RetryTypes
<1>1. /\ retrier[w] = CR!Resting /\ row[m].status \in {"pending", "claimed"}
      /\ row' = [row EXCEPT ![m] = r] /\ retrier' = [retrier EXCEPT ![w] = s]
  BY DEF CR!Claim, CR!ToBeRead, CR!At
<1>2. n \in Nat \ {0} /\ n > row[m].attempts BY <1>0 DEF Rows
<1>3. r \in Rows /\ r.status = "claimed" /\ r.token = n /\ r.attempts = n BY <1>0, <1>2 DEF Rows
<1>4. s \in BusyRetriers /\ s.msg = m /\ s.token = n BY <1>2 DEF BusyRetriers
<1>5. s # CR!Resting BY <1>4 DEF BusyRetriers, CR!Resting
<1> HIDE DEF n, r, s
<1>6. /\ row' \in [Reminders -> Rows] /\ row'[m] = r
      /\ \A k \in Reminders : k # m => row'[k] = row[k]
  BY <1>1, <1>3 DEF RetryInv, RetryTypes
<1>7. /\ retrier' \in [Workers -> {CR!Resting} \cup BusyRetriers] /\ retrier'[w] = s
      /\ \A v \in Workers : v # w => retrier'[v] = retrier[v]
  BY <1>1, <1>4 DEF RetryInv, RetryTypes
<1>8. RetryTypes' BY <1>6, <1>7 DEF RetryTypes
<1>9. \A v \in Workers : v # w /\ retrier[v] # CR!Resting =>
          /\ retrier[v].msg \in Reminders /\ retrier[v].token \in Nat
          /\ retrier[v].token <= row[retrier[v].msg].attempts
  BY BusyBy DEF RetryInv, TokenInv, BusyRetriers
<1>10. \A k \in Reminders : row[k].attempts \in Nat BY DEF RetryInv, RetryTypes, Rows
<1>11. /\ \A k \in Reminders : /\ row'[k].token <= row'[k].attempts
                               /\ row'[k].token # 0 => row'[k].status = "claimed"
       /\ \A v \in Workers : retrier'[v] # CR!Resting =>
              retrier'[v].token <= row'[retrier'[v].msg].attempts
  <2>1. ASSUME NEW k \in Reminders
        PROVE  /\ row'[k].token <= row'[k].attempts
               /\ row'[k].token # 0 => row'[k].status = "claimed"
    BY <1>2, <1>3, <1>6 DEF RetryInv, TokenInv
  <2>2. ASSUME NEW v \in Workers, retrier'[v] # CR!Resting
        PROVE  retrier'[v].token <= row'[retrier'[v].msg].attempts
    <3>1. CASE v = w BY <1>2, <1>3, <1>4, <1>6, <1>7, <3>1
    <3>2. CASE v # w /\ retrier[v].msg = m BY <1>2, <1>3, <1>6, <1>7, <1>9, <1>10, <2>2, <3>2
    <3>3. CASE v # w /\ retrier[v].msg # m BY <1>6, <1>7, <1>9, <2>2, <3>3
    <3> QED BY <3>1, <3>2, <3>3
  <2> QED BY <2>1, <2>2
<1>12. \A v \in Workers : v # w /\ retrier[v] # CR!Resting
          => retrier[v].msg # m \/ retrier[v].token # n
  BY <1>2, <1>9, <1>10
<1>13. \A v, u \in Workers :
           retrier'[v] # CR!Resting /\ retrier'[u] # CR!Resting /\ v # u
             => retrier'[v].msg # retrier'[u].msg \/ retrier'[v].token # retrier'[u].token
  BY <1>4, <1>7, <1>12 DEF RetryInv, TokenInv
<1>14. TokenInv' BY <1>11, <1>13 DEF TokenInv
<1> QED BY <1>1, <1>3, <1>4, <1>5, <1>6, <1>7, <1>8, <1>14 DEF RetryInv

\* A worker that rests after its write: its own row, or nothing, has changed.
LEMMA WriteStep ==
    ASSUME RetryInv, NEW w \in Workers, CR!Writes(w)
    PROVE  /\ RetryInv' /\ retrier[w] # CR!Resting /\ retrier[w].msg \in Reminders /\ CR!At(w, CR!Resting)
           /\ ~CR!Owned(w) => UNCHANGED row
           /\ CR!Owned(w) =>
                /\ row[retrier[w].msg].status = "claimed"
                /\ row'[retrier[w].msg].status \in {"pending", "deleted", "failed_permanent"}
                /\ \A n \in Reminders : n # retrier[w].msg => row'[n] = row[n]
<1> DEFINE m == retrier[w].msg
<1>1. retrier[w] # CR!Resting BY AtStage DEF CR!Writes
<1>2. m \in Reminders /\ retrier[w].token \in Nat \ {0} BY <1>1, BusyBy DEF RetryInv, BusyRetriers
<1>3. CASE ~CR!Owned(w)
  <2>1. UNCHANGED row /\ CR!At(w, CR!Resting) BY <1>3 DEF CR!Writes
  <2>2. RetryInv' BY <2>1, WorkerMoved
  <2> QED BY <1>1, <1>2, <1>3, <2>1, <2>2
<1>4. CASE CR!Owned(w)
  <2> DEFINE r == CR!After(row[m], retrier[w].stage)
  <2>1. row[m] \in Rows BY <1>2 DEF RetryInv, RetryTypes
  <2>2. /\ r \in Rows /\ r.token = 0 /\ r.attempts = row[m].attempts
        /\ r.status \in {"pending", "deleted", "failed_permanent"}
    BY <2>1, AfterType DEF CR!Writes
  <2>3. row' = [row EXCEPT ![m] = r] /\ retrier' = [retrier EXCEPT ![w] = CR!Resting]
    BY <1>4 DEF CR!Writes, CR!At
  <2>0. row[m].status = "claimed" BY <1>2, <1>4 DEF CR!Owned, RetryInv, TokenInv
  <2> HIDE DEF m, r
  <2>4. /\ row' \in [Reminders -> Rows] /\ row'[m] = r
        /\ \A k \in Reminders : k # m => row'[k] = row[k]
    BY <1>2, <2>2, <2>3 DEF RetryInv, RetryTypes
  <2>5. /\ retrier' \in [Workers -> {CR!Resting} \cup BusyRetriers] /\ retrier'[w] = CR!Resting
        /\ \A v \in Workers : v # w => retrier'[v] = retrier[v]
    BY <2>3 DEF RetryInv, RetryTypes
  <2>6. RetryTypes' BY <2>4, <2>5 DEF RetryTypes
  <2>7. \A k \in Reminders : row'[k].attempts = row[k].attempts BY <2>2, <2>4
  <2>8. \A v \in Workers : retrier[v] # CR!Resting => retrier[v].msg \in Reminders
    BY BusyBy DEF RetryInv, BusyRetriers
  <2>9. \A k \in Reminders : row[k].attempts \in Nat BY DEF RetryInv, RetryTypes, Rows
  <2>10. TokenInv' BY <2>2, <2>4, <2>5, <2>7, <2>8, <2>9 DEF RetryInv, TokenInv
  <2>11. RetryInv' BY <2>6, <2>10 DEF RetryInv
  <2>12. CR!At(w, CR!Resting) BY DEF CR!Writes
  <2> QED BY <1>1, <1>2, <1>4, <2>0, <2>2, <2>4, <2>11, <2>12 DEF m
<1> QED BY <1>3, <1>4

\* A row is enqueued, or time passes for it.
LEMMA RowSteps ==
    ASSUME RetryInv, NEW m \in Reminders, CR!Enqueue(m) \/ CR!BackoffEnds(m) \/ CR!LeaseExpires(m)
    PROVE  /\ RetryInv' /\ UNCHANGED retrier
           /\ \A n \in Reminders : row'[n].token = row[n].token
           /\ \A n \in Reminders : \/ row'[n].status = row[n].status
                                   \/ row[n].status = "none" /\ row'[n].status = "pending"
<1>1. row[m] \in Rows BY DEF RetryInv, RetryTypes
<1>2. UNCHANGED retrier BY DEF CR!Enqueue, CR!BackoffEnds, CR!LeaseExpires
<1>3. row[m].token # 0 => row[m].status = "claimed" BY DEF RetryInv, TokenInv
<1>4. PICK r \in Rows : /\ row' = [row EXCEPT ![m] = r]
                        /\ r.token = row[m].token /\ r.attempts = row[m].attempts
                        /\ \/ r.status = row[m].status
                           \/ row[m].status = "none" /\ r.status = "pending"
  <2>1. CASE CR!Enqueue(m)
    <3> DEFINE r == [row[m] EXCEPT !.status = "pending"]
    <3>1. row' = [row EXCEPT ![m] = r] /\ row[m].status = "none" BY <2>1 DEF CR!Enqueue
    <3>2. /\ r \in Rows /\ r.token = row[m].token /\ r.attempts = row[m].attempts
          /\ r.status = "pending"
      BY <1>1 DEF Rows
    <3> HIDE DEF r
    <3> QED BY <3>1, <3>2
  <2>2. CASE CR!BackoffEnds(m)
    <3> DEFINE r == [row[m] EXCEPT !.ready = TRUE]
    <3>1. row' = [row EXCEPT ![m] = r] BY <2>2 DEF CR!BackoffEnds
    <3>2. /\ r \in Rows /\ r.token = row[m].token /\ r.attempts = row[m].attempts
          /\ r.status = row[m].status
      BY <1>1 DEF Rows
    <3> HIDE DEF r
    <3> QED BY <3>1, <3>2
  <2>3. CASE CR!LeaseExpires(m)
    <3> DEFINE r == [row[m] EXCEPT !.lease = "expired"]
    <3>1. row' = [row EXCEPT ![m] = r] BY <2>3 DEF CR!LeaseExpires
    <3>2. /\ r \in Rows /\ r.token = row[m].token /\ r.attempts = row[m].attempts
          /\ r.status = row[m].status
      BY <1>1 DEF Rows
    <3> HIDE DEF r
    <3> QED BY <3>1, <3>2
  <2> QED BY <2>1, <2>2, <2>3
<1>5. RetryInv' BY <1>2, <1>3, <1>4, RowTouched
<1>6. row'[m] = r /\ \A n \in Reminders : n # m => row'[n] = row[n]
  BY <1>4 DEF RetryInv, RetryTypes
<1> QED BY <1>2, <1>4, <1>5, <1>6

\* A worker goes on with the row it has.
LEMMA GoesOn ==
    ASSUME RetryInv, NEW w \in Workers, CR!Reads(w) \/ CR!DeleteFails(w)
    PROVE  /\ RetryInv' /\ UNCHANGED row
           /\ \E s \in BusyRetriers : /\ retrier[w] # CR!Resting /\ CR!At(w, s)
                                      /\ s.msg = retrier[w].msg /\ s.token = retrier[w].token
<1>1. retrier[w] # CR!Resting BY AtStage DEF CR!Reads, CR!DeleteFails
<1>2. UNCHANGED row BY DEF CR!Reads, CR!DeleteFails
<1>3. PICK next \in {"delete", "release", "abandon"} : CR!At(w, [retrier[w] EXCEPT !.stage = next])
  BY DEF CR!Reads, CR!DeleteFails
<1> DEFINE s == [retrier[w] EXCEPT !.stage = next]
<1>4. s \in BusyRetriers /\ s.msg = retrier[w].msg /\ s.token = retrier[w].token
  BY <1>1, BusyBy DEF RetryInv, BusyRetriers
<1>5. CR!At(w, s) BY <1>3
<1> HIDE DEF s
<1> QED BY <1>1, <1>2, <1>4, <1>5, WorkerMoved

LEMMA RetryMarksStep == RetryInv /\ [CR!Next]_retrying => RetryInv'
<1> SUFFICES ASSUME RetryInv, [CR!Next]_retrying PROVE RetryInv' OBVIOUS
<1>1. CASE UNCHANGED retrying BY <1>1 DEF retrying, RetryInv, RetryTypes, TokenInv
<1>2. ASSUME NEW m \in Reminders, CR!Enqueue(m) \/ CR!BackoffEnds(m) \/ CR!LeaseExpires(m) PROVE RetryInv'
  BY <1>2, RowSteps
<1>3. ASSUME NEW w \in Workers, CR!Drains(w) PROVE RetryInv'
  BY <1>3, ClaimStep, GoesOn, WriteStep DEF CR!Drains
<1>4. ASSUME NEW w \in Workers, CR!DeleteFails(w) PROVE RetryInv' BY <1>4, GoesOn
<1>5. ASSUME NEW w \in Workers, CR!Stops(w) PROVE RetryInv'
  <2>1. UNCHANGED row /\ CR!At(w, CR!Resting) BY <1>5 DEF CR!Stops
  <2> QED BY <2>1, WorkerMoved
<1> QED BY <1>1, <1>2, <1>3, <1>4, <1>5 DEF CR!Next

-----------------------------------------------------------------------------
(* How often a row is claimed: each claim past the limit is to give it up, and *)
(* only a mishap keeps that from happening.                                    *)

Secured(m) == row[m].lease = "held" /\ \E w \in Workers : CR!Holds(w, m)
Claimable(m) == row[m].status \in {"none", "pending", "claimed"} /\ ~Secured(m)

RetryCounts ==
    /\ mishaps \in 0 .. MaxMishaps /\ readings \in [Reminders -> Nat]
    /\ \A m \in Reminders :
           /\ row[m].token # 0 => row[m].token = row[m].attempts
           /\ row[m].attempts <= MaxReadings + 1 + mishaps
           /\ Claimable(m) => row[m].attempts <= MaxReadings + mishaps
    /\ \A w \in Workers :
           retrier[w] # CR!Resting /\ retrier[w].stage # "abandon" => retrier[w].token <= MaxReadings

QueueInv == RetryInv /\ RetryCounts

\* One more mishap makes room for one more claim of anything.
LEMMA MishapMakesRoom ==
    ASSUME RetryInv, RetryCounts, CR!RetryAssumption, CR!Mishap
    PROVE  /\ mishaps' \in 0 .. MaxMishaps /\ mishaps' = mishaps + 1
           /\ \A m \in Reminders : /\ row[m].attempts <= MaxReadings + 1 + mishaps'
                                   /\ row[m].attempts <= MaxReadings + mishaps'
<1>1. mishaps' \in 0 .. MaxMishaps /\ mishaps' = mishaps + 1 /\ mishaps \in Nat /\ MaxReadings \in Nat
  BY DEF CR!Mishap, RetryCounts, CR!RetryAssumption
<1>2. \A m \in Reminders : row[m].attempts \in Nat BY DEF RetryInv, RetryTypes, Rows
<1>3. \A m \in Reminders : row[m].attempts <= MaxReadings + 1 + mishaps BY DEF RetryCounts
<1> QED BY <1>1, <1>2, <1>3

LEMMA RowStepsCount ==
    ASSUME RetryInv, RetryCounts, CR!RetryAssumption, NEW m \in Reminders,
           CR!Enqueue(m) \/ CR!BackoffEnds(m) \/ CR!LeaseExpires(m)
    PROVE  RetryCounts'
<1>0. /\ row[m] \in Rows /\ row \in [Reminders -> Rows] /\ UNCHANGED <<retrier, readings>>
      /\ mishaps \in Nat
  BY DEF RetryInv, RetryTypes, RetryCounts, CR!Enqueue, CR!BackoffEnds, CR!LeaseExpires
<1>1. CASE CR!Enqueue(m) \/ CR!BackoffEnds(m)
  <2>1. /\ \A n \in Reminders : /\ row'[n].token = row[n].token /\ row'[n].lease = row[n].lease
                                /\ row'[n].attempts = row[n].attempts
        /\ \A n \in Reminders : \/ row'[n].status = row[n].status
                                \/ row[n].status = "none" /\ row'[n].status = "pending"
        /\ UNCHANGED mishaps
    BY <1>0, <1>1 DEF CR!Enqueue, CR!BackoffEnds, Rows
  <2>2. \A n \in Reminders : Claimable(n)' => Claimable(n)
    BY <1>0, <2>1 DEF Claimable, Secured, CR!Holds
  <2> QED BY <1>0, <2>1, <2>2 DEF RetryCounts
<1>2. CASE CR!LeaseExpires(m)
  <2>1. /\ \A n \in Reminders : /\ row'[n].token = row[n].token /\ row'[n].status = row[n].status
                                /\ row'[n].attempts = row[n].attempts
        /\ \A n \in Reminders : n # m => row'[n].lease = row[n].lease
        /\ row[m].lease = "held"
    BY <1>0, <1>2 DEF CR!LeaseExpires, Rows
  <2>2. \A n \in Reminders : n # m /\ Claimable(n)' => Claimable(n)
    BY <1>0, <2>1 DEF Claimable, Secured, CR!Holds
  <2>3. CASE \E w \in Workers : CR!Holds(w, m)
    <3>1. CR!Mishap BY <1>2, <2>3 DEF CR!LeaseExpires
    <3> QED BY <1>0, <2>1, <3>1, MishapMakesRoom DEF RetryCounts
  <2>4. CASE ~\E w \in Workers : CR!Holds(w, m)
    <3>1. UNCHANGED mishaps BY <1>2, <2>4 DEF CR!LeaseExpires
    <3>2. Claimable(m)' => Claimable(m) BY <2>1, <2>4 DEF Claimable, Secured
    <3> QED BY <1>0, <2>1, <2>2, <3>1, <3>2 DEF RetryCounts
  <2> QED BY <2>3, <2>4
<1> QED BY <1>1, <1>2

LEMMA ClaimCounts ==
    ASSUME RetryInv, RetryCounts, CR!RetryAssumption, NEW w \in Workers, NEW m \in Reminders,
           CR!Claim(w, m)
    PROVE  RetryCounts'
<1> DEFINE n == row[m].attempts + 1
           r == [row[m] EXCEPT !.status = "claimed", !.lease = "held", !.token = n, !.attempts = n]
           s == [stage |-> IF CR!OutOfReadings(n) THEN "abandon" ELSE "read", msg |-> m, token |-> n]
<1>0. /\ row[m] \in Rows /\ row \in [Reminders -> Rows] /\ mishaps \in Nat /\ MaxReadings \in Nat
      /\ retrier \in [Workers -> {CR!Resting} \cup BusyRetriers]
  BY DEF RetryInv, RetryTypes, RetryCounts, CR!RetryAssumption
<1>1. /\ retrier[w] = CR!Resting /\ row[m].status \in {"pending", "claimed"} /\ row[m].lease # "held"
      /\ row' = [row EXCEPT ![m] = r] /\ retrier' = [retrier EXCEPT ![w] = s]
      /\ UNCHANGED <<readings, mishaps>>
  BY DEF CR!Claim, CR!ToBeRead, CR!At
<1>2. row[m].attempts \in Nat /\ n = row[m].attempts + 1 BY <1>0 DEF Rows
<1>3. row[m].attempts <= MaxReadings + mishaps
  BY <1>1 DEF RetryCounts, Claimable, Secured
<1>4. /\ n \in Nat \ {0} /\ n <= MaxReadings + 1 + mishaps
  BY <1>0, <1>2, <1>3
<1>5. r.token = n /\ r.attempts = n /\ r.lease = "held" BY <1>0 DEF Rows
<1>6. /\ s.msg = m /\ s.token = n /\ s # CR!Resting
      /\ s.stage # "abandon" => n <= MaxReadings
  BY <1>0, <1>4 DEF CR!OutOfReadings, CR!Resting
<1> HIDE DEF n, r, s
<1>7. /\ row'[m] = r /\ \A k \in Reminders : k # m => row'[k] = row[k]
      /\ retrier'[w] = s /\ \A v \in Workers : v # w => retrier'[v] = retrier[v]
  BY <1>0, <1>1
<1>8. Secured(m)' BY <1>5, <1>6, <1>7 DEF Secured, CR!Holds
<1>9. \A k \in Reminders : k # m /\ Claimable(k)' => Claimable(k)
  <2> SUFFICES ASSUME NEW k \in Reminders, k # m, Claimable(k)', Secured(k) PROVE FALSE
    BY <1>7 DEF Claimable
  <2>1. PICK v \in Workers : CR!Holds(v, k) BY DEF Secured
  <2>2. v # w BY <1>1, <2>1 DEF CR!Holds
  <2>3. CR!Holds(v, k)' BY <1>7, <2>1, <2>2 DEF CR!Holds
  <2> QED BY <1>7, <2>3 DEF Claimable, Secured
<1>10. \A k \in Reminders :
           /\ row'[k].token # 0 => row'[k].token = row'[k].attempts
           /\ row'[k].attempts <= MaxReadings + 1 + mishaps'
           /\ Claimable(k)' => row'[k].attempts <= MaxReadings + mishaps'
  BY <1>1, <1>4, <1>5, <1>7, <1>8, <1>9 DEF RetryCounts, Claimable
<1>11. \A v \in Workers :
           retrier'[v] # CR!Resting /\ retrier'[v].stage # "abandon" => retrier'[v].token <= MaxReadings
  BY <1>6, <1>7 DEF RetryCounts
<1> QED BY <1>1, <1>10, <1>11 DEF RetryCounts

LEMMA GoesOnCounts ==
    ASSUME RetryInv, RetryCounts, CR!RetryAssumption, NEW w \in Workers,
           CR!Reads(w) \/ CR!DeleteFails(w)
    PROVE  RetryCounts'
<1>1. /\ UNCHANGED row /\ retrier[w] # CR!Resting /\ retrier[w].stage \in {"read", "delete"}
  BY AtStage DEF CR!Reads, CR!DeleteFails
<1>2. PICK next \in {"delete", "release", "abandon"} :
          CR!At(w, [retrier[w] EXCEPT !.stage = next])
  BY DEF CR!Reads, CR!DeleteFails
<1> DEFINE s == [retrier[w] EXCEPT !.stage = next]
<1>3. /\ retrier[w] \in BusyRetriers /\ s \in BusyRetriers
      /\ s.msg = retrier[w].msg /\ s.token = retrier[w].token
  BY <1>1, BusyBy DEF RetryInv, BusyRetriers
<1>4. s # CR!Resting BY <1>3 DEF BusyRetriers, CR!Resting
<1>5. retrier' = [retrier EXCEPT ![w] = s] BY <1>2 DEF CR!At
<1> HIDE DEF s
<1>6. retrier'[w] = s /\ \A v \in Workers : v # w => retrier'[v] = retrier[v]
  BY <1>5 DEF RetryInv, RetryTypes
<1>7. \A v \in Workers, m \in Reminders : CR!Holds(v, m)' <=> CR!Holds(v, m)
  BY <1>1, <1>3, <1>4, <1>6 DEF CR!Holds
<1>8. \A m \in Reminders : Claimable(m)' <=> Claimable(m) BY <1>1, <1>7 DEF Claimable, Secured
<1>9. \A v \in Workers :
          retrier'[v] # CR!Resting /\ retrier'[v].stage # "abandon" => retrier'[v].token <= MaxReadings
  BY <1>1, <1>3, <1>6 DEF RetryCounts
<1>10. CASE CR!Reads(w)
  <2>2. retrier[w].msg \in Reminders BY <1>3 DEF BusyRetriers
  <2>3. readings \in [Reminders -> Nat] /\ readings[retrier[w].msg] + 1 \in Nat
    BY <2>2 DEF RetryCounts
  <2>1. readings' \in [Reminders -> Nat] BY <1>10, <2>3 DEF CR!Reads
  <2> QED BY <1>1, <1>8, <1>9, <1>10, <2>1 DEF CR!Reads, RetryCounts
<1>11. CASE CR!DeleteFails(w)
  <2>1. CR!Mishap /\ UNCHANGED readings BY <1>11 DEF CR!DeleteFails
  <2> QED BY <1>1, <1>8, <1>9, <2>1, MishapMakesRoom DEF RetryCounts
<1> QED BY <1>10, <1>11

LEMMA WritesCount ==
    ASSUME RetryInv, RetryCounts, CR!RetryAssumption, NEW w \in Workers, CR!Writes(w)
    PROVE  RetryCounts'
<1> DEFINE m == retrier[w].msg
<1>0. /\ retrier[w] # CR!Resting /\ m \in Reminders /\ UNCHANGED <<readings, mishaps>>
      /\ retrier[w].token \in Nat \ {0} /\ retrier[w].stage \in {"delete", "abandon", "release"}
  BY AtStage, BusyBy DEF CR!Writes, RetryInv, BusyRetriers
<1>1. retrier'[w] = CR!Resting /\ \A v \in Workers : v # w => retrier'[v] = retrier[v]
  BY DEF CR!Writes, CR!At, RetryInv, RetryTypes
<1>2. /\ row \in [Reminders -> Rows] /\ mishaps \in Nat /\ MaxReadings \in Nat
  BY DEF RetryInv, RetryTypes, RetryCounts, CR!RetryAssumption
<1>3. CASE ~CR!Owned(w)
  <2>1. UNCHANGED row BY <1>3 DEF CR!Writes
  <2>2. \A k \in Reminders, v \in Workers : CR!Holds(v, k) => CR!Holds(v, k)'
    BY <1>1, <1>3, <2>1 DEF CR!Holds, CR!Owned
  <2>3. \A k \in Reminders : Claimable(k)' => Claimable(k) BY <2>1, <2>2 DEF Claimable, Secured
  <2> QED BY <1>0, <1>1, <2>1, <2>3 DEF RetryCounts
<1>4. CASE CR!Owned(w)
  <2> DEFINE r == CR!After(row[m], retrier[w].stage)
  <2>1. /\ r.token = 0 /\ r.attempts = row[m].attempts /\ row[m].attempts \in Nat
        /\ r.status = "pending" => retrier[w].stage = "release"
        /\ r.status \in {"pending", "deleted", "failed_permanent"}
    BY <1>0, <1>2, AfterType DEF Rows
  <2>2. row' = [row EXCEPT ![m] = r] BY <1>4 DEF CR!Writes
  <2>3. row[m].attempts = retrier[w].token BY <1>0, <1>4 DEF RetryCounts, CR!Owned
  <2>4. r.status = "pending" => r.attempts <= MaxReadings
    BY <1>0, <2>1, <2>3 DEF RetryCounts
  <2> HIDE DEF r
  <2>5. row'[m] = r /\ \A k \in Reminders : k # m => row'[k] = row[k] BY <1>0, <1>2, <2>2
  <2>6. \A k \in Reminders : k # m /\ Claimable(k)' => Claimable(k)
    <3> SUFFICES ASSUME NEW k \in Reminders, k # m, Claimable(k)', Secured(k) PROVE FALSE
      BY <2>5 DEF Claimable
    <3>1. PICK v \in Workers : CR!Holds(v, k) BY DEF Secured
    <3>2. v # w BY <3>1 DEF CR!Holds
    <3>3. CR!Holds(v, k)' BY <1>1, <2>5, <3>1, <3>2 DEF CR!Holds
    <3> QED BY <2>5, <3>3 DEF Claimable, Secured
  <2>7. /\ r.attempts <= MaxReadings + 1 + mishaps
        /\ r.status = "pending" => r.attempts <= MaxReadings + mishaps
    BY <1>0, <1>2, <2>1, <2>4 DEF RetryCounts
  <2> HIDE DEF m
  <2>8. \A k \in Reminders :
            /\ row'[k].token # 0 => row'[k].token = row'[k].attempts
            /\ row'[k].attempts <= MaxReadings + 1 + mishaps'
            /\ Claimable(k)' => row'[k].attempts <= MaxReadings + mishaps'
    BY <1>0, <2>1, <2>5, <2>6, <2>7 DEF RetryCounts, Claimable
  <2> QED BY <1>0, <1>1, <2>8 DEF RetryCounts
<1> QED BY <1>3, <1>4

LEMMA StopsCounts ==
    ASSUME RetryInv, RetryCounts, CR!RetryAssumption, NEW w \in Workers, CR!Stops(w)
    PROVE  RetryCounts'
<1>1. CR!Mishap /\ UNCHANGED <<row, readings>> BY DEF CR!Stops
<1>2. retrier'[w] = CR!Resting /\ \A v \in Workers : v # w => retrier'[v] = retrier[v]
  BY DEF CR!Stops, CR!At, RetryInv, RetryTypes
<1> QED BY <1>1, <1>2, MishapMakesRoom DEF RetryCounts

LEMMA RetryStarts == CR!Init /\ CR!RetryAssumption => QueueInv
<1> SUFFICES ASSUME CR!Init, CR!RetryAssumption PROVE RetryCounts
  BY RetryMarksStart DEF QueueInv
<1>1. \A m \in Reminders : row[m].token = 0 /\ row[m].attempts = 0 BY DEF CR!Init, CR!NoRow
<1>2. mishaps = 0 /\ MaxReadings \in Nat /\ MaxMishaps \in Nat BY DEF CR!Init, CR!RetryAssumption
<1> QED BY <1>1, <1>2 DEF CR!Init, RetryCounts

LEMMA RetryStep == QueueInv /\ CR!RetryAssumption /\ [CR!Next]_retrying => QueueInv'
<1> SUFFICES ASSUME RetryInv, RetryCounts, CR!RetryAssumption, [CR!Next]_retrying PROVE RetryCounts'
  BY RetryMarksStep DEF QueueInv
<1>1. CASE UNCHANGED retrying
  BY <1>1 DEF retrying, RetryCounts, Claimable, Secured, CR!Holds
<1> QED BY <1>1, RowStepsCount, ClaimCounts, GoesOnCounts, WritesCount, StopsCounts
        DEF CR!Next, CR!Drains

LEMMA RetryPromises == QueueInv /\ CR!RetryAssumption => CR!TypeOK
<1> SUFFICES ASSUME QueueInv, CR!RetryAssumption PROVE CR!TypeOK OBVIOUS
<1> DEFINE top == MaxReadings + 1 + MaxMishaps
<1>1. /\ row \in [Reminders -> Rows] /\ retrier \in [Workers -> {CR!Resting} \cup BusyRetriers]
      /\ mishaps \in 0 .. MaxMishaps /\ MaxReadings \in Nat /\ MaxMishaps \in Nat
      /\ readings \in [Reminders -> Nat]
  BY DEF QueueInv, RetryInv, RetryTypes, RetryCounts, CR!RetryAssumption
<1>2. \A m \in Reminders : row[m].token \in Nat /\ row[m].attempts \in Nat BY <1>1 DEF Rows
<1>3. \A m \in Reminders : row[m].token <= row[m].attempts
                           /\ row[m].attempts <= MaxReadings + 1 + mishaps
  BY DEF QueueInv, RetryInv, TokenInv, RetryCounts
<1>4. top \in Nat /\ MaxReadings + 1 + mishaps <= top /\ mishaps \in Nat BY <1>1
<1>5. ASSUME NEW m \in Reminders
      PROVE  row[m].token \in 0 .. top /\ row[m].attempts \in 0 .. top
  BY <1>1, <1>2, <1>3, <1>4
<1> HIDE DEF top
<1>6. ASSUME NEW m \in Reminders
      PROVE  row[m] \in
         [status : {"none", "pending", "claimed", "deleted", "failed_permanent"},
          ready : BOOLEAN, lease : {"none", "held", "expired"},
          token : 0 .. top, attempts : 0 .. top]
  BY <1>1, <1>5 DEF Rows
<1>7. ASSUME NEW w \in Workers, retrier[w] # CR!Resting
      PROVE  retrier[w] \in [stage : {"read", "delete", "abandon", "release"}, msg : Reminders,
                             token : 1 .. top]
  <2>1. retrier[w] \in BusyRetriers BY <1>1, <1>7
  <2>2. retrier[w].msg \in Reminders /\ retrier[w].token \in Nat \ {0} BY <2>1 DEF BusyRetriers
  <2>3. retrier[w].token <= row[retrier[w].msg].attempts BY <1>7 DEF QueueInv, RetryInv, TokenInv
  <2>4. retrier[w].token \in 1 .. top BY <1>2, <1>4, <1>5, <2>2, <2>3
  <2> QED BY <2>1, <2>4 DEF BusyRetriers
<1> QED BY <1>1, <1>6, <1>7 DEF CR!TypeOK, top

-----------------------------------------------------------------------------
(* The refinement.  Held is the holder of the contract, message by message. *)

Held == [m \in Reminders |-> CR!Holder(m)]

\* Who that is.
HeldRight ==
    \A m \in Reminders :
        /\ \A w \in Workers : row[m].status = "claimed" /\ CR!Holds(w, m) => Held[m] = w
        /\ row[m].status # "claimed" \/ (\A w \in Workers : ~CR!Holds(w, m)) => Held[m] = Nobody

LEMMA HeldIsRight == RetryInv => HeldRight
<1> SUFFICES ASSUME RetryInv, NEW m \in Reminders
             PROVE  /\ \A w \in Workers : row[m].status = "claimed" /\ CR!Holds(w, m) => Held[m] = w
                    /\ row[m].status # "claimed" \/ (\A w \in Workers : ~CR!Holds(w, m))
                         => Held[m] = Nobody
  BY DEF HeldRight
<1>1. Held[m] = CR!Holder(m) BY DEF Held
<1>2. ASSUME NEW w \in Workers, row[m].status = "claimed", CR!Holds(w, m) PROVE Held[m] = w
  <2> DEFINE v == CHOOSE v \in Workers : CR!Holds(v, m)
  <2>1. v \in Workers /\ CR!Holds(v, m) BY <1>2
  <2>2. CR!Holder(m) = v BY <1>2 DEF CR!Holder
  <2> HIDE DEF v
  <2>3. v = w BY <1>2, <2>1 DEF RetryInv, TokenInv, CR!Holds
  <2> QED BY <1>1, <2>2, <2>3
<1>3. ASSUME row[m].status # "claimed" \/ (\A w \in Workers : ~CR!Holds(w, m))
      PROVE  Held[m] = Nobody
  BY <1>1, <1>3 DEF CR!Holder
<1> QED BY <1>2, <1>3

LEMMA HeldStaysRight == RetryInv' => HeldRight'
  BY HeldIsRight, PTL

\* A message whose claim and whose workers are as before has its holder.
LEMMA HeldKept ==
    ASSUME HeldRight, HeldRight', NEW m \in Reminders,
           row'[m].status = "claimed" <=> row[m].status = "claimed",
           \A v \in Workers : CR!Holds(v, m)' <=> CR!Holds(v, m)
    PROVE  Held'[m] = Held[m]
  BY DEF HeldRight

LEMMA HeldEverywhere ==
    ASSUME \A m \in Reminders : Held'[m] = Held[m] PROVE Held' = Held
  BY DEF Held

LEMMA HeldAt ==
    ASSUME NEW m \in Reminders, NEW w, Held'[m] = w,
           \A n \in Reminders : n # m => Held'[n] = Held[n]
    PROVE  Held' = [Held EXCEPT ![m] = w]
  BY DEF Held

LEMMA RowStepsMap ==
    ASSUME RetryInv, HeldRight, HeldRight', NEW m \in Reminders,
           CR!Enqueue(m) \/ CR!BackoffEnds(m) \/ CR!LeaseExpires(m)
    PROVE  CR!Ended' = CR!Ended /\ Held' = Held
<1>1. /\ UNCHANGED retrier
      /\ \A n \in Reminders : row'[n].token = row[n].token
      /\ \A n \in Reminders : \/ row'[n].status = row[n].status
                              \/ row[n].status = "none" /\ row'[n].status = "pending"
  BY RowSteps
<1>2. \A n \in Reminders : /\ row'[n].status = "claimed" <=> row[n].status = "claimed"
                           /\ \A v \in Workers : CR!Holds(v, n)' <=> CR!Holds(v, n)
  BY <1>1 DEF CR!Holds
<1>3. CR!Ended' = CR!Ended BY <1>1 DEF CR!Ended
<1> QED BY <1>2, <1>3, HeldKept, HeldEverywhere

LEMMA ClaimMap ==
    ASSUME RetryInv, HeldRight, HeldRight', NEW w \in Workers, NEW m \in Reminders, CR!Claim(w, m)
    PROVE  m \notin CR!Ended /\ CR!Ended' = CR!Ended /\ Held' = [Held EXCEPT ![m] = w]
<1>1. /\ row[m].status \in {"pending", "claimed"}
      /\ row'[m].status = "claimed" /\ retrier[w] = CR!Resting
      /\ retrier'[w] # CR!Resting /\ retrier'[w].msg = m
      /\ retrier'[w].token = row'[m].token
      /\ \A n \in Reminders : n # m => row'[n] = row[n]
      /\ \A v \in Workers : v # w => retrier'[v] = retrier[v]
  BY ClaimStep
<1>2. m \notin CR!Ended /\ CR!Ended' = CR!Ended BY <1>1 DEF CR!Ended
<1>3. Held'[m] = w BY <1>1 DEF HeldRight, CR!Holds
<1>4. ASSUME NEW n \in Reminders, n # m PROVE Held'[n] = Held[n]
  <2>1. row'[n].status = "claimed" <=> row[n].status = "claimed" BY <1>1, <1>4
  <2>2. \A v \in Workers : CR!Holds(v, n)' <=> CR!Holds(v, n) BY <1>1, <1>4 DEF CR!Holds
  <2> QED BY <2>1, <2>2, HeldKept
<1> QED BY <1>2, <1>3, <1>4, HeldAt

LEMMA GoesOnMap ==
    ASSUME RetryInv, HeldRight, HeldRight', NEW w \in Workers, CR!Reads(w) \/ CR!DeleteFails(w)
    PROVE  CR!Ended' = CR!Ended /\ Held' = Held
<1>1. PICK s \in BusyRetriers : /\ retrier[w] # CR!Resting /\ CR!At(w, s)
                                /\ s.msg = retrier[w].msg /\ s.token = retrier[w].token
  BY GoesOn
<1>2. UNCHANGED row BY GoesOn
<1>3. s # CR!Resting BY DEF BusyRetriers, CR!Resting
<1>4. retrier'[w] = s /\ \A v \in Workers : v # w => retrier'[v] = retrier[v]
  BY <1>1 DEF CR!At, RetryInv, RetryTypes
<1>5. \A n \in Reminders, v \in Workers : CR!Holds(v, n)' <=> CR!Holds(v, n)
  BY <1>1, <1>2, <1>3, <1>4 DEF CR!Holds
<1>6. CR!Ended' = CR!Ended BY <1>2 DEF CR!Ended
<1> QED BY <1>2, <1>5, <1>6, HeldKept, HeldEverywhere

\* A worker lets go of its row without writing it.
LEMMA LetsGo ==
    ASSUME RetryInv, HeldRight, HeldRight', NEW w \in Workers, retrier[w] # CR!Resting,
           UNCHANGED row, CR!At(w, CR!Resting)
    PROVE  /\ CR!Ended' = CR!Ended
           /\ \/ Held' = Held
              \/ \E m \in Reminders : CR!Holds(w, m) /\ Held' = [Held EXCEPT ![m] = Nobody]
<1>0. PICK m \in Reminders : m = retrier[w].msg BY BusyBy DEF RetryInv, BusyRetriers
<1>1. retrier'[w] = CR!Resting /\ \A v \in Workers : v # w => retrier'[v] = retrier[v]
  BY DEF CR!At, RetryInv, RetryTypes
<1>2. CR!Ended' = CR!Ended BY DEF CR!Ended
<1>3. \A n \in Reminders : n # m => Held'[n] = Held[n]
  <2>1. ASSUME NEW n \in Reminders, n # m PROVE Held'[n] = Held[n]
    <3>1. \A v \in Workers : CR!Holds(v, n)' <=> CR!Holds(v, n) BY <1>0, <1>1, <2>1 DEF CR!Holds
    <3> QED BY <3>1, HeldKept
  <2> QED BY <2>1
<1>4. CASE row[m].status = "claimed" /\ CR!Holds(w, m)
  <2>1. ASSUME NEW v \in Workers PROVE ~CR!Holds(v, m)'
    <3>1. CASE v = w BY <1>1, <3>1 DEF CR!Holds
    <3>2. CASE v # w
      <4>1. ~CR!Holds(v, m) BY <1>0, <1>4, <3>2 DEF HeldRight
      <4> QED BY <1>1, <3>2, <4>1 DEF CR!Holds
    <3> QED BY <3>1, <3>2
  <2>2. Held'[m] = Nobody BY <1>0, <2>1 DEF HeldRight
  <2> QED BY <1>0, <1>2, <1>3, <1>4, <2>2, HeldAt
<1>5. CASE row[m].status # "claimed"
  <2>1. Held'[m] = Held[m] BY <1>0, <1>5 DEF HeldRight
  <2> QED BY <1>2, <1>3, <2>1, HeldEverywhere
<1>6. CASE ~CR!Holds(w, m)
  <2>1. \A v \in Workers : CR!Holds(v, m)' <=> CR!Holds(v, m) BY <1>1, <1>6 DEF CR!Holds
  <2>2. Held'[m] = Held[m] BY <1>0, <2>1, HeldKept
  <2> QED BY <1>2, <1>3, <2>2, HeldEverywhere
<1> QED BY <1>4, <1>5, <1>6

\* A write takes effect only for the holder.
LEMMA WritesMap ==
    ASSUME RetryInv, HeldRight, HeldRight', NEW w \in Workers, CR!Writes(w)
    PROVE  \/ CR!Ended' = CR!Ended /\ Held' = Held
           \/ \E m \in Reminders : /\ Held[m] = w /\ m \notin CR!Ended
                                   /\ Held' = [Held EXCEPT ![m] = Nobody]
                                   /\ CR!Ended' = CR!Ended \/ CR!Ended' = CR!Ended \cup {m}
<1> DEFINE m == retrier[w].msg
<1>0. m \in Reminders /\ retrier[w] # CR!Resting /\ CR!At(w, CR!Resting) BY WriteStep
<1>1. retrier'[w] = CR!Resting /\ \A v \in Workers : v # w => retrier'[v] = retrier[v]
  BY <1>0 DEF CR!At, RetryInv, RetryTypes
<1>2. CASE ~CR!Owned(w)
  <2>1. UNCHANGED row BY <1>2, WriteStep
  <2>2. \A n \in Reminders : ~CR!Holds(w, n) BY <1>2 DEF CR!Owned, CR!Holds
  <2> QED BY <1>0, <2>1, <2>2, LetsGo
<1>3. CASE CR!Owned(w)
  <2>1. /\ row[m].status = "claimed"
        /\ row'[m].status \in {"pending", "deleted", "failed_permanent"}
        /\ \A n \in Reminders : n # m => row'[n] = row[n]
    BY <1>3, WriteStep
  <2>2. CR!Holds(w, m) BY <1>0, <1>3 DEF CR!Owned, CR!Holds
  <2>3. ASSUME NEW n \in Reminders, n # m PROVE Held'[n] = Held[n]
    <3>1. \A v \in Workers : CR!Holds(v, n)' <=> CR!Holds(v, n) BY <1>1, <2>1, <2>3 DEF CR!Holds
    <3>2. row'[n].status = "claimed" <=> row[n].status = "claimed" BY <2>1, <2>3
    <3> QED BY <3>1, <3>2, HeldKept
  <2> HIDE DEF m
  <2>4. Held[m] = w BY <1>0, <2>1, <2>2 DEF HeldRight
  <2>5. Held'[m] = Nobody BY <1>0, <2>1 DEF HeldRight
  <2>6. Held' = [Held EXCEPT ![m] = Nobody] BY <1>0, <2>3, <2>5, HeldAt
  <2>7. m \notin CR!Ended BY <2>1 DEF CR!Ended
  <2>8. CR!Ended' = CR!Ended \/ CR!Ended' = CR!Ended \cup {m}
    <3>1. CASE row'[m].status = "pending" BY <1>0, <2>1, <3>1 DEF CR!Ended
    <3>2. CASE row'[m].status \in {"deleted", "failed_permanent"}
      BY <1>0, <2>1, <3>2 DEF CR!Ended
    <3> QED BY <2>1, <3>1, <3>2
  <2> QED BY <1>0, <2>4, <2>6, <2>7, <2>8
<1> QED BY <1>2, <1>3

LEMMA StepMaps ==
    RetryInv /\ HeldRight /\ HeldRight' /\ [CR!Next]_retrying => [CR!Jobs!Next]_<<CR!Ended, Held>>
<1> SUFFICES ASSUME RetryInv, HeldRight, HeldRight', [CR!Next]_retrying
             PROVE  CR!Jobs!Next \/ (CR!Ended' = CR!Ended /\ Held' = Held)
  OBVIOUS
<1> USE DEF Held
<1>1. CASE UNCHANGED retrying BY <1>1 DEF retrying, CR!Ended, CR!Holder, CR!Holds
<1>2. ASSUME NEW m \in Reminders, CR!Enqueue(m) \/ CR!BackoffEnds(m) \/ CR!LeaseExpires(m)
      PROVE  CR!Ended' = CR!Ended /\ Held' = Held
  BY <1>2, RowStepsMap
<1>3. ASSUME NEW w \in Workers, NEW m \in Reminders, CR!Claim(w, m) PROVE CR!Jobs!Next
  <2>1. m \notin CR!Ended /\ CR!Ended' = CR!Ended /\ Held' = [Held EXCEPT ![m] = w] BY <1>3, ClaimMap
  <2>2. CR!Jobs!Take(w, m) BY <2>1 DEF CR!Jobs!Take
  <2> QED BY <2>2 DEF CR!Jobs!Next
<1>4. ASSUME NEW w \in Workers, CR!Reads(w) \/ CR!DeleteFails(w)
      PROVE  CR!Ended' = CR!Ended /\ Held' = Held
  BY <1>4, GoesOnMap
<1>5. ASSUME NEW w \in Workers, CR!Writes(w)
      PROVE  CR!Jobs!Next \/ (CR!Ended' = CR!Ended /\ Held' = Held)
  <2>1. ASSUME NEW m \in Reminders, Held[m] = w, m \notin CR!Ended,
               Held' = [Held EXCEPT ![m] = Nobody],
               CR!Ended' = CR!Ended \/ CR!Ended' = CR!Ended \cup {m}
        PROVE  CR!Jobs!Next
    <3>1. CR!Jobs!GiveBack(w, m) \/ CR!Jobs!End(w, m) BY <2>1 DEF CR!Jobs!GiveBack, CR!Jobs!End
    <3> QED BY <3>1 DEF CR!Jobs!Next
  <2> QED BY <1>5, <2>1, WritesMap
<1>6. ASSUME NEW w \in Workers, CR!Stops(w)
      PROVE  CR!Jobs!Next \/ (CR!Ended' = CR!Ended /\ Held' = Held)
  <2>1. retrier[w] # CR!Resting /\ UNCHANGED row /\ CR!At(w, CR!Resting) BY <1>6 DEF CR!Stops
  <2>2. ASSUME NEW m \in Reminders, CR!Ended' = CR!Ended, Held' = [Held EXCEPT ![m] = Nobody]
        PROVE  CR!Jobs!Next
    <3>1. CR!Jobs!Forget(m) BY <2>2 DEF CR!Jobs!Forget
    <3> QED BY <3>1 DEF CR!Jobs!Next
  <2> QED BY <2>1, <2>2, LetsGo
<1> QED BY <1>1, <1>2, <1>3, <1>4, <1>5, <1>6 DEF CR!Next, CR!Drains

LEMMA InitMaps == CR!Init => CR!Jobs!Init
  BY DEF CR!Init, CR!Jobs!Init, CR!Ended, CR!Holder, CR!NoRow
=============================================================================
