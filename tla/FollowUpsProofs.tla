-------------------------- MODULE FollowUpsProofs --------------------------
(***************************************************************************)
(* Theorems about FollowUps, for any number of messages and of workers,    *)
(* any schedule, and any bounds on the clock, the changes and the faults.  *)
(***************************************************************************)
EXTENDS FollowUps, TLAPS, FiniteSetTheorems

Found == [stage : {"found"}, due : Times, at : Times]
Drafting == [stage : {"drafting"}, due : Times, msg : Msgs, setAfter : Nat, takenAfter : Nat]
Resting == [stage : {"idle"}]
Deciding == [stage : {"idle", "cold"}]
Nudging == [stage : {"drafting", "bump"}, anchor : Times, step : 1 .. MaxFollowUps]

\* An outstanding promise names its message and was written after everything
\* the lead has said so far.
PromiseIsCurrent ==
    conv.promiseAt # NoTime => conv.promiseOf # NoMsg /\ conv.setAfter = messagesHeard

\* A commitment a message was queued for has its key in the queue.
PromiseKeyed ==
    \A m \in Msgs : promised[m] <= 1 /\ (promised[m] > 0 => <<"promise", m>> \in keys)

\* A nudge whose key is in the queue was queued.
NudgeKeyed ==
    \A a \in Times, k \in 1 .. MaxFollowUps : <<"nurture", a, k>> \in keys => <<a, k>> \in nudged

IInv == /\ TypeOK /\ PromiseIsCurrent /\ NotAfterAnAnswer
        /\ PromiseKeyed /\ NudgeKeyed /\ CountedNudgeWasQueued

-----------------------------------------------------------------------------
(* Types. *)

LEMMA Constants ==
    /\ MaxTime \in Nat /\ MaxFollowUps \in Nat /\ MaxAttempts \in Nat
    /\ MaxChanges \in Nat /\ MaxFaults \in Nat
    /\ NoMsg \notin Msgs /\ IsFiniteSet(Msgs)
    /\ Cardinality(Msgs) \in Nat
  BY MessageAssumption, ScheduleAssumption, BoundAssumption, FS_CardinalityType

\* The count of what the lead has said.
LEMMA HeardType == messagesHeard \in 0 .. Cardinality(Msgs)
<1>1. Heard \subseteq Msgs BY DEF Heard
<1>2. IsFiniteSet(Heard) /\ Cardinality(Heard) <= Cardinality(Msgs)
  BY <1>1, Constants, FS_Subset
<1> QED BY <1>2, Constants, FS_CardinalityType DEF messagesHeard

LEMMA AnchorType == ASSUME TypeOK PROVE Anchor(conv) \in Times
<1>1. conv.lastInbound \in Instants /\ conv.resumed \in Instants BY DEF TypeOK, Conversations
<1> QED BY <1>1, Constants DEF Anchor, Later, Instants, Times, NoTime

LEMMA InitTypes == Init => TypeOK
<1> SUFFICES ASSUME Init PROVE TypeOK OBVIOUS
<1>1. conv \in Conversations
  BY Constants DEF Init, Conversations, Instants, Times, NoTime
<1> QED BY <1>1, Constants DEF Init, TypeOK, Times, Idle

LEMMA ConvFields ==
    ASSUME TypeOK
    PROVE  /\ conv \in Conversations
           /\ conv.promiseAt \in Instants /\ conv.promiseOf \in Msgs \cup {NoMsg}
           /\ conv.setAfter \in 0 .. Cardinality(Msgs) /\ conv.step \in 0 .. MaxFollowUps
           /\ conv.open \in BOOLEAN /\ now \in Times /\ now \in Instants /\ now \in Nat
  BY Constants DEF TypeOK, Conversations, Instants, Times

\* The document after each kind of write.
LEMMA AnsweredType == ASSUME TypeOK PROVE Answered(conv) \in Conversations
<1>1. /\ now \in Instants /\ NoTime \in Instants /\ NoMsg \in Msgs \cup {NoMsg}
      /\ 0 \in 0 .. MaxFollowUps /\ conv \in Conversations
  BY ConvFields, Constants DEF Instants
<1> QED BY <1>1 DEF Answered, Conversations

LEMMA OwnerTypes ==
    ASSUME TypeOK, Owner PROVE conv' \in Conversations /\ changes' \in 0 .. MaxChanges
<1> USE ConvFields, Constants
<1>0. changes \in 0 .. MaxChanges BY DEF TypeOK
<1>1. ASSUME NEW c \in Conversations, Change(c) \/ Reopen(c)
      PROVE  conv' \in Conversations /\ changes' \in 0 .. MaxChanges
  BY <1>0, <1>1 DEF Change, Reopen
<1>2. CASE WeWrite BY <1>0, <1>2 DEF WeWrite, Conversations
<1>3. CASE MarkOptedOut
  <2>1. [conv EXCEPT !.optedOut = TRUE, !.automation = FALSE] \in Conversations
    BY DEF Conversations
  <2> QED BY <1>1, <1>3, <2>1 DEF MarkOptedOut
<1>4. CASE MarkSalesRejected
  <2>1. [conv EXCEPT !.rejected = TRUE, !.automation = FALSE, !.promiseAt = NoTime,
                     !.promiseOf = NoMsg] \in Conversations
    BY DEF Conversations, Instants
  <2> QED BY <1>1, <1>4, <2>1 DEF MarkSalesRejected
<1>5. CASE UpdateStage
  <2>1. [conv EXCEPT !.open = ~@] \in Conversations BY DEF Conversations
  <2> QED BY <1>1, <1>5, <2>1 DEF UpdateStage
<1>6. CASE SoftDelete
  <2>1. [conv EXCEPT !.deleted = TRUE, !.automation = FALSE] \in Conversations
    BY DEF Conversations
  <2> QED BY <1>1, <1>6, <2>1 DEF SoftDelete
<1>7. CASE Restore
  <2>1. [conv EXCEPT !.deleted = FALSE] \in Conversations BY DEF Conversations
  <2> QED BY <1>1, <1>7, <2>1 DEF Restore
<1>8. ASSUME NEW on \in BOOLEAN, SetAutomation(on)
      PROVE conv' \in Conversations /\ changes' \in 0 .. MaxChanges
  <2>1. /\ [conv EXCEPT !.automation = TRUE, !.rejected = FALSE] \in Conversations
        /\ [conv EXCEPT !.automation = FALSE] \in Conversations
    BY DEF Conversations
  <2> QED BY <1>1, <1>8, <2>1 DEF SetAutomation
<1>9. ASSUME NEW on \in BOOLEAN, SetNurture(on)
      PROVE conv' \in Conversations /\ changes' \in 0 .. MaxChanges
  <2>0. 0 \in 0 .. MaxFollowUps /\ now \in Instants OBVIOUS
  <2>1. /\ [conv EXCEPT !.nurture = TRUE, !.resumed = now, !.step = 0] \in Conversations
        /\ [conv EXCEPT !.nurture = FALSE] \in Conversations
    BY <2>0 DEF Conversations
  <2> QED BY <1>1, <1>9, <2>1 DEF SetNurture
<1> QED BY <1>2, <1>3, <1>4, <1>5, <1>6, <1>7, <1>8, <1>9 DEF Owner

\* What the owner and our own messages leave alone.
LEMMA OwnerFrame ==
    Owner => UNCHANGED <<now, turn, retries, promisers, nurturers, keys, promised,
                         nudged, faults>>
  BY DEF Owner, WeWrite, MarkOptedOut, MarkSalesRejected, UpdateStage, SoftDelete, Restore,
         SetAutomation, SetNurture, Change, Reopen, Sweeps, Queue

LEMMA SweepTypes ==
    ASSUME TypeOK
    PROVE  /\ promisers \in [PromiseWorkers -> Resting \cup Found \cup Drafting]
           /\ nurturers \in [NurtureWorkers -> Deciding \cup Nudging]
  BY DEF TypeOK, Resting, Found, Drafting, Deciding, Nudging

\* A step of a sweep writes its own worker's entry.
LEMMA PromiserType ==
    ASSUME TypeOK, NEW w \in PromiseWorkers, NEW p \in Resting \cup Found \cup Drafting,
           Promiser(w, p)
    PROVE  promisers' \in [PromiseWorkers -> Resting \cup Found \cup Drafting]
  BY SweepTypes DEF Promiser

LEMMA NurturerType ==
    ASSUME TypeOK, NEW w \in NurtureWorkers, NEW n \in Deciding \cup Nudging, Nurturer(w, n)
    PROVE  nurturers' \in [NurtureWorkers -> Deciding \cup Nudging]
  BY SweepTypes DEF Nurturer

LEMMA IdleType == Idle \in Resting /\ Idle \in Deciding
  BY DEF Idle, Resting, Deciding

\* What a worker holds at each stage.
LEMMA FoundBy ==
    ASSUME TypeOK, NEW w \in PromiseWorkers, promisers[w].stage = "found"
    PROVE  promisers[w] \in Found
  BY SweepTypes DEF Resting, Found, Drafting

LEMMA DraftedBy ==
    ASSUME TypeOK, NEW w \in PromiseWorkers, promisers[w].stage = "drafting"
    PROVE  promisers[w] \in Drafting
  BY SweepTypes DEF Resting, Found, Drafting

LEMMA NudgedBy ==
    ASSUME TypeOK, NEW w \in NurtureWorkers, nurturers[w].stage \in {"drafting", "bump"}
    PROVE  nurturers[w] \in Nudging
  BY SweepTypes DEF Deciding, Nudging

\* A claim is of a promise that names a message.
LEMMA ClaimedDraft ==
    ASSUME TypeOK, PromiseIsCurrent, NEW w \in PromiseWorkers,
           promisers[w].stage = "found", StillDue(w)
    PROVE  /\ [stage |-> "drafting", due |-> promisers[w].due, msg |-> conv.promiseOf,
               setAfter |-> conv.setAfter, takenAfter |-> messagesHeard] \in Drafting
           /\ conv.setAfter = messagesHeard
<1>1. promisers[w].due \in Times BY FoundBy DEF Found
<1>2. conv.promiseAt # NoTime BY <1>1 DEF StillDue, Times, NoTime
<1>3. conv.promiseOf \in Msgs /\ conv.setAfter = messagesHeard
  BY <1>2, ConvFields DEF PromiseIsCurrent
<1>4. messagesHeard \in Nat BY HeardType, Constants
<1> QED BY <1>1, <1>3, <1>4 DEF Drafting

\* A promise the classifier found is written whatever else the document says.
LEMMA PromiseSetType ==
    ASSUME TypeOK, NEW m \in Msgs, NEW due \in Times, PromiseSet(m, due)
    PROVE  conv' \in Conversations
<1>1. /\ due \in Instants /\ m \in Msgs \cup {NoMsg} /\ messagesHeard \in 0 .. Cardinality(Msgs)
  BY HeardType DEF Instants
<1>2. conv \in Conversations BY ConvFields
<1> QED BY <1>1, <1>2 DEF PromiseSet, Conversations

LEMMA TurnDue ==
    ASSUME TypeOK, NEW d \in Delays, now + d <= MaxTime PROVE now + d \in Times
  BY BoundAssumption, ConvFields DEF Times

-----------------------------------------------------------------------------
LEMMA TypeStep == TypeOK /\ PromiseIsCurrent /\ [Next]_vars => TypeOK'
<1> SUFFICES ASSUME TypeOK, PromiseIsCurrent, [Next]_vars PROVE TypeOK' OBVIOUS
<1> USE Constants
<1>0. ASSUME conv' \in Conversations,
             promisers' \in [PromiseWorkers -> Resting \cup Found \cup Drafting],
             nurturers' \in [NurtureWorkers -> Deciding \cup Nudging],
             turn' \in [Msgs -> {"unheard", "waiting", "done"}],
             retries' \in [Msgs -> 0 .. MaxAttempts],
             promised' \in [Msgs -> Nat],
             nudged' \subseteq Times \X (1 .. MaxFollowUps),
             now' \in Times, changes' \in 0 .. MaxChanges, faults' \in 0 .. MaxFaults
      PROVE  TypeOK'
  BY <1>0 DEF TypeOK, Resting, Found, Drafting, Deciding, Nudging
<1>a. /\ conv \in Conversations
      /\ promisers \in [PromiseWorkers -> Resting \cup Found \cup Drafting]
      /\ nurturers \in [NurtureWorkers -> Deciding \cup Nudging]
      /\ turn \in [Msgs -> {"unheard", "waiting", "done"}]
      /\ retries \in [Msgs -> 0 .. MaxAttempts]
      /\ promised \in [Msgs -> Nat]
      /\ nudged \subseteq Times \X (1 .. MaxFollowUps)
      /\ now \in Times /\ changes \in 0 .. MaxChanges /\ faults \in 0 .. MaxFaults
  BY SweepTypes DEF TypeOK
<1>1. CASE UNCHANGED vars BY <1>0, <1>1, <1>a DEF vars
<1>2. CASE Tick
  <2>1. now' \in Times BY <1>2, <1>a DEF Tick, Times
  <2> QED BY <1>0, <1>2, <1>a, <2>1 DEF Tick, Sweeps, Queue
<1>3. CASE Stop BY <1>0, <1>3, <1>a DEF Stop, vars
<1>4. ASSUME NEW m \in Msgs, LeadWrites(m) PROVE TypeOK'
  <2>1. conv' \in Conversations BY <1>4, AnsweredType DEF LeadWrites
  <2>2. turn' \in [Msgs -> {"unheard", "waiting", "done"}] BY <1>4, <1>a DEF LeadWrites
  <2> QED BY <1>0, <1>4, <1>a, <2>1, <2>2 DEF LeadWrites, Sweeps, Queue
<1>5. CASE Owner BY <1>0, <1>5, <1>a, OwnerTypes, OwnerFrame
<1>6. ASSUME NEW m \in Msgs, Turn(m) PROVE TypeOK'
  <2>1. CASE TurnFindsNothing(m)
    BY <1>0, <1>a, <2>1 DEF TurnFindsNothing, Sweeps, Queue
  <2>2. CASE TurnFailsTransiently(m)
    BY <1>0, <1>a, <2>2 DEF TurnFailsTransiently, Sweeps, Queue
  <2>3. CASE RetryEnds(m) BY <1>0, <1>a, <2>3 DEF RetryEnds, Sweeps, Queue
  <2>4. ASSUME NEW d \in Delays, TurnCommits(m, d) PROVE TypeOK'
    <3>1. conv' \in Conversations BY <2>4, TurnDue, PromiseSetType DEF TurnCommits
    <3> QED BY <1>0, <1>a, <2>4, <3>1 DEF TurnCommits, Sweeps, Queue
  <2>5. ASSUME NEW d \in Delays, RetryCommits(m, d) PROVE TypeOK'
    <3>1. conv' \in Conversations BY <2>5, TurnDue, PromiseSetType DEF RetryCommits
    <3>2. retries' \in [Msgs -> 0 .. MaxAttempts] BY <2>5, <1>a DEF RetryCommits
    <3> QED BY <1>0, <1>a, <2>5, <3>1, <3>2 DEF RetryCommits, Sweeps, Queue
  <2> QED BY <1>6, <2>1, <2>2, <2>3, <2>4, <2>5 DEF Turn
<1>7. ASSUME NEW w \in PromiseWorkers, PromiseSweep(w) PROVE TypeOK'
  <2>1. CASE FindDuePromise(w)
    <3>1. [stage |-> "found", due |-> conv.promiseAt, at |-> now] \in Found
      BY <2>1, ConvFields DEF FindDuePromise, Found, Instants
    <3>2. promisers' \in [PromiseWorkers -> Resting \cup Found \cup Drafting]
      BY <2>1, <3>1, PromiserType DEF FindDuePromise
    <3> QED BY <1>0, <1>a, <2>1, <3>2 DEF FindDuePromise, Queue
  <2>2. CASE ClaimPromise(w)
    <3>1. conv' \in Conversations BY <2>2, <1>a DEF ClaimPromise, Conversations, Instants
    <3>2. promisers' \in [PromiseWorkers -> Resting \cup Found \cup Drafting]
      BY <2>2, PromiserType, IdleType, ClaimedDraft DEF ClaimPromise
    <3> QED BY <1>0, <1>a, <2>2, <3>1, <3>2 DEF ClaimPromise, Queue
  <2>3. CASE LosePromise(w)
    <3>1. promisers' \in [PromiseWorkers -> Resting \cup Found \cup Drafting]
      BY <2>3, PromiserType, IdleType DEF LosePromise
    <3> QED BY <1>0, <1>a, <2>3, <3>1 DEF LosePromise, Queue
  <2>4. CASE EnqueuePromise(w)
    <3>1. promisers' \in [PromiseWorkers -> Resting \cup Found \cup Drafting]
      BY <2>4, PromiserType, IdleType DEF EnqueuePromise
    <3>2. promisers[w].msg \in Msgs BY <2>4, DraftedBy DEF EnqueuePromise, Drafting
    <3>3. conv' \in Conversations
      BY <2>4, <1>a, ConvFields DEF EnqueuePromise, Conversations
    <3>4. promised' \in [Msgs -> Nat] BY <2>4, <1>a, <3>2 DEF EnqueuePromise
    <3> QED BY <1>0, <1>a, <2>4, <3>1, <3>3, <3>4 DEF EnqueuePromise
  <2>5. CASE DropPromise(w)
    <3>1. promisers' \in [PromiseWorkers -> Resting \cup Found \cup Drafting]
      BY <2>5, PromiserType, IdleType DEF DropPromise
    <3> QED BY <1>0, <1>a, <2>5, <3>1 DEF DropPromise, Queue
  <2> QED BY <1>7, <2>1, <2>2, <2>3, <2>4, <2>5 DEF PromiseSweep
<1>8. ASSUME NEW w \in NurtureWorkers, NurtureSweep(w) PROVE TypeOK'
  <2>1. CASE DecideCold(w)
    <3>1. nurturers' \in [NurtureWorkers -> Deciding \cup Nudging]
      BY <2>1, NurturerType DEF DecideCold, Deciding
    <3> QED BY <1>0, <1>a, <2>1, <3>1 DEF DecideCold, Queue
  <2>2. CASE MarkCold(w)
    <3>1. nurturers' \in [NurtureWorkers -> Deciding \cup Nudging]
      BY <2>2, NurturerType, IdleType DEF MarkCold
    <3>2. conv' \in Conversations BY <2>2, <1>a DEF MarkCold, Conversations
    <3> QED BY <1>0, <1>a, <2>2, <3>1, <3>2 DEF MarkCold, Queue
  <2>3. CASE DecideNudge(w)
    <3>1. conv.step + 1 \in 1 .. MaxFollowUps BY <2>3, ConvFields DEF DecideNudge, NudgeIsDue
    <3>2. [stage |-> "drafting", anchor |-> Anchor(conv), step |-> conv.step + 1] \in Nudging
      BY <3>1, AnchorType DEF Nudging
    <3>3. nurturers' \in [NurtureWorkers -> Deciding \cup Nudging]
      BY <2>3, <3>2, NurturerType DEF DecideNudge
    <3> QED BY <1>0, <1>a, <2>3, <3>3 DEF DecideNudge, Queue
  <2>4. CASE EnqueueNudge(w)
    <3>1. nurturers[w] \in Nudging BY <2>4, NudgedBy DEF EnqueueNudge
    <3>2. [nurturers[w] EXCEPT !.stage = "bump"] \in Nudging BY <3>1 DEF Nudging
    <3>3. nurturers' \in [NurtureWorkers -> Deciding \cup Nudging]
      BY <2>4, <3>2, NurturerType DEF EnqueueNudge
    <3>4. conv' \in Conversations BY <2>4, <1>a, ConvFields DEF EnqueueNudge, Conversations
    <3>5. nudged' \subseteq Times \X (1 .. MaxFollowUps)
      BY <2>4, <1>a, <3>1 DEF EnqueueNudge, Nudging
    <3> QED BY <1>0, <1>a, <2>4, <3>3, <3>4, <3>5 DEF EnqueueNudge
  <2>5. CASE BumpStep(w)
    <3>1. nurturers[w].step \in 0 .. MaxFollowUps BY <2>5, NudgedBy DEF BumpStep, Nudging
    <3>2. conv' \in Conversations BY <2>5, <1>a, <3>1 DEF BumpStep, Conversations
    <3>3. nurturers' \in [NurtureWorkers -> Deciding \cup Nudging]
      BY <2>5, NurturerType, IdleType DEF BumpStep
    <3> QED BY <1>0, <1>a, <2>5, <3>2, <3>3 DEF BumpStep, Queue
  <2> QED BY <1>8, <2>1, <2>2, <2>3, <2>4, <2>5 DEF NurtureSweep
<1>9. ASSUME NEW w \in NurtureWorkers, NurtureFails(w) PROVE TypeOK'
  <2>1. nurturers' \in [NurtureWorkers -> Deciding \cup Nudging]
    BY <1>9, NurturerType, IdleType DEF NurtureFails
  <2>2. faults' \in 0 .. MaxFaults BY <1>9, <1>a DEF NurtureFails
  <2> QED BY <1>0, <1>9, <1>a, <2>1, <2>2 DEF NurtureFails, Queue
<1> QED BY <1>1, <1>2, <1>3, <1>4, <1>5, <1>6, <1>7, <1>8, <1>9 DEF Next, Lead

-----------------------------------------------------------------------------
(* A promise is answered only by being cleared. *)

LEMMA HeardKept == ASSUME UNCHANGED turn PROVE UNCHANGED messagesHeard
  BY DEF messagesHeard, Heard

LEMMA HeardByTurn ==
    ASSUME TypeOK, NEW m \in Msgs, turn[m] = "waiting", turn' = [turn EXCEPT ![m] = "done"]
    PROVE  UNCHANGED messagesHeard
<1>1. turn \in [Msgs -> {"unheard", "waiting", "done"}] BY DEF TypeOK
<1>2. \A n \in Msgs : turn'[n] # "unheard" <=> turn[n] # "unheard" BY <1>1
<1>3. UNCHANGED Heard BY <1>2 DEF Heard
<1> QED BY <1>3 DEF messagesHeard

\* A step that leaves the promise or clears it.
LEMMA PromiseKept ==
    ASSUME PromiseIsCurrent, UNCHANGED messagesHeard,
           \/ conv'.promiseAt = NoTime
           \/ /\ conv'.promiseAt = conv.promiseAt
              /\ conv'.promiseOf = conv.promiseOf
              /\ conv'.setAfter = conv.setAfter
    PROVE  PromiseIsCurrent'
  BY DEF PromiseIsCurrent

\* A step that writes one.
LEMMA PromiseWritten ==
    ASSUME TypeOK, UNCHANGED messagesHeard, NEW m \in Msgs, NEW due, PromiseSet(m, due)
    PROVE  PromiseIsCurrent'
<1>1. conv \in Conversations BY ConvFields
<1>2. conv'.promiseOf = m /\ conv'.setAfter = messagesHeard BY <1>1 DEF PromiseSet, Conversations
<1> QED BY <1>2, Constants DEF PromiseIsCurrent

LEMMA OwnerPromise ==
    ASSUME TypeOK, Owner
    PROVE  \/ conv'.promiseAt = NoTime
           \/ /\ conv'.promiseAt = conv.promiseAt
              /\ conv'.promiseOf = conv.promiseOf
              /\ conv'.setAfter = conv.setAfter
<1>1. conv \in Conversations BY ConvFields
<1> USE <1>1 DEF Conversations
<1>2. CASE WeWrite BY <1>2 DEF WeWrite
<1>3. CASE MarkOptedOut BY <1>3 DEF MarkOptedOut, Change
<1>4. CASE MarkSalesRejected BY <1>4 DEF MarkSalesRejected, Change
<1>5. CASE UpdateStage BY <1>5 DEF UpdateStage, Change
<1>6. CASE SoftDelete BY <1>6 DEF SoftDelete, Change
<1>7. CASE Restore BY <1>7 DEF Restore, Reopen
<1>8. ASSUME NEW on \in BOOLEAN, SetAutomation(on)
      PROVE  /\ conv'.promiseAt = conv.promiseAt
             /\ conv'.promiseOf = conv.promiseOf
             /\ conv'.setAfter = conv.setAfter
  BY <1>8 DEF SetAutomation, Change, Reopen
<1>9. ASSUME NEW on \in BOOLEAN, SetNurture(on)
      PROVE  /\ conv'.promiseAt = conv.promiseAt
             /\ conv'.promiseOf = conv.promiseOf
             /\ conv'.setAfter = conv.setAfter
  BY <1>9 DEF SetNurture, Change
<1> QED BY <1>2, <1>3, <1>4, <1>5, <1>6, <1>7, <1>8, <1>9 DEF Owner

LEMMA PromiseStep == TypeOK /\ PromiseIsCurrent /\ [Next]_vars => PromiseIsCurrent'
<1> SUFFICES ASSUME TypeOK, PromiseIsCurrent, [Next]_vars PROVE PromiseIsCurrent' OBVIOUS
<1>a. conv \in Conversations BY ConvFields
<1>1. ASSUME UNCHANGED conv, UNCHANGED turn PROVE PromiseIsCurrent'
  BY <1>1, HeardKept, PromiseKept
<1>2. CASE UNCHANGED vars BY <1>1, <1>2 DEF vars
<1>3. CASE Tick BY <1>1, <1>3 DEF Tick
<1>4. CASE Stop BY <1>1, <1>4 DEF Stop, vars
<1>5. ASSUME NEW m \in Msgs, LeadWrites(m) PROVE PromiseIsCurrent'
  <2>1. conv'.promiseAt = NoTime BY <1>5, <1>a DEF LeadWrites, Answered, Conversations
  <2> QED BY <2>1 DEF PromiseIsCurrent
<1>6. CASE Owner
  <2>1. UNCHANGED messagesHeard BY <1>6, OwnerFrame, HeardKept
  <2> QED BY <1>6, <2>1, OwnerPromise, PromiseKept
<1>7. ASSUME NEW m \in Msgs, Turn(m) PROVE PromiseIsCurrent'
  <2>1. CASE TurnFindsNothing(m)
    <3>1. UNCHANGED messagesHeard BY <2>1, HeardByTurn DEF TurnFindsNothing
    <3> QED BY <2>1, <3>1, PromiseKept DEF TurnFindsNothing
  <2>2. CASE TurnFailsTransiently(m)
    <3>1. UNCHANGED messagesHeard BY <2>2, HeardByTurn DEF TurnFailsTransiently
    <3> QED BY <2>2, <3>1, PromiseKept DEF TurnFailsTransiently
  <2>3. CASE RetryEnds(m) BY <1>1, <2>3 DEF RetryEnds
  <2>4. ASSUME NEW d \in Delays, TurnCommits(m, d) PROVE PromiseIsCurrent'
    <3>1. UNCHANGED messagesHeard BY <2>4, HeardByTurn DEF TurnCommits
    <3> QED BY <2>4, <3>1, PromiseWritten DEF TurnCommits
  <2>5. ASSUME NEW d \in Delays, RetryCommits(m, d) PROVE PromiseIsCurrent'
    <3>1. UNCHANGED messagesHeard BY <2>5, HeardKept DEF RetryCommits
    <3> QED BY <2>5, <3>1, PromiseWritten DEF RetryCommits
  <2> QED BY <1>7, <2>1, <2>2, <2>3, <2>4, <2>5 DEF Turn
<1>8. ASSUME NEW w \in PromiseWorkers, PromiseSweep(w) PROVE PromiseIsCurrent'
  <2>0. UNCHANGED messagesHeard
    BY <1>8, HeardKept
       DEF PromiseSweep, FindDuePromise, ClaimPromise, LosePromise, EnqueuePromise, DropPromise
  <2>1. CASE FindDuePromise(w) BY <1>1, <2>1 DEF FindDuePromise
  <2>2. CASE ClaimPromise(w)
    <3>1. conv'.promiseAt = NoTime BY <2>2, <1>a DEF ClaimPromise, Conversations
    <3> QED BY <3>1 DEF PromiseIsCurrent
  <2>3. CASE LosePromise(w) BY <1>1, <2>3 DEF LosePromise
  <2>4. CASE EnqueuePromise(w)
    <3>1. conv' = conv \/ conv' = [conv EXCEPT !.lastOutbound = now] BY <2>4 DEF EnqueuePromise
    <3>2. /\ conv'.promiseAt = conv.promiseAt /\ conv'.promiseOf = conv.promiseOf
          /\ conv'.setAfter = conv.setAfter
      BY <3>1, <1>a DEF Conversations
    <3> QED BY <2>0, <3>2, PromiseKept
  <2>5. CASE DropPromise(w) BY <1>1, <2>5 DEF DropPromise
  <2> QED BY <1>8, <2>1, <2>2, <2>3, <2>4, <2>5 DEF PromiseSweep
<1>9. ASSUME NEW w \in NurtureWorkers, NurtureSweep(w) \/ NurtureFails(w)
      PROVE  PromiseIsCurrent'
  <2>0. UNCHANGED messagesHeard
    BY <1>9, HeardKept
       DEF NurtureSweep, DecideCold, MarkCold, DecideNudge, EnqueueNudge, BumpStep, NurtureFails
  <2>1. \/ conv' = conv
        \/ conv' = [conv EXCEPT !.automation = FALSE]
        \/ conv' = [conv EXCEPT !.lastOutbound = now]
        \/ conv' = [conv EXCEPT !.step = nurturers[w].step]
    BY <1>9
       DEF NurtureSweep, DecideCold, MarkCold, DecideNudge, EnqueueNudge, BumpStep, NurtureFails
  <2>2. /\ conv'.promiseAt = conv.promiseAt /\ conv'.promiseOf = conv.promiseOf
        /\ conv'.setAfter = conv.setAfter
    BY <2>1, <1>a DEF Conversations
  <2> QED BY <2>0, <2>2, PromiseKept
<1> QED BY <1>2, <1>3, <1>4, <1>5, <1>6, <1>7, <1>8, <1>9 DEF Next, Lead

\* What a promiser holds changes by its own steps only.
LEMMA PromisersKept ==
    ASSUME NotAfterAnAnswer, UNCHANGED promisers PROVE NotAfterAnAnswer'
  BY DEF NotAfterAnAnswer

LEMMA AnswerStep ==
    TypeOK /\ PromiseIsCurrent /\ NotAfterAnAnswer /\ [Next]_vars => NotAfterAnAnswer'
<1> SUFFICES ASSUME TypeOK, PromiseIsCurrent, NotAfterAnAnswer, [Next]_vars
             PROVE  NotAfterAnAnswer'
  OBVIOUS
<1>a. promisers \in [PromiseWorkers -> Resting \cup Found \cup Drafting] BY SweepTypes
<1>1. ASSUME NEW w \in PromiseWorkers, NEW p, Promiser(w, p),
             p.stage = "drafting" => p.setAfter = p.takenAfter
      PROVE  NotAfterAnAnswer'
  BY <1>1, <1>a DEF NotAfterAnAnswer, Promiser
<1>2. CASE UNCHANGED vars BY <1>2, PromisersKept DEF vars
<1>3. CASE Tick BY <1>3, PromisersKept DEF Tick, Sweeps
<1>4. CASE Stop BY <1>4, PromisersKept DEF Stop, vars
<1>5. CASE Lead BY <1>5, PromisersKept DEF Lead, LeadWrites, Sweeps
<1>6. CASE Owner BY <1>6, PromisersKept, OwnerFrame
<1>7. ASSUME NEW m \in Msgs, Turn(m) PROVE NotAfterAnAnswer'
  BY <1>7, PromisersKept
     DEF Turn, TurnFindsNothing, TurnFailsTransiently, RetryEnds, TurnCommits, RetryCommits, Sweeps
<1>8. ASSUME NEW w \in PromiseWorkers, PromiseSweep(w) PROVE NotAfterAnAnswer'
  <2>0. Idle.stage # "drafting" BY DEF Idle
  <2>1. CASE FindDuePromise(w) BY <1>1, <2>1 DEF FindDuePromise
  <2>2. CASE ClaimPromise(w)
    <3>1. conv.setAfter = messagesHeard BY <2>2, ClaimedDraft DEF ClaimPromise
    <3> DEFINE p == [stage |-> "drafting", due |-> promisers[w].due, msg |-> conv.promiseOf,
                     setAfter |-> conv.setAfter, takenAfter |-> messagesHeard]
    <3>2. p.setAfter = p.takenAfter BY <3>1
    <3>3. Promiser(w, p) \/ Promiser(w, Idle) BY <2>2 DEF ClaimPromise
    <3> HIDE DEF p
    <3> QED BY <1>1, <2>0, <3>2, <3>3
  <2>3. CASE LosePromise(w) BY <1>1, <2>0, <2>3 DEF LosePromise
  <2>4. CASE EnqueuePromise(w) BY <1>1, <2>0, <2>4 DEF EnqueuePromise
  <2>5. CASE DropPromise(w) BY <1>1, <2>0, <2>5 DEF DropPromise
  <2> QED BY <1>8, <2>1, <2>2, <2>3, <2>4, <2>5 DEF PromiseSweep
<1>9. ASSUME NEW w \in NurtureWorkers, NurtureSweep(w) \/ NurtureFails(w)
      PROVE  NotAfterAnAnswer'
  BY <1>9, PromisersKept
     DEF NurtureSweep, DecideCold, MarkCold, DecideNudge, EnqueueNudge, BumpStep, NurtureFails
<1> QED BY <1>2, <1>3, <1>4, <1>5, <1>6, <1>7, <1>8, <1>9 DEF Next

-----------------------------------------------------------------------------
(* The keys of the queue. *)

\* What neither sweep's enqueueing step touches.
LEMMA QueueKept ==
    ASSUME PromiseKeyed, NudgeKeyed, UNCHANGED Queue PROVE PromiseKeyed' /\ NudgeKeyed'
  BY DEF PromiseKeyed, NudgeKeyed, Queue

LEMMA KeysDiffer == \A m, a, k : <<"promise", m>> # <<"nurture", a, k>>
  OBVIOUS

LEMMA PromiseQueued ==
    ASSUME TypeOK, PromiseKeyed, NudgeKeyed, NEW w \in PromiseWorkers, EnqueuePromise(w)
    PROVE  PromiseKeyed' /\ NudgeKeyed'
<1> DEFINE m == promisers[w].msg
<1>1. m \in Msgs BY DraftedBy DEF EnqueuePromise, Drafting
<1>2. promised \in [Msgs -> Nat] BY DEF TypeOK
<1>3. CASE <<"promise", m>> \in keys
  <2>1. UNCHANGED Queue BY <1>3 DEF EnqueuePromise, PromiseKey, Queue
  <2> QED BY <2>1, QueueKept
<1>4. CASE <<"promise", m>> \notin keys
  <2>1. /\ keys' = keys \cup {<<"promise", m>>} /\ UNCHANGED nudged
        /\ promised' = [promised EXCEPT ![m] = @ + 1]
    BY <1>4 DEF EnqueuePromise, PromiseKey
  <2>2. promised[m] = 0 BY <1>1, <1>2, <1>4 DEF PromiseKeyed
  <2> HIDE DEF m
  <2>3. PromiseKeyed'
    <3>1. ASSUME NEW n \in Msgs
          PROVE promised'[n] <= 1 /\ (promised'[n] > 0 => <<"promise", n>> \in keys')
      <4>1. CASE n = m
        <5>1. promised'[n] = 1 BY <1>1, <1>2, <2>1, <2>2, <4>1
        <5>2. <<"promise", n>> \in keys' BY <2>1, <4>1
        <5> QED BY <5>1, <5>2
      <4>2. CASE n # m
        <5>1. promised'[n] = promised[n] BY <1>2, <2>1, <4>2
        <5>2. keys \subseteq keys' BY <2>1
        <5> QED BY <5>1, <5>2 DEF PromiseKeyed
      <4> QED BY <4>1, <4>2
    <3> QED BY <3>1 DEF PromiseKeyed
  <2>4. NudgeKeyed' BY <2>1, KeysDiffer DEF NudgeKeyed
  <2> QED BY <2>3, <2>4
<1> QED BY <1>3, <1>4

\* A nudge is queued, or was: its tuple is recorded either way.
LEMMA NudgeQueued ==
    ASSUME TypeOK, PromiseKeyed, NudgeKeyed, NEW w \in NurtureWorkers, EnqueueNudge(w)
    PROVE  /\ PromiseKeyed' /\ NudgeKeyed'
           /\ nudged \subseteq nudged'
           /\ <<nurturers[w].anchor, nurturers[w].step>> \in nudged'
<1> DEFINE a == nurturers[w].anchor
           k == nurturers[w].step
<1>1. a \in Times /\ k \in 1 .. MaxFollowUps BY NudgedBy DEF EnqueueNudge, Nudging
<1>2. CASE <<"nurture", a, k>> \in keys
  <2>1. UNCHANGED Queue BY <1>2 DEF EnqueueNudge, NurtureKey, Queue
  <2>2. <<a, k>> \in nudged BY <1>1, <1>2 DEF NudgeKeyed
  <2> QED BY <2>1, <2>2, QueueKept DEF Queue
<1>3. CASE <<"nurture", a, k>> \notin keys
  <2>1. /\ keys' = keys \cup {<<"nurture", a, k>>} /\ UNCHANGED promised
        /\ nudged' = nudged \cup {<<a, k>>}
    BY <1>3 DEF EnqueueNudge, NurtureKey
  <2>2. <<a, k>> \in nudged' /\ nudged \subseteq nudged' BY <2>1
  <2>0. keys \subseteq keys' /\ promised' = promised BY <2>1
  <2> HIDE DEF a, k
  <2>3. PromiseKeyed'
    <3>1. ASSUME NEW m \in Msgs
          PROVE promised'[m] <= 1 /\ (promised'[m] > 0 => <<"promise", m>> \in keys')
      BY <2>0 DEF PromiseKeyed
    <3> QED BY <3>1 DEF PromiseKeyed
  <2>4. NudgeKeyed'
    <3>1. ASSUME NEW b \in Times, NEW j \in 1 .. MaxFollowUps, <<"nurture", b, j>> \in keys'
          PROVE  <<b, j>> \in nudged'
      <4>1. CASE <<"nurture", b, j>> \in keys BY <2>2, <4>1 DEF NudgeKeyed
      <4>2. CASE <<"nurture", b, j>> = <<"nurture", a, k>>
        <5>1. b = a /\ j = k BY <4>2
        <5> QED BY <2>2, <5>1
      <4> QED BY <2>1, <3>1, <4>1, <4>2
    <3> QED BY <3>1 DEF NudgeKeyed
  <2> QED BY <2>2, <2>3, <2>4 DEF a, k
<1> QED BY <1>2, <1>3

\* A step of another kind keeps what the counting steps rest on.
LEMMA CountedKept ==
    ASSUME CountedNudgeWasQueued, UNCHANGED nurturers, UNCHANGED nudged
    PROVE  CountedNudgeWasQueued'
  BY DEF CountedNudgeWasQueued

LEMMA KeyStep ==
    TypeOK /\ PromiseKeyed /\ NudgeKeyed /\ CountedNudgeWasQueued /\ [Next]_vars
      => PromiseKeyed' /\ NudgeKeyed' /\ CountedNudgeWasQueued'
<1> SUFFICES ASSUME TypeOK, PromiseKeyed, NudgeKeyed, CountedNudgeWasQueued, [Next]_vars
             PROVE  PromiseKeyed' /\ NudgeKeyed' /\ CountedNudgeWasQueued'
  OBVIOUS
<1>a. nurturers \in [NurtureWorkers -> Deciding \cup Nudging] BY SweepTypes
<1>0. ASSUME UNCHANGED Queue, UNCHANGED nurturers
      PROVE  PromiseKeyed' /\ NudgeKeyed' /\ CountedNudgeWasQueued'
  BY <1>0, QueueKept, CountedKept DEF Queue
<1>1. CASE UNCHANGED vars BY <1>0, <1>1 DEF vars, Queue
<1>2. CASE Tick BY <1>0, <1>2 DEF Tick, Sweeps
<1>3. CASE Stop BY <1>0, <1>3 DEF Stop, vars, Queue
<1>4. CASE Lead BY <1>0, <1>4 DEF Lead, LeadWrites, Sweeps
<1>5. CASE Owner BY <1>0, <1>5, OwnerFrame DEF Queue
<1>6. ASSUME NEW m \in Msgs, Turn(m)
      PROVE  PromiseKeyed' /\ NudgeKeyed' /\ CountedNudgeWasQueued'
  BY <1>0, <1>6
     DEF Turn, TurnFindsNothing, TurnFailsTransiently, RetryEnds, TurnCommits, RetryCommits, Sweeps
<1>7. ASSUME NEW w \in PromiseWorkers, PromiseSweep(w)
      PROVE  PromiseKeyed' /\ NudgeKeyed' /\ CountedNudgeWasQueued'
  <2>1. CASE EnqueuePromise(w)
    <3>1. UNCHANGED nurturers /\ UNCHANGED nudged BY <2>1 DEF EnqueuePromise
    <3> QED BY <2>1, <3>1, PromiseQueued, CountedKept
  <2>2. CASE ~EnqueuePromise(w)
    BY <1>0, <1>7, <2>2 DEF PromiseSweep, FindDuePromise, ClaimPromise, LosePromise, DropPromise
  <2> QED BY <2>1, <2>2
<1>8. ASSUME NEW w \in NurtureWorkers, NurtureSweep(w) \/ NurtureFails(w)
      PROVE  PromiseKeyed' /\ NudgeKeyed' /\ CountedNudgeWasQueued'
  <2>1. CASE EnqueueNudge(w)
    <3>1. /\ PromiseKeyed' /\ NudgeKeyed' /\ nudged \subseteq nudged'
          /\ <<nurturers[w].anchor, nurturers[w].step>> \in nudged'
      BY <2>1, NudgeQueued
    <3>2. nurturers[w] \in Nudging BY <2>1, NudgedBy DEF EnqueueNudge
    <3> DEFINE n == [nurturers[w] EXCEPT !.stage = "bump"]
    <3>3. n.anchor = nurturers[w].anchor /\ n.step = nurturers[w].step BY <3>2 DEF Nudging
    <3>4. nurturers' = [nurturers EXCEPT ![w] = n] BY <2>1 DEF EnqueueNudge, Nurturer
    <3> HIDE DEF n
    <3>5. CountedNudgeWasQueued'
      BY <1>a, <3>1, <3>3, <3>4 DEF CountedNudgeWasQueued
    <3> QED BY <3>1, <3>5
  <2>2. CASE ~EnqueueNudge(w)
    <3>1. UNCHANGED Queue
      BY <1>8, <2>2 DEF NurtureSweep, DecideCold, MarkCold, DecideNudge, BumpStep, NurtureFails, Queue
    <3>2. ASSUME NEW n, n.stage # "bump", Nurturer(w, n) PROVE CountedNudgeWasQueued'
      BY <1>a, <3>1, <3>2 DEF CountedNudgeWasQueued, Nurturer, Queue
    <3>3. Idle.stage # "bump" BY DEF Idle
    <3>4. CountedNudgeWasQueued'
      BY <1>8, <2>2, <3>2, <3>3
         DEF NurtureSweep, DecideCold, MarkCold, DecideNudge, BumpStep, NurtureFails
    <3> QED BY <3>1, <3>4, QueueKept
  <2> QED BY <2>1, <2>2
<1> QED BY <1>1, <1>2, <1>3, <1>4, <1>5, <1>6, <1>7, <1>8 DEF Next

-----------------------------------------------------------------------------
LEMMA InitInv == Init => IInv
<1> SUFFICES ASSUME Init PROVE IInv OBVIOUS
<1>1. TypeOK BY InitTypes
<1>2. PromiseIsCurrent BY DEF Init, PromiseIsCurrent
<1>3. NotAfterAnAnswer BY DEF Init, NotAfterAnAnswer, Idle
<1>4. PromiseKeyed /\ NudgeKeyed BY DEF Init, PromiseKeyed, NudgeKeyed
<1>5. CountedNudgeWasQueued BY DEF Init, CountedNudgeWasQueued, Idle
<1> QED BY <1>1, <1>2, <1>3, <1>4, <1>5 DEF IInv

LEMMA Inductive == Spec => []IInv
<1>1. IInv /\ [Next]_vars => IInv'
  BY TypeStep, PromiseStep, AnswerStep, KeyStep DEF IInv
<1> QED BY <1>1, InitInv, PTL DEF Spec

\* The state of the chase has its types: in particular a sweep that claimed a
\* promise always holds the message it was made in, and no step is past the last.
THEOREM TypeCorrect == Spec => []TypeOK
<1>1. IInv => TypeOK BY DEF IInv
<1> QED BY <1>1, Inductive, PTL

\* However many sweeps run, and however often a turn is read again, a commitment
\* brings the lead at most one message.
THEOREM OneMessage == Spec => []OneMessagePerCommitment
<1>1. IInv => OneMessagePerCommitment BY DEF IInv, PromiseKeyed, OneMessagePerCommitment
<1> QED BY <1>1, Inductive, PTL

\* No sweep, of any number, takes a promise the lead has answered since it was written.
THEOREM NoneAfterAnswer == Spec => []NotAfterAnAnswer
<1>1. IInv => NotAfterAnAnswer BY DEF IInv
<1> QED BY <1>1, Inductive, PTL

\* A step that is counted was queued in the silence it belongs to.
THEOREM CountedNudges == Spec => []CountedNudgeWasQueued
<1>1. IInv => CountedNudgeWasQueued BY DEF IInv
<1> QED BY <1>1, Inductive, PTL
=============================================================================
