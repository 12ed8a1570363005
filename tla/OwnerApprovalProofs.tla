------------------------- MODULE OwnerApprovalProofs -------------------------
(* Theorems about OwnerApproval, for every number of reviewers, turns,       *)
(* readers, texts and faults; the last three, of what goes out unchanged,    *)
(* for one person and one turn at a time.                                    *)
EXTENDS MCOwnerApproval, SequenceTheorems, TLAPS

USE DEF Closed

-----------------------------------------------------------------------------
(* The stages of a review and of a turn.                                     *)

LEMMA ReviewsGrow ==
    ASSUME NEW m \in Nat, NEW n \in Nat, m <= n
    PROVE  ReviewStates(m) \subseteq ReviewStates(n)
<1>1. 1 .. m \subseteq 1 .. n OBVIOUS
<1> QED BY <1>1 DEF ReviewStates

\* What a review holds at each stage.
LEMMA ReviewHolds ==
    ASSUME NEW n \in Nat, NEW r \in ReviewStates(n)
    PROVE  /\ r.stage \in {"idle", "looking", "decided", "resuming", "answering", "replied",
                           "closing"}
           /\ r.stage # "idle" => r.card \in 1 .. n
           /\ r.stage \in {"looking", "replied"} => r.text \in Text
           /\ r.stage \in {"decided", "answering", "replied", "closing"} => r.verdict \in Verdicts
           /\ r.stage = "resuming" => r.run \in [op : Verdicts, found : Checkpoint]
           /\ r.stage = "answering" => r.left \in Checkpoint
           /\ r.stage = "closing" => r.resolution \in {"approve", "skip"}
BY DEF ReviewStates

\* What a review may become.
LEMMA ReviewMade ==
    ASSUME NEW n \in Nat, NEW c \in 1 .. n, NEW text \in Text, NEW v \in Verdicts,
           NEW run \in [op : Verdicts, found : Checkpoint], NEW left \in Checkpoint,
           NEW resolution \in Closed, NEW status \in {"awaiting_approval", "skipped", "sent"}
    PROVE  /\ [stage |-> "looking", card |-> c, text |-> text] \in ReviewStates(n)
           /\ [stage |-> "decided", card |-> c, verdict |-> v] \in ReviewStates(n)
           /\ [stage |-> "resuming", card |-> c, run |-> run] \in ReviewStates(n)
           /\ [stage |-> "answering", card |-> c, verdict |-> v, left |-> left] \in ReviewStates(n)
           /\ [stage |-> "replied", card |-> c, verdict |-> v, status |-> status, text |-> text]
                \in ReviewStates(n)
           /\ [stage |-> "closing", card |-> c, verdict |-> v, resolution |-> resolution]
                \in ReviewStates(n)
BY DEF ReviewStates

LEMMA IdleIsAReview ==
    ASSUME NEW n \in Nat
    PROVE  Idle \in ReviewStates(n)
BY DEF ReviewStates, Idle

LEMMA TurnHolds ==
    ASSUME NEW r \in TurnStates
    PROVE  /\ r.stage = "running" => r.run \in [op : {"lead"}, found : Checkpoint]
           /\ r.stage = "answering" => r.left \in Checkpoint
           /\ r.stage = "replied" => r.text \in Text
BY DEF TurnStates

LEMMA TurnMade ==
    ASSUME NEW text \in Text, NEW found \in Checkpoint, NEW left \in Checkpoint,
           NEW status \in {"awaiting_approval", "escalated", "asked"}
    PROVE  /\ Idle \in TurnStates
           /\ [stage |-> "loaded"] \in TurnStates
           /\ [stage |-> "eligible"] \in TurnStates
           /\ [stage |-> "running", run |-> [op |-> "lead", found |-> found]] \in TurnStates
           /\ [stage |-> "answering", left |-> left] \in TurnStates
           /\ [stage |-> "replied", status |-> status, text |-> text] \in TurnStates
BY DEF TurnStates, Idle

-----------------------------------------------------------------------------
(* Cards, the queue and the thread.                                          *)

LEMMA UpsertedType ==
    ASSUME cards \in Seq(Cards), NEW draft \in Text, NEW kind \in {"reply", "handover"}
    PROVE  /\ Upserted(draft, kind) \in Seq(Cards)
           /\ Len(Upserted(draft, kind)) >= Len(cards)
<1>1. Card(draft, kind) \in Cards BY DEF Card, Cards
<1>2. CASE Open = {}
  BY <1>1, <1>2 DEF Upserted
<1>3. CASE Open # {}
  <2>1. OpenCard \in DOMAIN cards BY <1>3 DEF OpenCard, Open
  <2> QED BY <1>1, <1>3, <2>1 DEF Upserted
<1> QED BY <1>2, <1>3

LEMMA ResolvedType ==
    ASSUME cards \in Seq(Cards), NEW c \in 1 .. Len(cards), NEW resolution \in Closed
    PROVE  /\ ResolvedCard(c, resolution) \in Seq(Cards)
           /\ Len(ResolvedCard(c, resolution)) = Len(cards)
<1> DEFINE e == [cards[c] EXCEPT !.status = "resolved", !.resolution = resolution]
<1>1. cards[c] \in Cards OBVIOUS
<1>2. e \in Cards BY <1>1 DEF Cards
<1>3. ResolvedCard(c, resolution) = [cards EXCEPT ![c] = e] BY DEF ResolvedCard
<1> HIDE DEF e
<1> QED BY <1>2, <1>3

LEMMA EntriesGrow ==
    ASSUME NEW m \in Nat, NEW n \in Nat, m <= n, NEW q \in Seq(Entries(m))
    PROVE  q \in Seq(Entries(n))
<1>1. Entries(m) \subseteq Entries(n) BY DEF Entries
<1> QED BY <1>1

LEMMA EnqueuedType ==
    ASSUME NEW n \in Nat, queue \in Seq(Entries(n)), NEW c \in 0 .. n, NEW text \in Text
    PROVE  Enqueued(c, text) \in Seq(Entries(n))
<1>1. [card |-> c, text |-> text] \in Entries(n) BY DEF Entries
<1> QED BY <1>1 DEF Enqueued

\* A run leaves a checkpoint, if its text is within bounds.
LEMMA OutcomeType ==
    ASSUME texts \in Text, NEW run \in Runs, NEW left \in Outcomes(run), left.draft <= MaxTexts
    PROVE  left \in Checkpoint
<1>0. texts \in Nat /\ MaxTexts \in Nat BY BoundsAssumption DEF Text
<1>1. \A l \in LeadRun : l.draft <= MaxTexts => l \in Checkpoint
  BY <1>0 DEF LeadRun, At, Checkpoint, Text, Fresh
<1>2. CASE run.op = "lead" BY <1>1, <1>2 DEF Outcomes
<1>3. CASE run.op # "lead"
  <2>1. run.found \in Checkpoint /\ run.op \in {"approve", "edit", "skip"}
    BY <1>3 DEF Runs, Verdicts
  <2>2. left \in Resumed(run.found, run.op) BY <1>3 DEF Outcomes
  <2>3. CASE run.found.at = "done" BY <2>1, <2>2, <2>3 DEF Resumed
  <2>4. CASE run.found.at = "busy" BY <1>1, <2>2, <2>4 DEF Resumed
  <2>5. CASE run.found.at = "paused"
    BY <1>0, <2>1, <2>2, <2>5 DEF Resumed, At, Checkpoint, Text, Fresh
  <2> QED BY <2>1, <2>3, <2>4, <2>5 DEF Checkpoint
<1> QED BY <1>2, <1>3

\* The thread's share of an invocation that ends.
ThreadTyped ==
    thread \in Checkpoint /\ texts \in Text /\ drafts \subseteq Text

LEMMA EndsType ==
    ASSUME ThreadTyped, NEW run \in Runs, NEW left \in Outcomes(run), Ends(run, left)
    PROVE  ThreadTyped' /\ left \in Checkpoint
<1>1. left \in Checkpoint BY OutcomeType DEF Ends, ThreadTyped
<1>2. left.draft \in Text BY <1>1 DEF Checkpoint
<1> QED BY <1>1, <1>2 DEF Ends, ThreadTyped

-----------------------------------------------------------------------------
(* Type correctness.                                                         *)

ReviewsTyped == reviews \in [Reviewers -> ReviewStates(Len(cards))]
TurnsTyped   == turns \in [Turns -> TurnStates]
CardsTyped   == cards \in Seq(Cards) /\ queue \in Seq(Entries(Len(cards)))
OthersTyped  ==
    /\ orphans \subseteq Runs
    /\ automation \in BOOLEAN
    /\ readers \in [Readers -> {"idle", "morning", "outcome"}]
    /\ faults \in 0 .. MaxFaults /\ lost \in BOOLEAN

LEMMA TypeParts ==
    TypeOK <=> ThreadTyped /\ ReviewsTyped /\ TurnsTyped /\ CardsTyped /\ OthersTyped
BY DEF TypeOK, ThreadTyped, ReviewsTyped, TurnsTyped, CardsTyped, OthersTyped

LEMMA TypePartsNext ==
    TypeOK' <=> ThreadTyped' /\ ReviewsTyped' /\ TurnsTyped' /\ CardsTyped' /\ OthersTyped'
BY DEF TypeOK, ThreadTyped, ReviewsTyped, TurnsTyped, CardsTyped, OthersTyped

\* One review moves on and the cards may have grown.
LEMMA OneReview ==
    ASSUME ReviewsTyped, CardsTyped, CardsTyped', Len(cards') >= Len(cards),
           NEW d \in Reviewers, NEW v \in ReviewStates(Len(cards)),
           reviews' = [reviews EXCEPT ![d] = v]
    PROVE  ReviewsTyped'
<1>1. Len(cards) \in Nat /\ Len(cards') \in Nat BY DEF CardsTyped
<1>2. ReviewStates(Len(cards)) \subseteq ReviewStates(Len(cards')) BY <1>1, ReviewsGrow
<1> QED BY <1>2 DEF ReviewsTyped

LEMMA CardsGrow ==
    ASSUME CardsTyped, ReviewsTyped, cards' \in Seq(Cards), Len(cards') >= Len(cards)
    PROVE  /\ queue' = queue => CardsTyped'
           /\ reviews' = reviews => ReviewsTyped'
<1>1. Len(cards) \in Nat /\ Len(cards') \in Nat BY DEF CardsTyped
<1>2. ReviewStates(Len(cards)) \subseteq ReviewStates(Len(cards')) BY <1>1, ReviewsGrow
<1>3. queue \in Seq(Entries(Len(cards'))) BY <1>1, EntriesGrow DEF CardsTyped
<1> QED BY <1>2, <1>3 DEF CardsTyped, ReviewsTyped

\* A lead turn's own steps.
LEMMA TurnStepType ==
    ASSUME TypeOK, NEW t \in Turns, TurnStep(t)
    PROVE  TypeOK'
<1> USE TypeParts, TypePartsNext
<1>0. /\ ThreadTyped /\ ReviewsTyped /\ TurnsTyped /\ CardsTyped /\ OthersTyped
      /\ turns[t] \in TurnStates
      /\ thread \in Checkpoint
  BY DEF TurnsTyped, ThreadTyped
<1>1. ASSUME NEW v \in TurnStates, SetTurn(t, v)
      PROVE  TurnsTyped'
  BY <1>0, <1>1 DEF SetTurn, TurnsTyped
<1>2. 0 \in Text BY BoundsAssumption DEF Text
<1>3. PICK someText \in Text, someLeft \in Checkpoint : TRUE BY <1>0, <1>2
<1>4. /\ Idle \in TurnStates /\ [stage |-> "loaded"] \in TurnStates
      /\ [stage |-> "eligible"] \in TurnStates
  BY <1>3, TurnMade
<1>5. CASE TurnStarts(t)
  <2>1. TurnsTyped' BY <1>1, <1>4, <1>5 DEF TurnStarts
  <2> QED BY <1>0, <1>5, <2>1
      DEF TurnStarts, backend, history, ThreadTyped, ReviewsTyped, CardsTyped, OthersTyped
<1>6. CASE InstructionTurn(t)
  <2>1. TurnsTyped' BY <1>1, <1>4, <1>6 DEF InstructionTurn
  <2> QED BY <1>0, <1>6, <2>1
      DEF InstructionTurn, history, ThreadTyped, ReviewsTyped, CardsTyped, OthersTyped
<1>7. CASE TurnChecks(t)
  <2>1. TurnsTyped' BY <1>1, <1>4, <1>7 DEF TurnChecks
  <2> QED BY <1>0, <1>7, <2>1
      DEF TurnChecks, history, ThreadTyped, ReviewsTyped, CardsTyped, OthersTyped
<1>8. CASE LeadMessage(t)
  <2>1. [stage |-> "running", run |-> [op |-> "lead", found |-> thread]] \in TurnStates
    BY <1>0, <1>3, TurnMade
  <2>2. TurnsTyped' BY <1>1, <1>8, <2>1 DEF LeadMessage
  <2>3. ThreadTyped' BY <1>0, <1>8 DEF LeadMessage, ThreadTyped, At, Checkpoint, history
  <2> QED BY <1>0, <1>8, <2>2, <2>3
      DEF LeadMessage, backend, history, ReviewsTyped, CardsTyped, OthersTyped
<1>9. CASE TurnRunEnds(t)
  <2>1. PICK left \in Outcomes(turns[t].run) :
          Ends(turns[t].run, left) /\ SetTurn(t, [stage |-> "answering", left |-> left])
    BY <1>9 DEF TurnRunEnds
  <2>2. turns[t].run \in Runs BY <1>0, <1>9, TurnHolds DEF TurnRunEnds, Runs
  <2>3. ThreadTyped' /\ left \in Checkpoint BY <1>0, <2>1, <2>2, EndsType
  <2>4. [stage |-> "answering", left |-> left] \in TurnStates BY <1>3, <2>3, TurnMade
  <2>5. TurnsTyped' BY <1>1, <2>1, <2>4
  <2> QED BY <1>0, <1>9, <2>3, <2>5
      DEF TurnRunEnds, backend, ReviewsTyped, CardsTyped, OthersTyped
<1>10. CASE TurnAnswers(t)
  <2>1. turns[t].left \in Checkpoint BY <1>0, <1>10, TurnHolds DEF TurnAnswers
  <2> DEFINE reply == ResultToResponse(turns[t].left)
  <2>2. /\ reply.status \in {"awaiting_approval", "escalated", "asked"}
        /\ reply.text \in Text
    BY <1>0, <1>2, <2>1 DEF ResultToResponse, Checkpoint
  <2>3. SetTurn(t, [stage |-> "replied", status |-> reply.status, text |-> reply.text])
    BY <1>10 DEF TurnAnswers
  <2> HIDE DEF reply
  <2>4. [stage |-> "replied", status |-> reply.status, text |-> reply.text] \in TurnStates
    BY <1>3, <2>2, TurnMade
  <2>5. TurnsTyped' BY <1>1, <2>3, <2>4
  <2> QED BY <1>0, <1>10, <2>5
      DEF TurnAnswers, backend, history, ThreadTyped, ReviewsTyped, CardsTyped, OthersTyped
<1>11. CASE TurnRecords(t)
  <2>1. turns[t].text \in Text BY <1>0, <1>11, TurnHolds DEF TurnRecords
  <2>2. TurnsTyped' BY <1>1, <1>4, <1>11 DEF TurnRecords
  <2>3. ThreadTyped' BY <1>0, <1>11 DEF TurnRecords, history, ThreadTyped
  <2>4. OthersTyped' BY <1>0, <1>11 DEF TurnRecords, history, OthersTyped
  <2>5. CardsTyped' /\ ReviewsTyped'
    <3>1. Len(cards) \in Nat BY <1>0 DEF CardsTyped
    <3>2. CASE queue' = Enqueued(0, turns[t].text) /\ UNCHANGED cards
      <4>1. Enqueued(0, turns[t].text) \in Seq(Entries(Len(cards)))
        BY <1>0, <2>1, <3>1, EnqueuedType DEF CardsTyped
      <4> QED BY <1>0, <1>11, <3>2, <4>1 DEF TurnRecords, CardsTyped, ReviewsTyped
    <3>3. CASE cards' = Upserted(turns[t].text, "reply") /\ UNCHANGED queue
      <4>1. cards' \in Seq(Cards) /\ Len(cards') >= Len(cards)
        BY <1>0, <2>1, <3>3, UpsertedType DEF CardsTyped
      <4> QED BY <1>0, <1>11, <3>3, <4>1, CardsGrow DEF TurnRecords
    <3>4. CASE UNCHANGED <<cards, queue>>
      BY <1>0, <1>11, <3>4 DEF TurnRecords, CardsTyped, ReviewsTyped
    <3> QED BY <1>11, <3>2, <3>3, <3>4 DEF TurnRecords
  <2> QED BY <2>2, <2>3, <2>4, <2>5
<1>12. CASE TurnFails(t)
  <2>1. TurnsTyped' BY <1>1, <1>4, <1>12 DEF TurnFails
  <2>2. turns[t].stage = "running" => turns[t].run \in Runs BY <1>0, TurnHolds DEF Runs
  <2>3. OthersTyped'
    <3>1. orphans' \subseteq Runs
      BY <1>0, <1>12, <2>2 DEF TurnFails, Abandoned, OthersTyped
    <3>2. faults' \in 0 .. MaxFaults
      BY <1>0, <1>12, BoundsAssumption DEF TurnFails, OthersTyped
    <3>3. lost' \in BOOLEAN BY <1>0, <1>12 DEF TurnFails, OthersTyped
    <3> QED BY <1>0, <1>12, <3>1, <3>2, <3>3 DEF TurnFails, backend, OthersTyped
  <2> QED BY <1>0, <1>12, <2>1, <2>3
      DEF TurnFails, backend, ThreadTyped, ReviewsTyped, CardsTyped
<1> QED BY <1>5, <1>6, <1>7, <1>8, <1>9, <1>10, <1>11, <1>12 DEF TurnStep

\* A decision's own steps.
LEMMA ReviewStepType ==
    ASSUME TypeOK, NEW d \in Reviewers, ReviewStep(d)
    PROVE  TypeOK'
<1> USE TypeParts, TypePartsNext
<1> DEFINE n == Len(cards)  r == reviews[d]
<1>0. /\ ThreadTyped /\ ReviewsTyped /\ TurnsTyped /\ CardsTyped /\ OthersTyped
      /\ r \in ReviewStates(n)
      /\ n \in Nat
      /\ thread \in Checkpoint
  BY DEF ReviewsTyped, CardsTyped, ThreadTyped
<1>1. 0 \in Text BY BoundsAssumption DEF Text
<1>2. PICK text \in Text, left \in Checkpoint, v \in Verdicts, resolution \in Closed,
           status \in {"awaiting_approval", "skipped", "sent"},
           run \in [op : Verdicts, found : Checkpoint] : TRUE
  <2>1. [op |-> "skip", found |-> thread] \in [op : Verdicts, found : Checkpoint]
    BY <1>0 DEF Verdicts
  <2> QED BY <1>0, <1>1, <2>1 DEF Verdicts
<1>3. Idle \in ReviewStates(n) BY <1>0, IdleIsAReview
<1> HIDE DEF n, r
<1>4. ASSUME NEW next \in ReviewStates(n), SetReview(d, next), UNCHANGED <<cards, queue>>
      PROVE  ReviewsTyped' /\ CardsTyped'
  BY <1>0, <1>4 DEF SetReview, ReviewsTyped, CardsTyped, n
<1>5. ASSUME NEW next \in ReviewStates(n), SetReview(d, next), UNCHANGED queue,
             cards' \in Seq(Cards), Len(cards') >= Len(cards)
      PROVE  ReviewsTyped' /\ CardsTyped'
  <2>1. CardsTyped' BY <1>0, <1>5, CardsGrow
  <2> QED BY <1>0, <1>5, <2>1, OneReview DEF SetReview, n
<1>6. CASE Look(d)
  <2>1. OpenCard \in 1 .. n /\ cards[OpenCard] \in Cards
    BY <1>0, <1>6 DEF Look, OpenCard, Open, CardsTyped, n
  <2>2. cards[OpenCard].draft \in Text BY <2>1 DEF Cards
  <2>3. [stage |-> "looking", card |-> OpenCard, text |-> cards[OpenCard].draft]
          \in ReviewStates(n)
    BY <1>0, <1>2, <2>1, <2>2, ReviewMade
  <2>4. ReviewsTyped' /\ CardsTyped' BY <1>4, <1>6, <2>3 DEF Look, backend
  <2> QED BY <1>0, <1>6, <2>4
      DEF Look, backend, history, ThreadTyped, TurnsTyped, OthersTyped
<1>7. ASSUME NEW verdict \in Verdicts, Decide(d, verdict)
      PROVE  TypeOK'
  <2>1. CASE Open = {}
    <3>1. ReviewsTyped' /\ CardsTyped' BY <1>3, <1>4, <1>7, <2>1 DEF Decide, backend
    <3> QED BY <1>0, <1>7, <3>1 DEF Decide, backend, ThreadTyped, TurnsTyped, OthersTyped
  <2>2. CASE Open # {}
    <3>1. OpenCard \in 1 .. n BY <1>0, <2>2 DEF OpenCard, Open, CardsTyped, n
    <3>2. [stage |-> "decided", card |-> OpenCard, verdict |-> verdict] \in ReviewStates(n)
      BY <1>0, <1>2, <3>1, ReviewMade
    <3>3. ReviewsTyped' /\ CardsTyped' BY <1>4, <1>7, <2>2, <3>2 DEF Decide, backend
    <3> QED BY <1>0, <1>7, <3>3 DEF Decide, backend, ThreadTyped, TurnsTyped, OthersTyped
  <2> QED BY <2>1, <2>2
<1>8. CASE Resume(d)
  <2>1. r.card \in 1 .. n /\ r.verdict \in Verdicts
    BY <1>0, <1>8, ReviewHolds DEF Resume, r
  <2>2. [op |-> r.verdict, found |-> thread] \in [op : Verdicts, found : Checkpoint]
    BY <1>0, <2>1
  <2>3. [stage |-> "resuming", card |-> r.card, run |-> [op |-> r.verdict, found |-> thread]]
          \in ReviewStates(n)
    BY <1>0, <1>2, <2>1, <2>2, ReviewMade
  <2>4. ReviewsTyped' /\ CardsTyped' BY <1>4, <1>8, <2>3 DEF Resume, backend, r
  <2>5. ThreadTyped'
    BY <1>0, <1>8 DEF Resume, Begun, At, Checkpoint, ThreadTyped, history
  <2> QED BY <1>0, <1>8, <2>4, <2>5 DEF Resume, backend, history, TurnsTyped, OthersTyped
<1>9. CASE ReviewRunEnds(d)
  <2>1. r.card \in 1 .. n /\ r.run \in [op : Verdicts, found : Checkpoint]
    BY <1>0, <1>9, ReviewHolds DEF ReviewRunEnds, r
  <2>2. r.run \in Runs /\ r.run.op \in Verdicts /\ r.run.op # "lead" /\ r.run.found \in Checkpoint
    BY <2>1 DEF Runs, Verdicts
  <2>3. PICK out \in Outcomes(r.run) :
          /\ IF r.run.found.at = "done" THEN UNCHANGED <<thread, texts, drafts>>
                                        ELSE Ends(r.run, out)
          /\ SetReview(d, [stage |-> "answering", card |-> r.card, verdict |-> r.run.op,
                           left |-> out])
    BY <1>9 DEF ReviewRunEnds, r
  <2>4. ThreadTyped' /\ out \in Checkpoint
    <3>1. CASE r.run.found.at = "done"
      <4>1. out = r.run.found BY <2>2, <2>3, <3>1 DEF Outcomes, Resumed
      <4> QED BY <1>0, <2>2, <2>3, <3>1, <4>1 DEF ThreadTyped
    <3>2. CASE r.run.found.at # "done" BY <1>0, <2>2, <2>3, <3>2, EndsType
    <3> QED BY <3>1, <3>2
  <2>5. [stage |-> "answering", card |-> r.card, verdict |-> r.run.op, left |-> out]
          \in ReviewStates(n)
    BY <1>0, <1>2, <2>1, <2>2, <2>4, ReviewMade
  <2>6. ReviewsTyped' /\ CardsTyped' BY <1>4, <1>9, <2>3, <2>5 DEF ReviewRunEnds, backend
  <2> QED BY <1>0, <1>9, <2>4, <2>6 DEF ReviewRunEnds, backend, TurnsTyped, OthersTyped
<1>10. CASE ReviewAnswers(d)
  <2>1. r.card \in 1 .. n /\ r.verdict \in Verdicts /\ r.left \in Checkpoint
    BY <1>0, <1>10, ReviewHolds DEF ReviewAnswers, r
  <2> DEFINE reply == OwnerDecisionResponse(r.verdict, r.left)
  <2>2. /\ reply.status \in {"awaiting_approval", "skipped", "sent"}
        /\ reply.text \in Text
    BY <1>0, <1>1, <2>1 DEF OwnerDecisionResponse, Checkpoint
  <2>3. SetReview(d, [stage |-> "replied", card |-> r.card, verdict |-> r.verdict,
                      status |-> reply.status, text |-> reply.text])
    BY <1>10 DEF ReviewAnswers, r
  <2> HIDE DEF reply
  <2>4. [stage |-> "replied", card |-> r.card, verdict |-> r.verdict,
         status |-> reply.status, text |-> reply.text] \in ReviewStates(n)
    BY <1>0, <1>2, <2>1, <2>2, ReviewMade
  <2>5. ReviewsTyped' /\ CardsTyped' BY <1>4, <1>10, <2>3, <2>4 DEF ReviewAnswers, backend
  <2> QED BY <1>0, <1>10, <2>5
      DEF ReviewAnswers, backend, history, ThreadTyped, TurnsTyped, OthersTyped
<1>11. CASE RecordRevision(d)
  <2>1. r.text \in Text BY <1>0, <1>11, ReviewHolds DEF RecordRevision, r
  <2>2. cards' \in Seq(Cards) /\ Len(cards') >= Len(cards)
    BY <1>0, <1>11, <2>1, UpsertedType DEF RecordRevision, CardsTyped, r
  <2>3. ReviewsTyped' /\ CardsTyped' BY <1>3, <1>5, <1>11, <2>2 DEF RecordRevision
  <2> QED BY <1>0, <1>11, <2>3
      DEF RecordRevision, history, ThreadTyped, TurnsTyped, OthersTyped
<1>12. CASE QueueReply(d)
  <2>1. r.card \in 1 .. n /\ r.verdict \in Verdicts /\ r.text \in Text
    BY <1>0, <1>12, ReviewHolds DEF QueueReply, r
  <2>2. Resolution(r.verdict) \in Closed BY <2>1 DEF Resolution, Verdicts
  <2>3. [stage |-> "closing", card |-> r.card, verdict |-> r.verdict,
         resolution |-> Resolution(r.verdict)] \in ReviewStates(n)
    BY <1>0, <1>2, <2>1, <2>2, ReviewMade
  <2>4. r.card \in 0 .. n BY <1>0, <2>1
  <2>5. Enqueued(r.card, r.text) \in Seq(Entries(n))
    BY <1>0, <2>1, <2>4, EnqueuedType DEF CardsTyped, n
  <2>6. CardsTyped' BY <1>0, <1>12, <2>5 DEF QueueReply, CardsTyped, n, r
  <2>7. ReviewsTyped' BY <1>0, <1>12, <2>3 DEF QueueReply, SetReview, ReviewsTyped, n, r
  <2> QED BY <1>0, <1>12, <2>6, <2>7 DEF QueueReply, history, ThreadTyped, TurnsTyped, OthersTyped
<1>13. CASE Skipped(d)
  <2>1. r.card \in 1 .. n /\ r.verdict \in Verdicts
    BY <1>0, <1>13, ReviewHolds DEF Skipped, r
  <2>2. Resolution(r.verdict) \in Closed BY <2>1 DEF Resolution, Verdicts
  <2>3. [stage |-> "closing", card |-> r.card, verdict |-> r.verdict,
         resolution |-> Resolution(r.verdict)] \in ReviewStates(n)
    BY <1>0, <1>2, <2>1, <2>2, ReviewMade
  <2>4. ReviewsTyped' /\ CardsTyped' BY <1>4, <1>13, <2>3 DEF Skipped, backend, r
  <2> QED BY <1>0, <1>13, <2>4
      DEF Skipped, backend, history, ThreadTyped, TurnsTyped, OthersTyped
<1>14. CASE CloseCard(d)
  <2>1. r.card \in 1 .. n /\ r.resolution \in Closed
    BY <1>0, <1>14, ReviewHolds DEF CloseCard, r
  <2>2. cards' \in Seq(Cards) /\ Len(cards') >= Len(cards)
    BY <1>0, <1>14, <2>1, ResolvedType DEF CloseCard, CardsTyped, n, r
  <2>3. ReviewsTyped' /\ CardsTyped' BY <1>3, <1>5, <1>14, <2>2 DEF CloseCard
  <2> QED BY <1>0, <1>14, <2>3
      DEF CloseCard, history, ThreadTyped, TurnsTyped, OthersTyped
<1>15. CASE ReviewFails(d)
  <2>1. ReviewsTyped' /\ CardsTyped' BY <1>3, <1>4, <1>15 DEF ReviewFails, backend
  <2>2. r.stage = "resuming" => r.run \in Runs
    BY <1>0, ReviewHolds DEF Runs
  <2>3. OthersTyped'
    <3>1. orphans' \subseteq Runs
      BY <1>0, <1>15, <2>2 DEF ReviewFails, Abandoned, OthersTyped, r
    <3>2. faults' \in 0 .. MaxFaults
      BY <1>0, <1>15, BoundsAssumption DEF ReviewFails, OthersTyped
    <3>3. lost' \in BOOLEAN BY <1>0, <1>15 DEF ReviewFails, OthersTyped
    <3> QED BY <1>0, <1>15, <3>1, <3>2, <3>3 DEF ReviewFails, backend, OthersTyped
  <2> QED BY <1>0, <1>15, <2>1, <2>3 DEF ReviewFails, backend, ThreadTyped, TurnsTyped
<1>16. CASE AnswerHandover(d)
  <2>1. r.card \in 1 .. n BY <1>0, <1>16, ReviewHolds DEF AnswerHandover, r
  <2>2. PICK resumes \in BOOLEAN, to \in Closed :
          /\ automation' = (automation \/ resumes)
          /\ SetReview(d, [stage |-> "closing", card |-> r.card, verdict |-> "approve",
                           resolution |-> to])
    BY <1>16 DEF AnswerHandover, r
  <2>3. [stage |-> "closing", card |-> r.card, verdict |-> "approve", resolution |-> to]
          \in ReviewStates(n)
    BY <1>0, <1>2, <2>1, ReviewMade DEF Verdicts
  <2>4. ReviewsTyped' /\ CardsTyped' BY <1>4, <1>16, <2>2, <2>3 DEF AnswerHandover
  <2>5. automation' \in BOOLEAN BY <1>0, <2>2 DEF OthersTyped
  <2> QED BY <1>0, <1>16, <2>4, <2>5
      DEF AnswerHandover, history, ThreadTyped, TurnsTyped, OthersTyped
<1> QED
  BY <1>6, <1>7, <1>8, <1>9, <1>10, <1>11, <1>12, <1>13, <1>14, <1>15, <1>16 DEF ReviewStep

\* The steps of readers, of invocations nobody waits for, and of the switch.
LEMMA OtherStepType ==
    ASSUME TypeOK,
           \/ \E reader \in Readers : ReadStarts(reader) \/ ReadRaises(reader)
           \/ \E run \in orphans : OrphanEnds(run)
           \/ SetAutomation
    PROVE  TypeOK'
<1> USE TypeParts, TypePartsNext
<1>0. ThreadTyped /\ ReviewsTyped /\ TurnsTyped /\ CardsTyped /\ OthersTyped OBVIOUS
<1>1. ASSUME NEW reader \in Readers, ReadStarts(reader)
      PROVE  TypeOK'
  <2>1. readers' \in [Readers -> {"idle", "morning", "outcome"}]
    BY <1>0, <1>1 DEF ReadStarts, OthersTyped
  <2> QED BY <1>0, <1>1, <2>1
      DEF ReadStarts, backend, history, ThreadTyped, ReviewsTyped, TurnsTyped, CardsTyped,
          OthersTyped
<1>2. ASSUME NEW reader \in Readers, ReadRaises(reader)
      PROVE  TypeOK'
  <2>1. readers' \in [Readers -> {"idle", "morning", "outcome"}]
    BY <1>0, <1>2 DEF ReadRaises, OthersTyped
  <2>2. automation' \in BOOLEAN BY <1>0, <1>2 DEF ReadRaises, OthersTyped
  <2>3. OthersTyped' BY <1>0, <1>2, <2>1, <2>2 DEF ReadRaises, history, OthersTyped
  <2>4. Fresh <= MaxTexts => Fresh \in Text
    BY <1>0, BoundsAssumption DEF Fresh, Text, ThreadTyped
  <2>5. ThreadTyped' BY <1>0, <1>2, <2>4 DEF ReadRaises, history, ThreadTyped
  <2>6. cards' \in Seq(Cards) /\ Len(cards') >= Len(cards)
    <3>1. CASE UNCHANGED cards BY <1>0, <3>1 DEF CardsTyped
    <3>2. ASSUME Fresh <= MaxTexts, NEW kind \in {"reply", "handover"},
                 cards' = Upserted(Fresh, kind)
          PROVE  cards' \in Seq(Cards) /\ Len(cards') >= Len(cards)
      BY <1>0, <2>4, <3>2, UpsertedType DEF CardsTyped
    <3> QED BY <1>2, <3>1, <3>2 DEF ReadRaises
  <2>7. ReviewsTyped' /\ CardsTyped' BY <1>0, <1>2, <2>6, CardsGrow DEF ReadRaises
  <2> QED BY <1>0, <1>2, <2>3, <2>5, <2>7 DEF ReadRaises, TurnsTyped
<1>3. ASSUME NEW run \in orphans, OrphanEnds(run)
      PROVE  TypeOK'
  <2>1. run \in Runs BY <1>0 DEF OthersTyped
  <2>2. PICK left \in Outcomes(run) : Ends(run, left) BY <1>3 DEF OrphanEnds
  <2>3. ThreadTyped' BY <1>0, <2>1, <2>2, EndsType
  <2> QED BY <1>0, <1>3, <2>3
      DEF OrphanEnds, backend, ReviewsTyped, TurnsTyped, CardsTyped, OthersTyped
<1>4. CASE SetAutomation
  BY <1>0, <1>4
  DEF SetAutomation, history, ThreadTyped, ReviewsTyped, TurnsTyped, CardsTyped, OthersTyped
<1> QED BY <1>1, <1>2, <1>3, <1>4

\* Nothing changes.
LEMMA StutterType ==
    ASSUME TypeOK, UNCHANGED vars
    PROVE  TypeOK'
BY DEF vars, TypeOK

LEMMA StepType ==
    ASSUME TypeOK, [Next]_vars
    PROVE  TypeOK'
BY TurnStepType, ReviewStepType, OtherStepType, StutterType DEF Next

LEMMA InitType == Init => TypeOK
<1> SUFFICES ASSUME Init PROVE TypeOK OBVIOUS
<1> USE BoundsAssumption, TypeParts DEF Init
<1>1. ThreadTyped BY DEF ThreadTyped, At, Checkpoint, Text
<1>2. Len(cards) = 0 /\ CardsTyped BY DEF CardsTyped
<1>3. Idle \in ReviewStates(Len(cards)) BY <1>2, IdleIsAReview
<1>4. ReviewsTyped BY <1>3 DEF ReviewsTyped
<1>5. TurnsTyped BY DEF TurnsTyped, TurnStates, Idle
<1>6. OthersTyped
  <2>1. faults \in 0 .. MaxFaults OBVIOUS
  <2>2. readers \in [Readers -> {"idle", "morning", "outcome"}] OBVIOUS
  <2> QED BY <2>1, <2>2 DEF OthersTyped
<1> QED BY <1>1, <1>2, <1>4, <1>5, <1>6

\* The type invariant holds: no decision, retry or late answer refers to a card
\* that does not exist, and a closed card was approved or skipped.
THEOREM TypeCorrect == Spec => []TypeOK
BY InitType, StepType, PTL DEF Spec

-----------------------------------------------------------------------------
(* One message per card.                                                     *)

GivenIn(verdicts, c, verdict) == \E x \in verdicts : x.card = c /\ x.verdict = verdict
Given(c, verdict) == GivenIn(decided, c, verdict)

\* A review has been given the verdict it carries, and a skip sends nothing.
Backed(r) ==
    /\ r.stage \in {"decided", "answering", "replied"} => Given(r.card, r.verdict)
    /\ r.stage = "resuming" => Given(r.card, r.run.op)
    /\ r.stage = "replied" /\ r.status = "sent" => r.verdict # "skip"

AllBacked == \A d \in Reviewers : Backed(reviews[d])

AnswersOnce ==
    \A i, j \in DOMAIN queue : queue[i].card = queue[j].card /\ queue[i].card # 0 => i = j

AnswersDecisions ==
    \A i \in DOMAIN queue : queue[i].card # 0 =>
        \E x \in decided : x.card = queue[i].card /\ x.verdict # "skip"

LEMMA OneSendParts == AnswersOnce /\ AnswersDecisions => OneSendPerCard
BY DEF AnswersOnce, AnswersDecisions, OneSendPerCard

SendInv == TypeOK /\ AllBacked /\ AnswersOnce /\ AnswersDecisions

\* One review moves on.
LEMMA OneReviewBacked ==
    ASSUME TypeOK, AllBacked, decided \subseteq decided',
           NEW d \in Reviewers, NEW next, SetReview(d, next),
           next.stage \in {"decided", "answering", "replied"} =>
               GivenIn(decided', next.card, next.verdict),
           next.stage = "resuming" => GivenIn(decided', next.card, next.run.op),
           next.stage = "replied" /\ next.status = "sent" => next.verdict # "skip"
    PROVE  AllBacked'
<1> SUFFICES ASSUME NEW e \in Reviewers PROVE Backed(reviews[e])' BY DEF AllBacked
<1>1. reviews' = [reviews EXCEPT ![d] = next] BY DEF SetReview
<1>2. reviews'[e] = IF e = d THEN next ELSE reviews[e] BY <1>1 DEF TypeOK
<1>3. CASE e = d BY <1>2, <1>3 DEF Backed, Given
<1>4. CASE e # d BY <1>2, <1>4 DEF AllBacked, Backed, Given, GivenIn
<1> QED BY <1>3, <1>4

\* Nothing is queued for a card.
LEMMA QueueStays ==
    ASSUME AnswersOnce, AnswersDecisions, decided \subseteq decided', UNCHANGED queue
    PROVE  (AnswersOnce /\ AnswersDecisions)'
BY DEF AnswersOnce, AnswersDecisions

\* A message is queued: for no card, or for one with a verdict that sends.
LEMMA QueueGrows ==
    ASSUME TypeOK, AnswersOnce, AnswersDecisions, UNCHANGED decided,
           NEW c \in 0 .. Len(cards), NEW text \in Text, queue' = Enqueued(c, text),
           c # 0 => \E x \in decided : x.card = c /\ x.verdict # "skip"
    PROVE  (AnswersOnce /\ AnswersDecisions)'
<1> DEFINE e == [card |-> c, text |-> text]
<1>1. queue \in Seq(Entries(Len(cards))) /\ Len(cards) \in Nat BY DEF TypeOK
<1>2. CASE queue' = queue BY <1>2, QueueStays
<1>3. CASE queue' = Append(queue, e)
           /\ (c # 0 => \A i \in DOMAIN queue : queue[i].card # c)
  <2>1. e \in Entries(Len(cards)) BY DEF Entries
  <2>2. e.card = c OBVIOUS
  <2> HIDE DEF e
  <2>3. /\ DOMAIN queue' = DOMAIN queue \cup {Len(queue) + 1}
        /\ Len(queue) + 1 \notin DOMAIN queue
        /\ queue'[Len(queue) + 1] = e
        /\ \A i \in DOMAIN queue : queue'[i] = queue[i]
    BY <1>1, <1>3, <2>1
  <2>4. AnswersOnce' BY <1>3, <2>2, <2>3 DEF AnswersOnce
  <2>5. AnswersDecisions' BY <2>2, <2>3 DEF AnswersDecisions
  <2> QED BY <2>4, <2>5
<1> QED BY <1>2, <1>3 DEF Enqueued

\* A step that leaves the reviews and the queue alone.
LEMMA SendStays ==
    ASSUME SendInv, decided' = decided, UNCHANGED <<reviews, queue>>
    PROVE  (AllBacked /\ AnswersOnce /\ AnswersDecisions)'
BY DEF SendInv, AllBacked, Backed, Given, GivenIn, AnswersOnce, AnswersDecisions

LEMMA TurnStepSends ==
    ASSUME SendInv, NEW t \in Turns, TurnStep(t)
    PROVE  (AllBacked /\ AnswersOnce /\ AnswersDecisions)'
<1>1. CASE TurnRecords(t) /\ turns[t].status = "asked" /\ queue' = Enqueued(0, turns[t].text)
  <2>1. turns[t].text \in Text BY <1>1, TurnHolds DEF TurnRecords, SendInv, TypeOK
  <2>2. 0 \in 0 .. Len(cards) BY DEF SendInv, TypeOK
  <2>3. (AnswersOnce /\ AnswersDecisions)'
    BY <1>1, <2>1, <2>2, QueueGrows DEF TurnRecords, SendInv, history
  <2>4. AllBacked'
    BY <1>1 DEF TurnRecords, SendInv, history, AllBacked, Backed, Given, GivenIn
  <2> QED BY <2>3, <2>4
<1>2. CASE UNCHANGED <<reviews, queue, decided>> BY <1>2, SendStays
<1>3. TurnRecords(t) => \/ turns[t].status = "asked" /\ queue' = Enqueued(0, turns[t].text)
                        \/ UNCHANGED <<reviews, queue, decided>>
  BY DEF TurnRecords, history
<1>4. ~TurnRecords(t) => UNCHANGED <<reviews, queue, decided>>
  BY DEF TurnStep, TurnStarts, InstructionTurn, TurnChecks, LeadMessage, TurnRunEnds,
         TurnAnswers, TurnFails, backend, history
<1> QED BY <1>1, <1>2, <1>3, <1>4

LEMMA ReviewStepSends ==
    ASSUME SendInv, NEW d \in Reviewers, ReviewStep(d)
    PROVE  (AllBacked /\ AnswersOnce /\ AnswersDecisions)'
<1> USE DEF SendInv
<1>0. TypeOK /\ Backed(reviews[d]) /\ reviews[d] \in ReviewStates(Len(cards))
  BY DEF AllBacked, TypeOK
<1>1. ASSUME decided \subseteq decided', UNCHANGED queue
      PROVE  (AnswersOnce /\ AnswersDecisions)'
  BY <1>1, QueueStays
<1>2. ASSUME NEW next, SetReview(d, next), decided \subseteq decided',
             next.stage \in {"idle", "looking", "closing"}
      PROVE  AllBacked'
  BY <1>0, <1>2, OneReviewBacked
<1>3. CASE Look(d)
  BY <1>1, <1>2, <1>3 DEF Look, backend, history
<1>4. ASSUME NEW verdict \in Verdicts, Decide(d, verdict)
      PROVE  (AllBacked /\ AnswersOnce /\ AnswersDecisions)'
  <2>1. CASE Open = {}
    BY <1>1, <1>2, <1>4, <2>1 DEF Decide, backend, Idle
  <2>2. CASE Open # {}
    <3> DEFINE next == [stage |-> "decided", card |-> OpenCard, verdict |-> verdict]
    <3>1. SetReview(d, next) /\ decided \subseteq decided' BY <1>4, <2>2 DEF Decide
    <3>2. GivenIn(decided', OpenCard, verdict)
      <4> DEFINE x == [card |-> OpenCard, verdict |-> verdict, text |-> reviews[d].text]
      <4>1. x.card = OpenCard /\ x.verdict = verdict OBVIOUS
      <4>2. x \in decided' BY <1>4, <2>2 DEF Decide
      <4> HIDE DEF x
      <4> QED BY <4>1, <4>2 DEF GivenIn
    <3>3. GivenIn(decided', next.card, next.verdict) BY <3>2
    <3>4. next.stage = "decided" OBVIOUS
    <3> HIDE DEF next
    <3>5. AllBacked' BY <1>0, <3>1, <3>3, <3>4, OneReviewBacked
    <3> QED BY <1>1, <1>4, <3>1, <3>5 DEF Decide, backend
  <2> QED BY <2>1, <2>2
<1>5. CASE Resume(d)
  <2> DEFINE next == [stage |-> "resuming", card |-> reviews[d].card,
                      run |-> [op |-> reviews[d].verdict, found |-> thread]]
  <2>1. SetReview(d, next) /\ decided' = decided BY <1>5 DEF Resume, history
  <2>2. Given(reviews[d].card, reviews[d].verdict) BY <1>0, <1>5 DEF Resume, Backed
  <2>3. next.stage = "resuming" /\ next.card = reviews[d].card
        /\ next.run.op = reviews[d].verdict
    OBVIOUS
  <2> HIDE DEF next
  <2>4. GivenIn(decided', next.card, next.run.op) BY <2>1, <2>2, <2>3 DEF Given, GivenIn
  <2>5. AllBacked' BY <1>0, <2>1, <2>3, <2>4, OneReviewBacked
  <2> QED BY <1>1, <1>5, <2>1, <2>5 DEF Resume, backend
<1>6. CASE ReviewRunEnds(d)
  <2>1. PICK left :
          SetReview(d, [stage |-> "answering", card |-> reviews[d].card,
                        verdict |-> reviews[d].run.op, left |-> left])
    BY <1>6 DEF ReviewRunEnds
  <2> DEFINE next == [stage |-> "answering", card |-> reviews[d].card,
                      verdict |-> reviews[d].run.op, left |-> left]
  <2>2. Given(reviews[d].card, reviews[d].run.op) BY <1>0, <1>6 DEF ReviewRunEnds, Backed
  <2>3. next.stage = "answering" /\ next.card = reviews[d].card
        /\ next.verdict = reviews[d].run.op
    OBVIOUS
  <2>4. SetReview(d, next) /\ decided' = decided /\ UNCHANGED queue
    BY <1>6, <2>1 DEF ReviewRunEnds, backend
  <2> HIDE DEF next
  <2>5. GivenIn(decided', next.card, next.verdict) BY <2>2, <2>3, <2>4 DEF Given, GivenIn
  <2>6. AllBacked' BY <1>0, <2>3, <2>4, <2>5, OneReviewBacked
  <2> QED BY <1>1, <2>4, <2>6
<1>7. CASE ReviewAnswers(d)
  <2> DEFINE reply == OwnerDecisionResponse(reviews[d].verdict, reviews[d].left)
             next  == [stage |-> "replied", card |-> reviews[d].card,
                       verdict |-> reviews[d].verdict, status |-> reply.status,
                       text |-> reply.text]
  <2>1. SetReview(d, next) /\ decided' = decided /\ UNCHANGED queue
    BY <1>7 DEF ReviewAnswers, backend, history
  <2>2. reply.status = "sent" => reviews[d].verdict # "skip"
    BY <1>0 DEF OwnerDecisionResponse, TypeOK, Checkpoint
  <2>3. Given(reviews[d].card, reviews[d].verdict) BY <1>0, <1>7 DEF ReviewAnswers, Backed
  <2> HIDE DEF reply
  <2>4. /\ next.stage = "replied" /\ next.card = reviews[d].card
        /\ next.verdict = reviews[d].verdict /\ next.status = reply.status
    OBVIOUS
  <2> HIDE DEF next
  <2>5. GivenIn(decided', next.card, next.verdict) BY <2>1, <2>3, <2>4 DEF Given, GivenIn
  <2>6. AllBacked' BY <1>0, <2>1, <2>2, <2>4, <2>5, OneReviewBacked
  <2> QED BY <1>1, <2>1, <2>6
<1>8. CASE RecordRevision(d)
  BY <1>1, <1>2, <1>8 DEF RecordRevision, history, Idle
<1>9. CASE QueueReply(d)
  <2>1. Given(reviews[d].card, reviews[d].verdict) /\ reviews[d].verdict # "skip"
    BY <1>0, <1>9 DEF QueueReply, Backed
  <2>2. reviews[d].card \in 0 .. Len(cards) /\ reviews[d].text \in Text
    <3>1. Len(cards) \in Nat BY <1>0 DEF TypeOK
    <3>2. reviews[d].card \in 1 .. Len(cards) /\ reviews[d].text \in Text
      BY <1>0, <1>9, <3>1, ReviewHolds DEF QueueReply
    <3> QED BY <3>1, <3>2
  <2>3. (AnswersOnce /\ AnswersDecisions)'
    BY <1>9, <2>1, <2>2, QueueGrows DEF QueueReply, history, Given, GivenIn
  <2>4. AllBacked' BY <1>2, <1>9 DEF QueueReply, history
  <2> QED BY <2>3, <2>4
<1>10. CASE Skipped(d)
  BY <1>1, <1>2, <1>10 DEF Skipped, backend, history
<1>11. CASE CloseCard(d)
  BY <1>1, <1>2, <1>11 DEF CloseCard, history, Idle
<1>12. CASE ReviewFails(d)
  BY <1>1, <1>2, <1>12 DEF ReviewFails, backend, Idle
<1>13. CASE AnswerHandover(d)
  BY <1>1, <1>2, <1>13 DEF AnswerHandover, history
<1> QED BY <1>3, <1>4, <1>5, <1>6, <1>7, <1>8, <1>9, <1>10, <1>11, <1>12, <1>13 DEF ReviewStep

LEMMA StepSends ==
    ASSUME SendInv, [Next]_vars
    PROVE  SendInv'
<1>1. TypeOK' BY StepType DEF SendInv
<1>2. CASE \E t \in Turns : TurnStep(t) BY <1>1, <1>2, TurnStepSends DEF SendInv
<1>3. CASE \E d \in Reviewers : ReviewStep(d) BY <1>1, <1>3, ReviewStepSends DEF SendInv
<1>4. CASE \/ \E r \in Readers : ReadStarts(r) \/ ReadRaises(r)
           \/ \E run \in orphans : OrphanEnds(run)
           \/ SetAutomation
           \/ UNCHANGED vars
  <2>1. decided' = decided /\ UNCHANGED <<reviews, queue>>
    BY <1>4 DEF ReadStarts, ReadRaises, OrphanEnds, SetAutomation, backend, history, vars
  <2> QED BY <1>1, <2>1, SendStays DEF SendInv
<1> QED BY <1>2, <1>3, <1>4 DEF Next

LEMMA InitSends == Init => SendInv
BY InitType DEF Init, SendInv, AllBacked, Backed, Idle, AnswersOnce, AnswersDecisions

\* A card is answered by one message at most, and by none before somebody gave
\* it a verdict that sends: for any number of people deciding at the same time,
\* of cards raised beside the graph, and of calls and writes that fail.
THEOREM OneSend == Spec => []OneSendPerCard
<1>1. SendInv => OneSendPerCard BY OneSendParts DEF SendInv
<1> QED BY <1>1, InitSends, StepSends, PTL DEF Spec
-----------------------------------------------------------------------------
(* One person at a time: a draft goes out as it was approved.                *)

Approved(n, text) == [card |-> n, verdict |-> "approve", text |-> text] \in decided

\* An open card nobody is deciding on shows what the graph would send now; and if
\* the graph has already run to its end, that text was approved on the card.
AtRest(n) ==
    /\ thread.at \in {"paused", "done"}
    /\ cards[n].draft = thread.draft
    /\ thread.at = "done" => Approved(n, thread.draft)

OneCardFromTheGraph ==
    /\ \A n \in DOMAIN cards : cards[n].kind = "reply"
    /\ \A m, n \in Open : m = n

CardsAtRest ==
    (\A d \in Reviewers : reviews[d].stage = "idle") => \A n \in Open : AtRest(n)

\* What a decision relies on between two of its steps.
ReviewSound(r) ==
    /\ r.stage # "idle" => r.card \in Open
    /\ r.stage = "looking" => AtRest(r.card) /\ r.text = cards[r.card].draft
    /\ r.stage = "decided" =>
         /\ AtRest(r.card)
         /\ r.verdict = "approve" => Approved(r.card, cards[r.card].draft)
    /\ r.stage = "resuming" =>
         /\ r.run.found.at \in {"paused", "done"}
         /\ r.run.found.draft = cards[r.card].draft
         /\ r.run.found.at = "done" => thread = r.run.found
         /\ r.run.op = "approve" \/ r.run.found.at = "done"
              => Approved(r.card, cards[r.card].draft)
    /\ r.stage = "answering" =>
         /\ r.left = thread
         /\ thread.at \in {"paused", "done"}
         /\ r.verdict = "approve" => AtRest(r.card) /\ thread.at = "done"
         /\ r.verdict = "edit" => thread.at = "paused" \/ Approved(r.card, thread.draft)
    /\ r.stage = "replied" =>
         /\ r.status = "sent" => Approved(r.card, r.text)
         /\ r.status = "awaiting_approval" => thread = At("paused", r.text)
         /\ r.verdict = "approve" => AtRest(r.card)
    /\ r.stage = "closing" /\ r.verdict = "approve" => AtRest(r.card)

\* What a lead's turn relies on: past its look at the cards there is none open, so
\* nobody decides, and the thread is as its own run left it.
TurnSound(r) ==
    /\ r.stage \in {"eligible", "running", "answering", "replied"} => Open = {}
    /\ r.stage = "answering" =>
         /\ r.left = thread
         /\ thread.at \in {"paused", "done"}
         /\ thread.at = "done" => thread.draft \notin drafts /\ thread.draft <= texts
    /\ r.stage = "replied" =>
         /\ r.status = "awaiting_approval" => thread = At("paused", r.text)
         /\ r.status = "asked" => r.text \notin drafts /\ r.text <= texts

DraftsSound == drafts \subseteq 1 .. texts

QueueSound ==
    \A i \in DOMAIN queue :
        /\ queue[i].card = 0 => queue[i].text \notin drafts /\ queue[i].text <= texts
        /\ queue[i].card # 0 => Approved(queue[i].card, queue[i].text)

Sound ==
    /\ orphans = {}
    /\ OneCardFromTheGraph /\ CardsAtRest /\ DraftsSound /\ QueueSound
    /\ \A d \in Reviewers : ReviewSound(reviews[d])
    /\ \A t \in Turns : TurnSound(turns[t])

\* While one person decides at a time and no run was given up halfway.
AloneInv == crowd \/ (Alone /\ (lost \/ Sound))

\* The open card is the only one there is.
LEMMA TheOpenCard ==
    ASSUME OneCardFromTheGraph, NEW n \in Open
    PROVE  OpenCard = n /\ Open = {n} /\ n \in DOMAIN cards
BY DEF OneCardFromTheGraph, OpenCard, Open

\* Once nothing is open, nobody is deciding.
LEMMA NobodyDecides ==
    ASSUME Sound, Open = {}
    PROVE  \A d \in Reviewers : reviews[d].stage = "idle"
BY DEF Sound, ReviewSound

\* While somebody decides, or could, the lead's turn has not passed the cards.
LEMMA TurnWaits ==
    ASSUME Sound, Open # {}, NEW t \in Turns
    PROVE  turns[t].stage \notin {"eligible", "running", "answering", "replied"}
BY DEF Sound, TurnSound

\* Drafts and queue when nothing was written or queued.
LEMMA TextsKept ==
    ASSUME DraftsSound, QueueSound, UNCHANGED <<drafts, queue, texts>>, decided \subseteq decided'
    PROVE  DraftsSound' /\ QueueSound'
BY DEF DraftsSound, QueueSound, Approved

\* A draft that an edit or a turn writes is new: it is no question sent before.
LEMMA TextsWritten ==
    ASSUME TypeOK, DraftsSound, QueueSound, UNCHANGED <<queue, decided>>,
           texts' = texts + 1, drafts' \in {drafts, drafts \cup {texts + 1}}
    PROVE  DraftsSound' /\ QueueSound'
<1>1. texts \in Nat BY DEF TypeOK, Text
<1>2. DraftsSound' BY <1>1 DEF DraftsSound
<1>3. QueueSound'
  <2> SUFFICES ASSUME NEW i \in DOMAIN queue
               PROVE  /\ queue[i].card = 0 => queue[i].text \notin drafts' /\ queue[i].text <= texts'
                      /\ queue[i].card # 0 => Approved(queue[i].card, queue[i].text)'
    BY DEF QueueSound
  <2>1. queue[i].text \in Nat
    <3>1. queue[i] \in Entries(Len(cards)) BY DEF TypeOK
    <3> QED BY <3>1 DEF Entries, Text
  <2> QED BY <1>1, <2>1 DEF QueueSound, Approved
<1> QED BY <1>2, <1>3

\* A message is queued: a question no draft ever was, or an approved reply.
LEMMA TextQueued ==
    ASSUME TypeOK, QueueSound, UNCHANGED <<drafts, texts, decided>>,
           NEW c \in 0 .. Len(cards), NEW text \in Text, queue' = Enqueued(c, text),
           c = 0 => text \notin drafts /\ text <= texts,
           c # 0 => Approved(c, text)
    PROVE  QueueSound'
<1> DEFINE e == [card |-> c, text |-> text]
<1>1. queue \in Seq(Entries(Len(cards))) /\ Len(cards) \in Nat BY DEF TypeOK
<1>2. CASE queue' = queue BY <1>2 DEF QueueSound, Approved
<1>3. CASE queue' = Append(queue, e)
  <2>1. e \in Entries(Len(cards)) BY DEF Entries
  <2>2. e.card = c /\ e.text = text OBVIOUS
  <2> HIDE DEF e
  <2>3. /\ DOMAIN queue' = DOMAIN queue \cup {Len(queue) + 1}
        /\ queue'[Len(queue) + 1] = e
        /\ \A i \in DOMAIN queue : queue'[i] = queue[i]
    BY <1>1, <1>3, <2>1
  <2> QED BY <2>2, <2>3 DEF QueueSound, Approved
<1> QED BY <1>2, <1>3 DEF Enqueued

\* A step of the turn before it has a card to record: the cards and the decisions
\* are as they were, and unless the thread is too nothing is open.
LEMMA TurnMoves ==
    ASSUME TypeOK, TypeOK', Sound, NEW t, Turns = {t},
           UNCHANGED <<cards, reviews, decided, orphans>>,
           UNCHANGED thread \/ Open = {},
           TurnSound(turns[t])', DraftsSound', QueueSound'
    PROVE  Sound'
<1>1. Open' = Open BY DEF Open, IsPending
<1>2. OneCardFromTheGraph' BY <1>1 DEF Sound, OneCardFromTheGraph
<1>3. CASE UNCHANGED thread
  <2>1. CardsAtRest' BY <1>1, <1>3 DEF Sound, CardsAtRest, AtRest, Approved
  <2>2. \A d \in Reviewers : ReviewSound(reviews[d])'
    BY <1>1, <1>3 DEF Sound, ReviewSound, AtRest, Approved
  <2> QED BY <1>2, <2>1, <2>2 DEF Sound
<1>4. CASE Open = {}
  <2>1. \A d \in Reviewers : reviews'[d].stage = "idle" BY <1>4, NobodyDecides
  <2>2. CardsAtRest' BY <1>1, <1>4 DEF CardsAtRest
  <2>3. \A d \in Reviewers : ReviewSound(reviews[d])' BY <2>1 DEF ReviewSound
  <2> QED BY <1>2, <2>2, <2>3 DEF Sound
<1> QED BY <1>3, <1>4

LEMMA TurnIsSound ==
    ASSUME TypeOK, TypeOK', Sound, ~lost', NEW t, Turns = {t}, TurnStep(t)
    PROVE  Sound'
<1>0. /\ TurnSound(turns[t]) /\ DraftsSound /\ QueueSound /\ orphans = {}
      /\ turns[t] \in TurnStates /\ turns \in [Turns -> TurnStates]
      /\ thread \in Checkpoint /\ texts \in Nat
  BY DEF Sound, TypeOK, Text
<1>1. ASSUME NEW v, SetTurn(t, v) PROVE turns'[t] = v
  BY <1>0, <1>1 DEF SetTurn
<1>2. CASE TurnStarts(t) \/ InstructionTurn(t)
  <2>1. UNCHANGED <<cards, queue, reviews, decided, orphans, thread, drafts, texts>>
    BY <1>2 DEF TurnStarts, InstructionTurn, backend, history
  <2>2. turns'[t].stage = "loaded" BY <1>1, <1>2 DEF TurnStarts, InstructionTurn
  <2>3. TurnSound(turns[t])' BY <2>2 DEF TurnSound
  <2>4. DraftsSound' /\ QueueSound' BY <1>0, <2>1, TextsKept
  <2> QED BY <2>1, <2>3, <2>4, TurnMoves
<1>3. CASE TurnChecks(t)
  <2>1. UNCHANGED <<cards, queue, reviews, decided, orphans, thread, drafts, texts>>
    BY <1>3 DEF TurnChecks, history
  <2>2. Open' = Open BY <2>1 DEF Open, IsPending
  <2>3. turns'[t].stage = "idle" \/ (turns'[t].stage = "eligible" /\ Open = {})
    BY <1>1, <1>3 DEF TurnChecks, Idle
  <2>4. TurnSound(turns[t])' BY <2>2, <2>3 DEF TurnSound
  <2>5. DraftsSound' /\ QueueSound' BY <1>0, <2>1, TextsKept
  <2> QED BY <2>1, <2>4, <2>5, TurnMoves
<1>4. CASE LeadMessage(t)
  <2>1. UNCHANGED <<cards, queue, reviews, decided, orphans, drafts, texts>>
    BY <1>4 DEF LeadMessage, backend, history
  <2>2. Open' = Open /\ Open = {} BY <1>0, <1>4, <2>1 DEF LeadMessage, TurnSound, Open, IsPending
  <2>3. turns'[t].stage = "running" BY <1>1, <1>4 DEF LeadMessage
  <2>4. TurnSound(turns[t])' BY <2>2, <2>3 DEF TurnSound
  <2>5. DraftsSound' /\ QueueSound' BY <1>0, <2>1, TextsKept
  <2> QED BY <2>1, <2>2, <2>4, <2>5, TurnMoves
<1>5. CASE TurnRunEnds(t)
  <2>1. PICK left \in Outcomes(turns[t].run) :
          Ends(turns[t].run, left) /\ SetTurn(t, [stage |-> "answering", left |-> left])
    BY <1>5 DEF TurnRunEnds
  <2>2. UNCHANGED <<cards, queue, reviews, decided, orphans>>
    BY <1>5 DEF TurnRunEnds, backend
  <2>3. left \in {At("done", Fresh), At("paused", Fresh), At("done", 0)}
    BY <1>0, <1>5, <2>1, TurnHolds DEF TurnRunEnds, Outcomes, LeadRun
  <2>4. Open' = Open /\ Open = {}
    BY <1>0, <1>5, <2>2 DEF TurnRunEnds, TurnSound, Open, IsPending
  <2>5. turns'[t].stage = "answering" /\ turns'[t].left = left BY <1>1, <2>1
  <2>6. /\ thread' = left
        /\ texts' = IF left.draft > texts THEN left.draft ELSE texts
        /\ drafts' = IF left.at = "paused" THEN drafts \cup {left.draft} ELSE drafts
    BY <2>1 DEF Ends
  <2>7. CASE left = At("done", 0)
    <3>1. UNCHANGED <<drafts, texts>> BY <1>0, <2>6, <2>7 DEF At
    <3>2. DraftsSound' /\ QueueSound' BY <1>0, <2>2, <3>1, TextsKept
    <3>3. TurnSound(turns[t])'
      BY <1>0, <2>4, <2>5, <2>6, <2>7, <3>2 DEF TurnSound, At, DraftsSound
    <3> QED BY <2>2, <2>4, <3>2, <3>3, TurnMoves
  <2>8. CASE left \in {At("done", Fresh), At("paused", Fresh)}
    <3>1. /\ texts' = texts + 1 /\ drafts' \in {drafts, drafts \cup {texts + 1}}
          /\ left.at = "done" => drafts' = drafts
          /\ left.draft = texts + 1 /\ left.at \in {"paused", "done"}
      BY <1>0, <2>6, <2>8 DEF At, Fresh
    <3>2. DraftsSound' /\ QueueSound' BY <1>0, <2>2, <3>1, TextsWritten
    <3>3. TurnSound(turns[t])'
      BY <1>0, <2>4, <2>5, <2>6, <3>1 DEF TurnSound, DraftsSound
    <3> QED BY <2>2, <2>4, <3>2, <3>3, TurnMoves
  <2> QED BY <2>3, <2>7, <2>8
<1>6. CASE TurnAnswers(t)
  <2>1. UNCHANGED <<cards, queue, reviews, decided, orphans, thread, drafts, texts>>
    BY <1>6 DEF TurnAnswers, backend, history
  <2>2. Open' = Open /\ Open = {}
    BY <1>0, <1>6, <2>1 DEF TurnAnswers, TurnSound, Open, IsPending
  <2> DEFINE reply == ResultToResponse(turns[t].left)
  <2>3. /\ reply.status = "awaiting_approval" => thread = At("paused", reply.text)
        /\ reply.status = "asked" => reply.text \notin drafts /\ reply.text <= texts
    BY <1>0, <1>6 DEF TurnAnswers, TurnSound, ResultToResponse, At, Checkpoint
  <2>4. SetTurn(t, [stage |-> "replied", status |-> reply.status, text |-> reply.text])
    BY <1>6 DEF TurnAnswers
  <2> HIDE DEF reply
  <2>5. turns'[t].stage = "replied" /\ turns'[t].status = reply.status
        /\ turns'[t].text = reply.text
    BY <1>1, <2>4
  <2>6. TurnSound(turns[t])' BY <2>1, <2>2, <2>3, <2>5 DEF TurnSound, At
  <2>7. DraftsSound' /\ QueueSound' BY <1>0, <2>1, TextsKept
  <2> QED BY <2>1, <2>6, <2>7, TurnMoves
<1>7. CASE TurnRecords(t)
  <2>1. UNCHANGED <<reviews, decided, orphans, thread, drafts, texts>>
    BY <1>7 DEF TurnRecords, history
  <2>2. Open = {} /\ turns[t].text \in Text
    BY <1>0, <1>7, TurnHolds DEF TurnRecords, TurnSound
  <2>3. turns'[t].stage = "idle" BY <1>1, <1>7 DEF TurnRecords, Idle
  <2>4. TurnSound(turns[t])' BY <2>3 DEF TurnSound
  <2>5. CASE UNCHANGED cards
    <3>1. DraftsSound' /\ QueueSound'
      <4>1. CASE queue' = Enqueued(0, turns[t].text) /\ turns[t].status = "asked"
        <5>1. turns[t].text \notin drafts /\ turns[t].text <= texts
          BY <1>0, <1>7, <4>1 DEF TurnRecords, TurnSound
        <5>2. 0 \in 0 .. Len(cards) BY DEF TypeOK
        <5>3. QueueSound' BY <1>0, <2>1, <2>2, <4>1, <5>1, <5>2, TextQueued
        <5> QED BY <1>0, <2>1, <5>3 DEF DraftsSound
      <4>2. CASE queue' = queue BY <1>0, <2>1, <4>2, TextsKept
      <4> QED BY <1>7, <4>1, <4>2 DEF TurnRecords
    <3> QED BY <2>1, <2>4, <2>5, <3>1, TurnMoves
  <2>6. CASE cards' = Upserted(turns[t].text, "reply") /\ queue' = queue
             /\ turns[t].status = "awaiting_approval"
    <3> DEFINE last == Len(cards) + 1
    <3>1. cards' = Append(cards, Card(turns[t].text, "reply"))
      BY <2>2, <2>6 DEF Upserted
    <3>2. cards \in Seq(Cards) BY DEF TypeOK
    <3>3. /\ DOMAIN cards' = DOMAIN cards \cup {last}
          /\ cards'[last] = Card(turns[t].text, "reply")
          /\ \A n \in DOMAIN cards : cards'[n] = cards[n]
      BY <3>1, <3>2
    <3> HIDE DEF last
    <3>4. /\ cards'[last].kind = "reply" /\ cards'[last].draft = turns[t].text
      BY <3>3 DEF Card
    <3>5. Open' \subseteq {last} BY <2>2, <3>3 DEF Open, IsPending
    <3>6. OneCardFromTheGraph' BY <3>3, <3>4, <3>5 DEF Sound, OneCardFromTheGraph
    <3>7. thread' = At("paused", turns[t].text) BY <1>0, <1>7, <2>1, <2>6 DEF TurnRecords, TurnSound
    <3>8. CardsAtRest' BY <3>4, <3>5, <3>7 DEF CardsAtRest, AtRest, At
    <3>9. \A d \in Reviewers : ReviewSound(reviews[d])'
      BY <2>1, <2>2, NobodyDecides DEF ReviewSound
    <3>10. DraftsSound' /\ QueueSound' BY <1>0, <2>1, <2>6, TextsKept
    <3> QED BY <1>0, <2>1, <2>4, <3>6, <3>8, <3>9, <3>10 DEF Sound
  <2> QED BY <1>7, <2>5, <2>6 DEF TurnRecords
<1>8. CASE TurnFails(t)
  <2>1. turns[t].stage # "running" BY <1>8 DEF TurnFails
  <2>2. UNCHANGED <<cards, queue, reviews, decided, orphans, thread, drafts, texts>>
    BY <1>8, <2>1 DEF TurnFails, backend
  <2>3. turns'[t].stage = "idle" BY <1>1, <1>8 DEF TurnFails, Idle
  <2>4. TurnSound(turns[t])' BY <2>3 DEF TurnSound
  <2>5. DraftsSound' /\ QueueSound' BY <1>0, <2>2, TextsKept
  <2> QED BY <2>2, <2>4, <2>5, TurnMoves
<1> QED BY <1>2, <1>3, <1>4, <1>5, <1>6, <1>7, <1>8 DEF TurnStep

\* A step of a decision: nobody else decides, and the lead's turn waits.
LEMMA ReviewMoves ==
    ASSUME TypeOK, TypeOK', Sound, Alone, Alone', NEW d \in Reviewers,
           \A e \in Reviewers \ {d} : reviews'[e] = reviews[e],
           reviews[d].stage # "idle" \/ reviews'[d].stage # "idle",
           Open # {}, UNCHANGED <<turns, orphans>>,
           OneCardFromTheGraph', DraftsSound', QueueSound', ReviewSound(reviews[d])',
           reviews'[d].stage = "idle" => \A n \in Open' : AtRest(n)'
    PROVE  Sound'
<1>1. \A e \in Reviewers \ {d} : reviews'[e].stage = "idle"
  BY DEF Alone
<1>2. \A e \in Reviewers : ReviewSound(reviews[e])'
  <2> SUFFICES ASSUME NEW e \in Reviewers PROVE ReviewSound(reviews[e])' OBVIOUS
  <2>1. CASE e = d BY <2>1
  <2>2. CASE e # d BY <1>1, <2>2 DEF ReviewSound
  <2> QED BY <2>1, <2>2
<1>3. CardsAtRest' BY DEF CardsAtRest
<1>4. \A t \in Turns : TurnSound(turns[t])' BY TurnWaits DEF TurnSound
<1> QED BY <1>2, <1>3, <1>4 DEF Sound

\* What a decision leaves of the cards it only looks at.
LEMMA CardsKept ==
    ASSUME OneCardFromTheGraph, UNCHANGED cards
    PROVE  Open' = Open /\ OneCardFromTheGraph'
BY DEF OneCardFromTheGraph, Open, IsPending

\* Reading the open card and deciding on it.
LEMMA DecisionIsSound ==
    ASSUME TypeOK, TypeOK', Sound, Alone, Alone', NEW d \in Reviewers,
           Look(d) \/ \E verdict \in Verdicts : Decide(d, verdict)
    PROVE  Sound'
<1>0. /\ OneCardFromTheGraph /\ DraftsSound /\ QueueSound /\ orphans = {}
      /\ ReviewSound(reviews[d]) /\ reviews \in [Reviewers -> ReviewStates(Len(cards))]
  BY DEF Sound, TypeOK
<1>1. ASSUME NEW v, SetReview(d, v)
      PROVE  reviews'[d] = v /\ \A e \in Reviewers \ {d} : reviews'[e] = reviews[e]
  BY <1>0, <1>1 DEF SetReview
<1>2. UNCHANGED <<cards, thread, queue, turns, orphans, drafts, texts>> /\ decided \subseteq decided'
  BY DEF Look, Decide, backend, history
<1>3. Open' = Open /\ OneCardFromTheGraph' BY <1>0, <1>2, CardsKept
<1>4. DraftsSound' /\ QueueSound' BY <1>0, <1>2, TextsKept
<1>5. \A n \in Open : AtRest(n) => AtRest(n)' BY <1>2 DEF AtRest, Approved
<1>6. CASE Look(d)
  <2>1. reviews[d].stage = "idle" /\ Open # {} BY <1>6 DEF Look, Idle
  <2>2. PICK n \in Open : TRUE BY <2>1
  <2>3. OpenCard = n BY <1>0, TheOpenCard
  <2>4. /\ reviews'[d].stage = "looking" /\ reviews'[d].card = n
        /\ reviews'[d].text = cards[n].draft
        /\ \A e \in Reviewers \ {d} : reviews'[e] = reviews[e]
    BY <1>1, <1>6, <2>3 DEF Look
  <2>5. \A e \in Reviewers : reviews[e].stage = "idle" BY <2>1, <2>4 DEF Alone
  <2>6. AtRest(n)' BY <1>5, <2>5 DEF Sound, CardsAtRest
  <2>7. ReviewSound(reviews[d])' BY <1>2, <1>3, <2>2, <2>4, <2>6 DEF ReviewSound
  <2> QED BY <1>2, <1>3, <1>4, <2>1, <2>4, <2>7, ReviewMoves
<1>7. ASSUME NEW verdict \in Verdicts, Decide(d, verdict) PROVE Sound'
  <2>1. reviews[d].stage = "looking" BY <1>7 DEF Decide
  <2>2. PICK n \in Open :
          reviews[d].card = n /\ AtRest(n) /\ reviews[d].text = cards[n].draft
    BY <1>0, <2>1 DEF ReviewSound
  <2>3. OpenCard = n BY <1>0, <2>2, TheOpenCard
  <2>4. /\ SetReview(d, [stage |-> "decided", card |-> n, verdict |-> verdict])
        /\ decided' = decided \cup
             {[card |-> n, verdict |-> verdict, text |-> reviews[d].text]}
    BY <1>7, <2>2, <2>3 DEF Decide
  <2>5. /\ reviews'[d].stage = "decided" /\ reviews'[d].card = n
        /\ reviews'[d].verdict = verdict
        /\ \A e \in Reviewers \ {d} : reviews'[e] = reviews[e]
    BY <1>1, <2>4
  <2>6. verdict = "approve" => Approved(n, cards[n].draft)'
    BY <1>2, <2>2, <2>4 DEF Approved
  <2>7. AtRest(n)' BY <1>5, <2>2
  <2>8. ReviewSound(reviews[d])' BY <1>2, <1>3, <2>2, <2>5, <2>6, <2>7 DEF ReviewSound
  <2> QED BY <1>2, <1>3, <1>4, <2>2, <2>5, <2>8, ReviewMoves
<1> QED BY <1>6, <1>7

\* The graph resumes with the verdict, and its answer is read off the thread.
LEMMA ResumeIsSound ==
    ASSUME TypeOK, TypeOK', Sound, Alone, Alone', NEW d \in Reviewers,
           Resume(d) \/ ReviewRunEnds(d) \/ ReviewAnswers(d)
    PROVE  Sound'
<1>0. /\ OneCardFromTheGraph /\ DraftsSound /\ QueueSound /\ orphans = {}
      /\ ReviewSound(reviews[d]) /\ reviews \in [Reviewers -> ReviewStates(Len(cards))]
      /\ reviews[d] \in ReviewStates(Len(cards)) /\ Len(cards) \in Nat
      /\ thread \in Checkpoint /\ texts \in Nat
  BY DEF Sound, TypeOK, Text
<1>1. ASSUME NEW v, SetReview(d, v)
      PROVE  reviews'[d] = v /\ \A e \in Reviewers \ {d} : reviews'[e] = reviews[e]
  BY <1>0, <1>1 DEF SetReview
<1>2. UNCHANGED <<cards, queue, turns, orphans, decided>>
  BY DEF Resume, ReviewRunEnds, ReviewAnswers, backend, history
<1>3. Open' = Open /\ OneCardFromTheGraph' BY <1>0, <1>2, CardsKept
<1>4. reviews[d].stage \in {"decided", "resuming", "answering"}
  BY DEF Resume, ReviewRunEnds, ReviewAnswers
<1>5. PICK n \in Open : n = reviews[d].card BY <1>0, <1>4 DEF ReviewSound
<1>6. CASE Resume(d)
  <2>1. /\ AtRest(n)
        /\ reviews[d].verdict = "approve" => Approved(n, cards[n].draft)
    BY <1>0, <1>5, <1>6 DEF Resume, ReviewSound
  <2>2. thread' = IF thread.at = "done" THEN thread ELSE At("busy", thread.draft)
    BY <1>6 DEF Resume, Begun
  <2>3. /\ reviews'[d] = [stage |-> "resuming", card |-> n,
                          run |-> [op |-> reviews[d].verdict, found |-> thread]]
        /\ \A e \in Reviewers \ {d} : reviews'[e] = reviews[e]
    BY <1>1, <1>5, <1>6 DEF Resume
  <2>4. /\ reviews'[d].stage = "resuming" /\ reviews'[d].card = n
        /\ reviews'[d].run.op = reviews[d].verdict /\ reviews'[d].run.found = thread
    BY <2>3
  <2>5. UNCHANGED <<drafts, texts>> BY <1>6 DEF Resume, history
  <2>6. DraftsSound' /\ QueueSound' BY <1>0, <1>2, <2>5, TextsKept
  <2>7. ReviewSound(reviews[d])'
    BY <1>2, <1>3, <1>5, <2>1, <2>2, <2>4 DEF ReviewSound, AtRest, Approved
  <2> QED BY <1>2, <1>3, <1>4, <1>5, <2>3, <2>4, <2>6, <2>7, ReviewMoves
<1>7. CASE ReviewRunEnds(d)
  <2>0. PICK run : run = reviews[d].run OBVIOUS
  <2>1. /\ reviews[d].stage = "resuming"
        /\ run.found.at \in {"paused", "done"} /\ run.found.draft = cards[n].draft
        /\ run.found.at = "done" => thread = run.found
        /\ run.op = "approve" \/ run.found.at = "done" => Approved(n, cards[n].draft)
    BY <1>0, <1>5, <1>7, <2>0 DEF ReviewRunEnds, ReviewSound
  <2>2. run.op \in Verdicts /\ run.found \in Checkpoint
    BY <1>0, <2>0, <2>1, ReviewHolds
  <2>3. PICK left \in Outcomes(run) :
          /\ IF run.found.at = "done" THEN UNCHANGED <<thread, texts, drafts>>
                                      ELSE Ends(run, left)
          /\ SetReview(d, [stage |-> "answering", card |-> n,
                           verdict |-> run.op, left |-> left])
    BY <1>5, <1>7, <2>0 DEF ReviewRunEnds
  <2>4. left \in Resumed(run.found, run.op)
    BY <2>2 DEF Outcomes, Verdicts
  <2>5. /\ reviews'[d].stage = "answering" /\ reviews'[d].card = n
        /\ reviews'[d].verdict = run.op /\ reviews'[d].left = left
        /\ \A e \in Reviewers \ {d} : reviews'[e] = reviews[e]
    BY <1>1, <2>3
  <2>6. CASE run.found.at = "done"
    <3>1. left = thread /\ UNCHANGED <<thread, texts, drafts>>
      BY <2>1, <2>3, <2>4, <2>6 DEF Resumed
    <3>2. DraftsSound' /\ QueueSound' BY <1>0, <1>2, <3>1, TextsKept
    <3>3. Approved(n, cards[n].draft)' /\ thread'.at = "done"
          /\ thread'.draft = cards'[n].draft
      BY <1>2, <2>1, <2>6, <3>1 DEF Approved
    <3>4. ReviewSound(reviews[d])'
      BY <1>2, <1>3, <1>5, <2>5, <3>1, <3>3 DEF ReviewSound, AtRest, Approved
    <3> QED BY <1>2, <1>3, <1>4, <1>5, <2>5, <3>2, <3>4, ReviewMoves
  <2>7. CASE run.found.at = "paused"
    <3>1. /\ run.op = "approve" => left = At("done", run.found.draft)
          /\ run.op = "edit" => left = At("paused", Fresh)
          /\ run.op = "skip" => left = At("done", 0)
      BY <2>4, <2>7 DEF Resumed
    <3>2. /\ thread' = left
          /\ texts' = IF left.draft > texts THEN left.draft ELSE texts
          /\ drafts' = IF left.at = "paused" THEN drafts \cup {left.draft} ELSE drafts
      BY <2>3, <2>7 DEF Ends
    <3>3. CASE run.op = "edit"
      <4>1. texts' = texts + 1 /\ drafts' \in {drafts, drafts \cup {texts + 1}}
        BY <1>0, <3>1, <3>2, <3>3 DEF At, Fresh
      <4>2. DraftsSound' /\ QueueSound' BY <1>0, <1>2, <4>1, TextsWritten
      <4>3. thread'.at = "paused" BY <3>1, <3>2, <3>3 DEF At
      <4>4. ReviewSound(reviews[d])'
        BY <1>3, <1>5, <2>5, <3>2, <3>3, <4>3 DEF ReviewSound
      <4> QED BY <1>2, <1>3, <1>4, <1>5, <2>5, <4>2, <4>4, ReviewMoves
    <3>4. CASE run.op \in {"approve", "skip"}
      <4>1. left.at = "done" /\ left.draft \in Nat
        BY <2>2, <3>1, <3>4 DEF At, Checkpoint, Text
      <4>2. drafts' = drafts /\ texts' \in Nat /\ texts' >= texts
        BY <1>0, <3>2, <4>1
      <4>3. DraftsSound' /\ QueueSound'
        <5>1. DraftsSound' BY <1>0, <4>2 DEF DraftsSound
        <5>2. \A i \in DOMAIN queue : queue[i].text \in Nat
          <6>1. \A i \in DOMAIN queue : queue[i] \in Entries(Len(cards)) BY DEF TypeOK
          <6> QED BY <6>1 DEF Entries, Text
        <5>3. QueueSound' BY <1>0, <1>2, <4>2, <5>2 DEF QueueSound, Approved
        <5> QED BY <5>1, <5>3
      <4>4. run.op = "approve" =>
              AtRest(n)' /\ thread'.at = "done"
        BY <1>2, <2>1, <3>1, <3>2 DEF AtRest, Approved, At
      <4>5. ReviewSound(reviews[d])'
        BY <1>3, <1>5, <2>5, <3>2, <3>4, <4>1, <4>4 DEF ReviewSound
      <4> QED BY <1>2, <1>3, <1>4, <1>5, <2>5, <4>3, <4>5, ReviewMoves
    <3> QED BY <2>2, <3>3, <3>4 DEF Verdicts
  <2> QED BY <2>1, <2>6, <2>7
<1>8. CASE ReviewAnswers(d)
  <2>1. /\ reviews[d].stage = "answering" /\ reviews[d].left = thread
        /\ thread.at \in {"paused", "done"}
        /\ reviews[d].verdict = "approve" => AtRest(n) /\ thread.at = "done"
        /\ reviews[d].verdict = "edit" => thread.at = "paused" \/ Approved(n, thread.draft)
    BY <1>0, <1>5, <1>8 DEF ReviewAnswers, ReviewSound
  <2>2. UNCHANGED <<thread, drafts, texts>> BY <1>8 DEF ReviewAnswers, history
  <2>3. DraftsSound' /\ QueueSound' BY <1>0, <1>2, <2>2, TextsKept
  <2>4. reviews[d].verdict \in Verdicts BY <1>0, <2>1, ReviewHolds
  <2>0. PICK reply : reply = OwnerDecisionResponse(reviews[d].verdict, reviews[d].left) OBVIOUS
  <2>5. /\ reply.status = "sent" => Approved(n, reply.text)
        /\ reply.status = "awaiting_approval" => thread = At("paused", reply.text)
    <3>1. CASE thread.at = "paused"
      <4>1. reply = [status |-> "awaiting_approval", text |-> thread.draft]
        BY <2>0, <3>1 DEF OwnerDecisionResponse
      <4> QED BY <1>0, <3>1, <4>1 DEF At, Checkpoint
    <3>2. CASE thread.at = "done" /\ reviews[d].verdict = "skip"
      BY <2>0, <3>2 DEF OwnerDecisionResponse
    <3>3. CASE thread.at = "done" /\ reviews[d].verdict # "skip"
      <4>1. reply = [status |-> "sent", text |-> thread.draft]
        BY <2>0, <2>1, <3>3 DEF OwnerDecisionResponse
      <4>2. Approved(n, thread.draft) BY <2>1, <2>4, <3>3 DEF Verdicts, AtRest
      <4> QED BY <4>1, <4>2
    <3> QED BY <2>1, <3>1, <3>2, <3>3
  <2>6. /\ SetReview(d, [stage |-> "replied", card |-> n, verdict |-> reviews[d].verdict,
                         status |-> reply.status, text |-> reply.text])
    BY <1>5, <1>8, <2>0 DEF ReviewAnswers
  <2>7. /\ reviews'[d].stage = "replied" /\ reviews'[d].card = n
        /\ reviews'[d].verdict = reviews[d].verdict
        /\ reviews'[d].status = reply.status /\ reviews'[d].text = reply.text
        /\ \A e \in Reviewers \ {d} : reviews'[e] = reviews[e]
    BY <1>1, <2>6
  <2>8. ReviewSound(reviews[d])'
    <3>1. AtRest(n) => AtRest(n)' BY <1>2, <2>2 DEF AtRest, Approved
    <3>2. /\ reply.status = "sent" => Approved(n, reply.text)'
          /\ reply.status = "awaiting_approval" => thread' = At("paused", reply.text)'
      BY <1>2, <2>2, <2>5, <2>7 DEF Approved, At
    <3> QED BY <1>3, <1>5, <2>1, <2>2, <2>5, <2>7, <3>1, <1>2 DEF ReviewSound, Approved, At
  <2> QED BY <1>2, <1>3, <1>4, <1>5, <2>3, <2>7, <2>8, ReviewMoves
<1> QED BY <1>6, <1>7, <1>8

\* A revised draft is the open card and what the graph paused on.
LEMMA RevisionIsSound ==
    ASSUME TypeOK, TypeOK', Sound, Alone, Alone', NEW d \in Reviewers, RecordRevision(d)
    PROVE  Sound'
<1>0. /\ OneCardFromTheGraph /\ DraftsSound /\ QueueSound /\ orphans = {}
      /\ ReviewSound(reviews[d]) /\ reviews \in [Reviewers -> ReviewStates(Len(cards))]
      /\ cards \in Seq(Cards)
  BY DEF Sound, TypeOK
<1>1. /\ reviews[d].stage = "replied" /\ reviews[d].status = "awaiting_approval"
      /\ cards' = Upserted(reviews[d].text, "reply")
      /\ reviews' = [reviews EXCEPT ![d] = Idle]
      /\ UNCHANGED <<queue, turns, orphans, thread, decided, drafts, texts>>
  BY DEF RecordRevision, SetReview, history
<1>2. PICK n \in Open : n = reviews[d].card BY <1>0, <1>1 DEF ReviewSound
<1>3. OpenCard = n /\ Open = {n} /\ n \in DOMAIN cards BY <1>0, TheOpenCard
<1>4. cards' = [cards EXCEPT ![n] = Card(reviews[d].text, "reply")]
  BY <1>1, <1>3 DEF Upserted
<1>5. /\ DOMAIN cards' = DOMAIN cards
      /\ cards'[n] = Card(reviews[d].text, "reply")
      /\ \A m \in DOMAIN cards : m # n => cards'[m] = cards[m]
  BY <1>0, <1>3, <1>4
<1>6. cards'[n].kind = "reply" /\ cards'[n].draft = reviews[d].text
  BY <1>5 DEF Card
<1>7. Open' \subseteq {n}
  <2> SUFFICES ASSUME NEW m \in Open', m # n PROVE FALSE OBVIOUS
  <2>1. m \in DOMAIN cards /\ cards[m].status = "pending" BY <1>5 DEF Open, IsPending
  <2>2. m \in Open BY <2>1 DEF Open, IsPending
  <2> QED BY <1>3, <2>2
<1>8. OneCardFromTheGraph' BY <1>0, <1>5, <1>6, <1>7 DEF OneCardFromTheGraph
<1>9. thread' = At("paused", reviews[d].text) BY <1>0, <1>1 DEF ReviewSound
<1>10. AtRest(n)' BY <1>6, <1>9 DEF AtRest, At
<1>11. /\ reviews'[d].stage = "idle"
       /\ \A e \in Reviewers \ {d} : reviews'[e] = reviews[e]
  BY <1>0, <1>1 DEF Idle
<1>12. ReviewSound(reviews[d])' BY <1>11 DEF ReviewSound
<1>13. DraftsSound' /\ QueueSound' BY <1>0, <1>1, TextsKept
<1> QED BY <1>1, <1>2, <1>7, <1>8, <1>10, <1>11, <1>12, <1>13, ReviewMoves

\* The approved reply is queued, and the card closed some writes later.
LEMMA ClosingIsSound ==
    ASSUME TypeOK, TypeOK', Sound, Alone, Alone', NEW d \in Reviewers,
           QueueReply(d) \/ Skipped(d) \/ CloseCard(d)
    PROVE  Sound'
<1>0. /\ OneCardFromTheGraph /\ DraftsSound /\ QueueSound /\ orphans = {}
      /\ ReviewSound(reviews[d]) /\ reviews \in [Reviewers -> ReviewStates(Len(cards))]
      /\ reviews[d] \in ReviewStates(Len(cards)) /\ Len(cards) \in Nat
      /\ cards \in Seq(Cards)
  BY DEF Sound, TypeOK
<1>1. UNCHANGED <<turns, orphans, thread, decided, drafts, texts>>
  BY DEF QueueReply, Skipped, CloseCard, backend, history
<1>2. reviews[d].stage \in {"replied", "closing"} BY DEF QueueReply, Skipped, CloseCard
<1>3. PICK n \in Open : n = reviews[d].card BY <1>0, <1>2 DEF ReviewSound
<1>4. CASE QueueReply(d) \/ Skipped(d)
  <2>1. reviews[d].stage = "replied" /\ cards' = cards
    BY <1>4 DEF QueueReply, Skipped, backend
  <2>2. reviews' = [reviews EXCEPT ![d] =
                     [stage |-> "closing", card |-> n, verdict |-> reviews[d].verdict,
                      resolution |-> Resolution(reviews[d].verdict)]]
    BY <1>3, <1>4 DEF QueueReply, Skipped, SetReview
  <2>3. /\ reviews'[d].stage = "closing" /\ reviews'[d].card = n
        /\ reviews'[d].verdict = reviews[d].verdict
        /\ \A e \in Reviewers \ {d} : reviews'[e] = reviews[e]
    BY <1>0, <2>2
  <2>4. Open' = Open /\ OneCardFromTheGraph' BY <1>0, <2>1, CardsKept
  <2>5. AtRest(n) => AtRest(n)' BY <1>1, <2>1 DEF AtRest, Approved
  <2>6. reviews[d].verdict = "approve" => AtRest(n) BY <1>0, <1>3, <2>1 DEF ReviewSound
  <2>7. ReviewSound(reviews[d])' BY <2>3, <2>4, <2>5, <2>6 DEF ReviewSound
  <2>8. QueueSound'
    <3>1. CASE queue' = queue BY <1>0, <1>1, <3>1, TextsKept
    <3>2. CASE QueueReply(d)
      <4>1. /\ queue' = Enqueued(n, reviews[d].text) /\ reviews[d].status = "sent"
        BY <1>3, <3>2 DEF QueueReply
      <4>2. Approved(n, reviews[d].text) BY <1>0, <1>3, <2>1, <4>1 DEF ReviewSound
      <4>3. reviews[d].text \in Text /\ n \in 1 .. Len(cards)
        BY <1>0, <1>3, <2>1, ReviewHolds
      <4> QED BY <1>0, <1>1, <4>1, <4>2, <4>3, TextQueued
    <3> QED BY <1>4, <3>1, <3>2 DEF Skipped, backend
  <2>9. DraftsSound' BY <1>0, <1>1 DEF DraftsSound
  <2> QED BY <1>1, <1>3, <2>3, <2>4, <2>7, <2>8, <2>9, ReviewMoves
<1>5. CASE CloseCard(d)
  <2>1. /\ cards' = ResolvedCard(n, reviews[d].resolution)
        /\ reviews' = [reviews EXCEPT ![d] = Idle] /\ queue' = queue
    BY <1>3, <1>5 DEF CloseCard, SetReview
  <2>2. OpenCard = n /\ Open = {n} /\ n \in DOMAIN cards BY <1>0, TheOpenCard
  <2> DEFINE c == [cards[n] EXCEPT !.status = "resolved",
                                   !.resolution = reviews[d].resolution]
  <2>3. cards' = [cards EXCEPT ![n] = c] BY <2>1 DEF ResolvedCard
  <2>4. cards[n] \in Cards BY <1>0, <2>2
  <2>5. c.status = "resolved" /\ c.kind = cards[n].kind BY <2>4 DEF Cards
  <2> HIDE DEF c
  <2>6. /\ DOMAIN cards' = DOMAIN cards /\ cards'[n] = c
        /\ \A m \in DOMAIN cards : m # n => cards'[m] = cards[m]
    BY <1>0, <2>2, <2>3
  <2>7. Open' = {}
    <3> SUFFICES ASSUME NEW m \in Open' PROVE FALSE OBVIOUS
    <3>1. m \in DOMAIN cards /\ cards'[m].status = "pending" BY <2>6 DEF Open, IsPending
    <3>2. m # n BY <2>5, <2>6, <3>1
    <3>3. m \in Open BY <2>6, <3>1, <3>2 DEF Open, IsPending
    <3> QED BY <2>2, <3>2, <3>3
  <2>8. OneCardFromTheGraph' BY <1>0, <2>2, <2>5, <2>6, <2>7 DEF OneCardFromTheGraph
  <2>9. /\ reviews'[d].stage = "idle"
        /\ \A e \in Reviewers \ {d} : reviews'[e] = reviews[e]
    BY <1>0, <2>1 DEF Idle
  <2>10. ReviewSound(reviews[d])' BY <2>9 DEF ReviewSound
  <2>11. DraftsSound' /\ QueueSound' BY <1>0, <1>1, <2>1, TextsKept
  <2> QED BY <1>1, <1>2, <1>3, <2>7, <2>8, <2>9, <2>10, <2>11, ReviewMoves
<1> QED BY <1>4, <1>5

\* A call or a write that fails leaves the open card as it was decided on, unless
\* a run, an edit or a skip is lost with it.
LEMMA FailureIsSound ==
    ASSUME TypeOK, TypeOK', Sound, Alone, Alone', ~lost', NEW d \in Reviewers, ReviewFails(d)
    PROVE  Sound'
<1>0. /\ OneCardFromTheGraph /\ DraftsSound /\ QueueSound /\ orphans = {}
      /\ ReviewSound(reviews[d]) /\ reviews \in [Reviewers -> ReviewStates(Len(cards))]
      /\ reviews[d] \in ReviewStates(Len(cards)) /\ Len(cards) \in Nat
  BY DEF Sound, TypeOK
<1>1. /\ reviews[d].stage \notin {"idle", "looking", "resuming"}
      /\ reviews[d].stage # "decided" => reviews[d].verdict = "approve"
      /\ reviews' = [reviews EXCEPT ![d] = Idle]
      /\ UNCHANGED <<cards, queue, turns, orphans, thread, decided, drafts, texts>>
  BY DEF ReviewFails, SetReview, backend
<1>2. reviews[d].stage \in {"decided", "answering", "replied", "closing"}
  BY <1>0, <1>1, ReviewHolds
<1>3. PICK n \in Open : n = reviews[d].card BY <1>0, <1>2 DEF ReviewSound
<1>4. AtRest(n) BY <1>0, <1>1, <1>2, <1>3 DEF ReviewSound
<1>5. AtRest(n)' BY <1>1, <1>4 DEF AtRest, Approved
<1>6. Open' = Open /\ OneCardFromTheGraph' BY <1>0, <1>1, CardsKept
<1>7. Open = {n} BY <1>0, TheOpenCard
<1>8. /\ reviews'[d].stage = "idle"
      /\ \A e \in Reviewers \ {d} : reviews'[e] = reviews[e]
  BY <1>0, <1>1 DEF Idle
<1>9. ReviewSound(reviews[d])' BY <1>8 DEF ReviewSound
<1>10. DraftsSound' /\ QueueSound' BY <1>0, <1>1, TextsKept
<1> QED BY <1>1, <1>2, <1>3, <1>5, <1>6, <1>7, <1>8, <1>9, <1>10, ReviewMoves

LEMMA ReviewIsSound ==
    ASSUME TypeOK, TypeOK', Sound, Alone, Alone', ~lost', NEW d \in Reviewers, ReviewStep(d)
    PROVE  Sound'
<1>1. CASE AnswerHandover(d)
  <2>1. /\ reviews[d].stage = "looking" /\ cards[reviews[d].card].kind = "handover"
    BY <1>1 DEF AnswerHandover
  <2>2. reviews[d].card \in DOMAIN cards BY <2>1 DEF Sound, ReviewSound, Open
  <2> QED BY <2>1, <2>2 DEF Sound, OneCardFromTheGraph
<1> QED BY <1>1, DecisionIsSound, ResumeIsSound, RevisionIsSound, ClosingIsSound,
           FailureIsSound DEF ReviewStep

LEMMA SoundStep ==
    ASSUME TypeOK, TypeOK', Sound, Alone, Alone', ~lost', [Next]_vars, NEW t, Turns = {t}
    PROVE  Sound'
<1>1. CASE \E u \in Turns : TurnStep(u) BY <1>1, TurnIsSound
<1>2. CASE \E d \in Reviewers : ReviewStep(d) BY <1>2, ReviewIsSound
<1>3. CASE \E r \in Readers : ReadStarts(r) \/ ReadRaises(r)
  <2>1. PICK r \in Readers : ReadStarts(r) \/ ReadRaises(r) BY <1>3
  <2>2. readers[r] = "idle" /\ readers'[r] = "idle" BY DEF Alone
  <2>3. ReadStarts(r) => readers'[r] # "idle" BY DEF ReadStarts, TypeOK
  <2> QED BY <2>1, <2>2, <2>3 DEF ReadRaises
<1>4. CASE \E run \in orphans : OrphanEnds(run) BY <1>4 DEF Sound
<1>5. CASE SetAutomation \/ UNCHANGED vars
  <2>1. UNCHANGED <<cards, queue, reviews, turns, orphans, thread, decided, drafts, texts>>
    BY <1>5 DEF SetAutomation, vars, history
  <2>2. Open' = Open /\ OneCardFromTheGraph' BY <2>1, CardsKept DEF Sound
  <2>3. DraftsSound' /\ QueueSound' BY <2>1, TextsKept DEF Sound
  <2>4. CardsAtRest' BY <2>1, <2>2 DEF Sound, CardsAtRest, AtRest, Approved
  <2>5. \A d \in Reviewers : ReviewSound(reviews[d])'
    BY <2>1, <2>2 DEF Sound, ReviewSound, AtRest, Approved
  <2>6. \A u \in Turns : TurnSound(turns[u])' BY <2>1, <2>2 DEF Sound, TurnSound
  <2> QED BY <2>1, <2>2, <2>3, <2>4, <2>5, <2>6 DEF Sound
<1> QED BY <1>1, <1>2, <1>3, <1>4, <1>5 DEF Next

\* What was given up stays given up.
LEMMA LostForGood ==
    ASSUME [Next]_vars, lost
    PROVE  lost'
<1>1. CASE \E t \in Turns : TurnStep(t)
  BY <1>1 DEF TurnStep, TurnStarts, InstructionTurn, TurnChecks, LeadMessage, TurnRunEnds,
              TurnAnswers, TurnRecords, TurnFails, history
<1>2. CASE \E d \in Reviewers : ReviewStep(d)
  BY <1>2 DEF ReviewStep, Look, Decide, Resume, ReviewRunEnds, ReviewAnswers, RecordRevision,
              QueueReply, Skipped, CloseCard, ReviewFails, AnswerHandover, history
<1>3. CASE \/ \E r \in Readers : ReadStarts(r) \/ ReadRaises(r)
           \/ \E run \in orphans : OrphanEnds(run)
           \/ SetAutomation
  BY <1>3 DEF ReadStarts, ReadRaises, OrphanEnds, SetAutomation, history
<1>4. CASE UNCHANGED vars BY <1>4 DEF vars
<1> QED BY <1>1, <1>2, <1>3, <1>4 DEF Next

LEMMA AloneStarts == SettingInit => TypeOK /\ AloneInv
<1> SUFFICES ASSUME SettingInit PROVE TypeOK /\ AloneInv OBVIOUS
<1>1. TypeOK BY InitType DEF SettingInit
<1>2. Init BY DEF SettingInit
<1>3. Alone BY <1>2 DEF Init, Alone, Idle
<1>4. Open = {} /\ queue = <<>> /\ cards = <<>> /\ drafts = {} /\ orphans = {}
  BY <1>2 DEF Init, Open
<1>5. /\ \A d \in Reviewers : reviews[d].stage = "idle"
      /\ \A t \in Turns : turns[t].stage = "idle"
  BY <1>2 DEF Init, Idle
<1>6. Sound
  BY <1>4, <1>5 DEF Sound, OneCardFromTheGraph, CardsAtRest, DraftsSound, QueueSound,
                    ReviewSound, TurnSound
<1> QED BY <1>1, <1>3, <1>6 DEF AloneInv

LEMMA AloneStep ==
    ASSUME TypeOK, AloneInv, [SettingNext]_<<vars, crowd>>, NEW t, Turns = {t}
    PROVE  TypeOK' /\ AloneInv'
<1>1. [Next]_vars /\ crowd' = crowd BY DEF SettingNext
<1>2. TypeOK' BY <1>1, StepType
<1>3. CASE crowd BY <1>1, <1>2, <1>3 DEF AloneInv
<1>4. CASE ~crowd
  <2>1. Alone /\ (lost \/ Sound) BY <1>4 DEF AloneInv
  <2>2. Alone'
    <3>1. CASE SettingNext BY <1>4, <3>1 DEF SettingNext
    <3>2. CASE UNCHANGED <<vars, crowd>> BY <2>1, <3>2 DEF vars, Alone
    <3> QED BY <3>1, <3>2
  <2>3. lost' \/ Sound'
    <3>1. CASE lost BY <1>1, <3>1, LostForGood
    <3>2. CASE ~lost BY <1>1, <1>2, <2>1, <2>2, <3>2, SoundStep
    <3> QED BY <3>1, <3>2
  <2> QED BY <1>2, <2>2, <2>3 DEF AloneInv
<1> QED BY <1>3, <1>4

\* One person deciding at a time, one turn of the lead's at a time: the message
\* queued for a card carries a text that was looked at and approved on that very
\* card, through edits, retries of a failed approval and answers that come late.
THEOREM SendsWhatWasReviewed ==
    ASSUME NEW t, Turns = {t}
    PROVE  SettingSpec => []AloneSentAsReviewed
<1>1. TypeOK /\ AloneInv => AloneSentAsReviewed
  BY DEF AloneInv, AloneSentAsReviewed, SentAsReviewed, Sound, QueueSound, Approved
<1>2. TypeOK /\ AloneInv /\ [SettingNext]_<<vars, crowd>> => TypeOK' /\ AloneInv'
  BY AloneStep
<1> QED BY <1>1, <1>2, AloneStarts, PTL DEF SettingSpec

\* In the same setting the two services agree: when nothing is under way, the
\* draft on the open card is the text the graph would send if approved now.
THEOREM ServicesAgree ==
    ASSUME NEW t, Turns = {t}
    PROVE  SettingSpec => []AloneOpenCardIsTheGraphs
<1>1. TypeOK /\ AloneInv => AloneOpenCardIsTheGraphs
  <2> SUFFICES ASSUME TypeOK, AloneInv, ~crowd, Quiet, ~lost, NEW n \in Open
               PROVE  cards[n].draft = thread.draft
    BY DEF AloneOpenCardIsTheGraphs, OpenCardIsTheGraphs
  <2>1. Sound /\ Alone BY DEF AloneInv
  <2>2. CASE \A d \in Reviewers : reviews[d].stage = "idle"
    BY <2>1, <2>2 DEF Sound, CardsAtRest, AtRest
  <2>3. CASE \E d \in Reviewers : reviews[d].stage # "idle"
    <3>1. PICK d \in Reviewers : reviews[d].stage = "looking" BY <2>3 DEF Quiet
    <3>2. AtRest(reviews[d].card) /\ reviews[d].card = n
      BY <2>1, <3>1 DEF Sound, ReviewSound, OneCardFromTheGraph
    <3> QED BY <3>2 DEF AtRest
  <2> QED BY <2>2, <2>3
<1>2. TypeOK /\ AloneInv /\ [SettingNext]_<<vars, crowd>> => TypeOK' /\ AloneInv'
  BY AloneStep
<1> QED BY <1>1, <1>2, AloneStarts, PTL DEF SettingSpec

\* In the same setting only questions send themselves: no text the graph paused
\* on for review goes out without a card.
THEOREM QuestionsOnly ==
    ASSUME NEW t, Turns = {t}
    PROVE  SettingSpec => []AloneQuestionsAreNotDrafts
<1>1. TypeOK /\ AloneInv => AloneQuestionsAreNotDrafts
  BY DEF AloneInv, AloneQuestionsAreNotDrafts, QuestionsAreNotDrafts, Sound, QueueSound
<1>2. TypeOK /\ AloneInv /\ [SettingNext]_<<vars, crowd>> => TypeOK' /\ AloneInv'
  BY AloneStep
<1> QED BY <1>1, <1>2, AloneStarts, PTL DEF SettingSpec
=============================================================================
