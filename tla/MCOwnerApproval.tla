--------------------------- MODULE MCOwnerApproval ---------------------------
(***************************************************************************)
(* Instances of OwnerApproval for TLC.  One run explores two settings: one *)
(* person deciding at a time with calls and writes that fail, and a crowd  *)
(* of reviewers and readers without faults.                                *)
(***************************************************************************)
EXTENDS OwnerApproval, TLC

CONSTANT CrowdTexts   \* bound on texts where there is a crowd

VARIABLE crowd        \* which of the two settings a behaviour is in

\* Reviewers are interchangeable.
ReviewerSymmetry == Permutations(Reviewers)

\* Nobody decides while another does, and no card comes from outside the graph.
Alone ==
    /\ \A d, e \in Reviewers : reviews[d].stage # "idle" /\ reviews[e].stage # "idle" => d = e
    /\ \A r \in Readers : readers[r] = "idle"

SettingInit == Init /\ crowd \in BOOLEAN
SettingNext ==
    /\ UNCHANGED crowd
    /\ Next
    /\ IF crowd THEN faults' = 0 /\ texts' <= CrowdTexts ELSE Alone'
SettingSpec == SettingInit /\ [][SettingNext]_<<vars, crowd>>

\* What OneSendPerCard and the actions can tell apart in a crowd: no action reads
\* the history, and the property only asks which cards got a verdict that sends.
WithoutTexts ==
    <<thread, orphans, cards, queue, automation, reviews, turns, readers, texts,
      faults, {x.card : x \in {y \in decided : y.verdict # "skip"}}>>
SettingView == IF crowd THEN <<crowd, WithoutTexts>> ELSE <<crowd, vars>>

\* One person at a time: what goes out for a card is what was approved on it.
AloneSentAsReviewed == crowd \/ SentAsReviewed

\* One person at a time: the services agree on the draft when nothing is under way.
AloneOpenCardIsTheGraphs == crowd \/ OpenCardIsTheGraphs

\* One person at a time: no draft goes out as a question.
AloneQuestionsAreNotDrafts == crowd \/ QuestionsAreNotDrafts
=============================================================================
