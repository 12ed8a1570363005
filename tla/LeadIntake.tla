----------------------------- MODULE LeadIntake -----------------------------
(***************************************************************************)
(* What happens to a lead once a source has produced it: importLead, run   *)
(* by the poll and by the webhook at once, for the submissions of one      *)
(* person; and the sweep that opens the conversation when the pause after  *)
(* the form has passed.  A process may die between any two steps, a write, *)
(* the owner's notification or the greeting may fail.                      *)
(*                                                                         *)
(* A number that cannot be used, or may not be while the allowlist is on,  *)
(* ends importLead before all this.  The pause is a step of the scheduler. *)
(***************************************************************************)
EXTENDS Naturals, FiniteSets

CONSTANTS
    Submissions,   \* forms one person has sent
    Doors,         \* ways in: a poll, a webhook delivery
    Openers,       \* auto-greet sweeps
    MaxBlows       \* bound on crashes and failed calls

IntakeAssumption == MaxBlows \in Nat

VARIABLES
    rows,      \* submission ledger
    thread,    \* the person's conversation
    may,       \* the source says the person may be messaged first
    door,      \* importLead in progress
    opener,    \* what each sweep is at
    pinged,      \* history: new-lead alerts the owner got
    opened,    \* history: greeting turns run
    undone,    \* history: greetings handed back after a failure
    blows

vars == <<rows, thread, may, door, opener, pinged, opened, undone, blows>>

Outside == [at |-> "idle"]
Init ==
    /\ rows = {}
    /\ thread = [alerted |-> FALSE, due |-> FALSE, greeted |-> FALSE, open |-> TRUE]
    /\ may = TRUE
    /\ door = [d \in Doors |-> Outside]
    /\ opener = [o \in Openers |-> "idle"]
    /\ pinged = 0 /\ opened = 0 /\ undone = 0 /\ blows = 0

DoorGoes(d, stage) == door' = [door EXCEPT ![d].at = stage]
DoorCloses(d) == door' = [door EXCEPT ![d] = Outside]
Blow == blows < MaxBlows /\ blows' = blows + 1

\* importLead up to the ledger: contact and conversation, found or created
Enters(d, l) ==
    /\ door[d] = Outside
    /\ door' = [door EXCEPT ![d] = [at |-> "ledger", lead |-> l]]
    /\ UNCHANGED <<rows, thread, may, opener, pinged, opened, undone, blows>>

\* createLeadSubmission: the unique index is the duplicate check
IsDuplicate(d) ==
    /\ door[d].at = "ledger" /\ door[d].lead \in rows
    /\ DoorCloses(d)
    /\ UNCHANGED <<rows, thread, may, opener, pinged, opened, undone, blows>>

Records(d) ==
    /\ door[d].at = "ledger" /\ door[d].lead \notin rows
    /\ rows' = rows \cup {door[d].lead}
    /\ DoorGoes(d, "alert")
    /\ UNCHANGED <<thread, may, opener, pinged, opened, undone, blows>>

\* Mutant: the alert goes by the row, not by the conversation's own mark.
EveryImport == TRUE

NotYetAlerted == ~thread.alerted

\* sendNewLeadAlert: claimNewLeadAlert
TakesAlert(d) ==
    /\ door[d].at = "alert"
    /\ DoorGoes(d, IF NotYetAlerted THEN "notify" ELSE "book")
    /\ thread' = [thread EXCEPT !.alerted = TRUE]
    /\ UNCHANGED <<rows, may, opener, pinged, opened, undone, blows>>

NotifiesOwner(d) ==
    /\ door[d].at = "notify"
    /\ pinged' = pinged + 1
    /\ DoorGoes(d, "book")
    /\ UNCHANGED <<rows, thread, may, opener, opened, undone, blows>>

\* The claim of the alert is kept.
CannotNotify(d) ==
    /\ door[d].at = "notify" /\ Blow
    /\ DoorGoes(d, "book")
    /\ UNCHANGED <<rows, thread, may, opener, pinged, opened, undone>>

Booked == IF thread.greeted THEN thread ELSE [thread EXCEPT !.due = TRUE]

\* scheduleAutoGreet, by the source as the import has read it
Books(d) ==
    /\ door[d].at = "book"
    /\ thread' = IF may THEN Booked ELSE thread
    /\ DoorCloses(d)
    /\ UNCHANGED <<rows, may, opener, pinged, opened, undone, blows>>

\* The process dies, or a write throws on the way.
Breaks(d) ==
    /\ door[d] # Outside /\ Blow
    /\ DoorCloses(d)
    /\ UNCHANGED <<rows, thread, may, opener, pinged, opened, undone>>

-----------------------------------------------------------------------------
OpenerGoes(o, stage) == opener' = [opener EXCEPT ![o] = stage]

\* findConversationsDueForAutoGreet
Finds(o) ==
    /\ opener[o] = "idle"
    /\ thread.due /\ ~thread.greeted /\ thread.open
    /\ OpenerGoes(o, "claim")
    /\ UNCHANGED <<rows, thread, may, door, pinged, opened, undone, blows>>

NotYetGreeted == ~thread.greeted

\* claimAutoGreet
Claims(o) ==
    /\ opener[o] = "claim"
    /\ OpenerGoes(o, IF NotYetGreeted THEN "open" ELSE "idle")
    /\ thread' = [thread EXCEPT !.greeted = TRUE]
    /\ UNCHANGED <<rows, may, door, pinged, opened, undone, blows>>

\* No consent any more: the claim is kept all the same.
HoldsBack(o) ==
    /\ opener[o] = "open" /\ ~may
    /\ OpenerGoes(o, "idle")
    /\ UNCHANGED <<rows, thread, may, door, pinged, opened, undone, blows>>

\* greetImportedLead runs the turn.
Opens(o) ==
    /\ opener[o] = "open" /\ may
    /\ opened' = opened + 1
    /\ OpenerGoes(o, "idle")
    /\ UNCHANGED <<rows, thread, may, door, pinged, undone, blows>>

\* The consent or the turn cannot be had, and the claim goes back; the turn may
\* have sent its message by then.
Fails(o) ==
    /\ opener[o] = "open" /\ Blow
    /\ opened' \in {opened, opened + 1}
    /\ undone' = undone + 1
    /\ thread' = [thread EXCEPT !.greeted = FALSE]
    /\ OpenerGoes(o, "idle")
    /\ UNCHANGED <<rows, may, door, pinged>>

Dies(o) ==
    /\ opener[o] # "idle" /\ Blow
    /\ OpenerGoes(o, "idle")
    /\ UNCHANGED <<rows, thread, may, door, pinged, opened, undone>>

-----------------------------------------------------------------------------
\* The owner turns the source's greeting off or on; the lead opts out, is
\* rejected or is taken over.
OwnerDecides ==
    /\ may' = ~may
    /\ UNCHANGED <<rows, thread, door, opener, pinged, opened, undone, blows>>

Closes ==
    /\ thread.open
    /\ thread' = [thread EXCEPT !.open = FALSE]
    /\ UNCHANGED <<rows, may, door, opener, pinged, opened, undone, blows>>

Greeting(o) == Finds(o) \/ Claims(o) \/ HoldsBack(o) \/ Opens(o)
Importing(d) ==
    IsDuplicate(d) \/ Records(d) \/ TakesAlert(d) \/ NotifiesOwner(d) \/ Books(d)
Next == \/ OwnerDecides \/ Closes
        \/ \E d \in Doors : \/ Importing(d) \/ CannotNotify(d) \/ Breaks(d)
                            \/ \E l \in Submissions : Enters(d, l)
        \/ \E o \in Openers : Greeting(o) \/ Fails(o) \/ Dies(o)

Spec == Init /\ [][Next]_vars

\* The sweep runs every minute.
FairSpec == Spec /\ \A o \in Openers : WF_vars(Greeting(o))

-----------------------------------------------------------------------------
(* Properties. *)

\* Types of the conversation's marks and of the work in progress.
TypeOK ==
    /\ rows \subseteq Submissions
    /\ thread \in [alerted : BOOLEAN, due : BOOLEAN, greeted : BOOLEAN, open : BOOLEAN]
    /\ may \in BOOLEAN
    /\ \A d \in Doors :
           \/ door[d] = Outside
           \/ door[d] \in [at : {"ledger", "alert", "notify", "book"}, lead : Submissions]
    /\ opener \in [Openers -> {"idle", "claim", "open"}]
    /\ pinged \in Nat /\ opened \in Nat /\ undone \in 0 .. MaxBlows /\ blows \in 0 .. MaxBlows

\* However often and by whichever door the same person comes in, the owner is
\* alerted once, and the person is greeted once for every greeting that was not
\* handed back, even if a later form books it while a sweep is at work.
OneOpening == pinged <= 1 /\ opened <= 1 + undone

\* A greeting that was booked, to be taken up unless the lead is closed first.
GreetingDue == thread.due /\ ~thread.greeted /\ thread.open
=============================================================================
