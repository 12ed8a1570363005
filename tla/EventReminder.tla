--------------------------- MODULE EventReminder ---------------------------
(***************************************************************************)
(* The reminder the owner gets on the eve of a booked event: a sweep that  *)
(* runs several times a day claims each booking in the window, sends, and  *)
(* hands the claim back when the send throws                               *)
(* (event-reminder.service.ts, event-reminder-runner.ts).                  *)
(*                                                                         *)
(* Time is counted in windows: an event is due for its reminder while it   *)
(* is 1 away.  The phone call that may follow the message keeps no state.  *)
(***************************************************************************)
EXTENDS Naturals

CONSTANTS
    Bookings,   \* conversations with an event
    Sweepers,   \* processes running the sweep
    Horizon,    \* how far ahead an event may be
    MaxBlows    \* bound on crashes and on sends and writes that throw

EventAssumption == Horizon \in Nat \ {0} /\ MaxBlows \in Nat

VARIABLES
    won,        \* bookings of stage won, in a chat that is not deleted
    ahead,      \* windows until the event; 0: under way or past
    reminded,   \* bookings whose eventReminderSentAt is set
    sweep,      \* per process: the bookings it found, and what it is doing with one
    told,       \* history: reminders that reached the owner
    echoes,     \* history: sends that threw after they had reached the owner
    lost,       \* history: bookings whose claim stayed behind a crash or a failed write
    blows

vars == <<won, ahead, reminded, sweep, told, echoes, lost, blows>>

Idle == [stage |-> "idle"]

Init ==
    /\ won = {} /\ reminded = {} /\ lost = {}
    /\ ahead \in [Bookings -> 0 .. Horizon]
    /\ sweep = [w \in Sweepers |-> Idle]
    /\ told = [b \in Bookings |-> 0] /\ echoes = [b \in Bookings |-> 0]
    /\ blows = 0

Blow == blows < MaxBlows /\ blows' = blows + 1

-----------------------------------------------------------------------------
(* The booking. *)

\* updateStage, deleting and restoring the chat
Wins(b) ==
    /\ won' \in {won \cup {b}, won \ {b}} /\ won' # won
    /\ UNCHANGED <<ahead, reminded, sweep, told, echoes, lost, blows>>

\* applyEventDateFromFacts: a new date leaves the claim as it is.
Moves(b, d) ==
    /\ d # ahead[b] /\ ahead' = [ahead EXCEPT ![b] = d]
    /\ UNCHANGED <<won, reminded, sweep, told, echoes, lost, blows>>

TimePasses ==
    /\ \E b \in Bookings : ahead[b] > 0
    /\ ahead' = [b \in Bookings |-> IF ahead[b] = 0 THEN 0 ELSE ahead[b] - 1]
    /\ UNCHANGED <<won, reminded, sweep, told, echoes, lost, blows>>

-----------------------------------------------------------------------------
(* The sweep. *)

Due == {b \in won \ reminded : ahead[b] = 1}

\* A process's interval does not overlap itself.
Looks(w) ==
    /\ sweep[w] = Idle /\ Due # {}
    /\ sweep' = [sweep EXCEPT ![w] = [stage |-> "claim", found |-> Due]]
    /\ UNCHANGED <<won, ahead, reminded, told, echoes, lost, blows>>

\* claimEventReminder's filter
IsFree(b) == b \notin reminded

\* On to the next booking found, or the end of the sweep.
GoesOn(w, found) ==
    sweep' = [sweep EXCEPT ![w] =
        IF found = {} THEN Idle ELSE [stage |-> "claim", found |-> found]]

Claims(w, b) ==
    /\ sweep[w].stage = "claim" /\ b \in sweep[w].found
    /\ LET rest == sweep[w].found \ {b} IN
       IF IsFree(b)
       THEN /\ reminded' = reminded \cup {b}
            /\ sweep' = [sweep EXCEPT ![w] = [stage |-> "notify", found |-> rest, at |-> b]]
       ELSE GoesOn(w, rest) /\ UNCHANGED reminded
    /\ UNCHANGED <<won, ahead, told, echoes, lost, blows>>

\* notifyOwner reaches the owner or throws; remembering the message's id comes
\* after the send and throws with the message out.  What follows a send that
\* went well may fail without consequence.
Notifies(w) ==
    /\ sweep[w].stage = "notify"
    /\ LET b == sweep[w].at
           Reached == told' = [told EXCEPT ![b] = @ + 1]
           Throws == sweep' = [sweep EXCEPT ![w].stage = "release"] /\ Blow
       IN  \/ Reached /\ GoesOn(w, sweep[w].found) /\ UNCHANGED <<echoes, blows>>
           \/ Throws /\ UNCHANGED <<told, echoes>>
           \/ Reached /\ Throws /\ echoes' = [echoes EXCEPT ![b] = @ + 1]
    /\ UNCHANGED <<won, ahead, reminded, lost>>

\* Mutant: the claim stands whatever became of the send.
KeptClaims(b) == reminded

\* releaseEventReminderClaim
WithoutClaim(b) == reminded \ {b}

Releases(w) ==
    /\ sweep[w].stage = "release"
    /\ LET b == sweep[w].at IN
       \/ reminded' = WithoutClaim(b) /\ UNCHANGED <<lost, blows>>
       \/ Blow /\ lost' = lost \cup {b} /\ UNCHANGED reminded
    /\ GoesOn(w, sweep[w].found)
    /\ UNCHANGED <<won, ahead, told, echoes>>

Crashes(w) ==
    /\ sweep[w] # Idle /\ Blow
    /\ lost' = IF sweep[w].stage = "claim" THEN lost ELSE lost \cup {sweep[w].at}
    /\ sweep' = [sweep EXCEPT ![w] = Idle]
    /\ UNCHANGED <<won, ahead, reminded, told, echoes>>

Next ==
    \/ \E b \in Bookings : Wins(b) \/ \E d \in 0 .. Horizon : Moves(b, d)
    \/ TimePasses
    \/ \E w \in Sweepers :
           \/ Looks(w) \/ Notifies(w) \/ Releases(w) \/ Crashes(w)
           \/ \E b \in Bookings : Claims(w, b)

Spec == Init /\ [][Next]_vars

-----------------------------------------------------------------------------
\* Types of the variables; a claim in hand is in the database.
TypeOK ==
    /\ won \subseteq Bookings /\ reminded \subseteq Bookings /\ lost \subseteq Bookings
    /\ ahead \in [Bookings -> 0 .. Horizon]
    /\ told \in [Bookings -> Nat] /\ echoes \in [Bookings -> 0 .. MaxBlows]
    /\ sweep \in [Sweepers ->
          {Idle} \cup [stage : {"claim"}, found : SUBSET Bookings]
                 \cup [stage : {"notify", "release"}, found : SUBSET Bookings, at : Bookings]]
    /\ blows \in 0 .. MaxBlows

InHand(b) == \E w \in Sweepers : sweep[w].stage \in {"notify", "release"} /\ sweep[w].at = b

\* "It fires once", and "it never silently loses one": a claim that stands with
\* nobody at work on it has told the owner, unless a crash or a failed write left
\* it behind; and the owner is told once more only for a send that threw after it
\* had gone out.
ToldOnceAndNotLost ==
    \A b \in Bookings :
        /\ b \in reminded \ lost /\ ~InHand(b) => told[b] > 0
        /\ told[b] <= 1 + echoes[b]
=============================================================================
