--------------------------- MODULE HandsetAlarms ---------------------------
(***************************************************************************)
(* The alarms one handset holds for its owner's reminders: the app asks    *)
(* for what changed since its cursor, compares it with what the system     *)
(* holds, cancels, schedules, and remembers what it armed and how far it   *)
(* has read.  The owner changes reminders elsewhere at any time, the app   *)
(* may be killed between any two awaits, and the permission to notify may  *)
(* be withheld and granted.                                                *)
(*                                                                         *)
(* updatedAt is compared with the cursor only: fresh is the set of tasks   *)
(* whose last write is later than the cursor the handset has stored.  A    *)
(* reminder the handset acknowledges is written by the request itself, so  *)
(* it comes back in every page.  The limit of a page (200 rows) is above   *)
(* the number of tasks.                                                    *)
(***************************************************************************)
EXTENDS Integers, FiniteSets

CONSTANTS
    Tasks,        \* reminders of one owner
    MaxTime,      \* bound on the clock
    MaxVersion,   \* bound on how often a reminder is moved
    MaxUpheavals  \* bound on interrupted syncs and changes of the permission

HandsetAssumption ==
    /\ MaxTime \in Nat /\ MaxVersion \in Nat \ {0}
    /\ MaxUpheavals \in Nat

VARIABLES
    clock,      \* the time
    task,       \* the reminders on the server
    fresh,      \* those written since the stored cursor
    phone,      \* what the running sync holds
    alarms,     \* due time of each notification the system has pending
    armed,      \* the version armed, as stored by the app; 0 is none
    granted,    \* the permission to notify
    missed,     \* history: changes read while the permission was withheld
    upheavals

vars == <<clock, task, fresh, phone, alarms, armed, granted, missed,
          upheavals>>

NoTime == -1
Instants == 1 .. MaxTime
Idle == [stage |-> "idle"]
Absent == [status |-> "none", due |-> NoTime, version |-> 0]

Init ==
    /\ clock = 0
    /\ task = [r \in Tasks |-> Absent]
    /\ fresh = {} /\ phone = Idle
    /\ alarms = [r \in Tasks |-> NoTime]
    /\ armed = [r \in Tasks |-> 0]
    /\ granted \in BOOLEAN
    /\ missed = {}
    /\ upheavals = 0

-----------------------------------------------------------------------------
(* The server's reminders. *)

\* Every write moves updatedAt: past the cursor stored, and past the one the
\* running sync will store if its page has been read.
Write(r, t) ==
    /\ task' = [task EXCEPT ![r] = t]
    /\ fresh' = fresh \cup {r}
    /\ phone' = IF phone = Idle THEN phone ELSE [phone EXCEPT !.later = @ \cup {r}]
    /\ UNCHANGED <<clock, alarms, armed, granted, missed, upheavals>>

\* A due time is in the future when it is set.
Create(r, due) ==
    /\ task[r].status = "none" /\ due > clock
    /\ Write(r, [status |-> "pending", due |-> due, version |-> 1])

\* rescheduleReminder: also revives a closed reminder.
Reschedule(r, due) ==
    /\ task[r].status # "none" /\ due > clock /\ task[r].version < MaxVersion
    /\ Write(r, [status |-> "pending", due |-> due, version |-> task[r].version + 1])

\* Completed or cancelled; the version stays.
Close(r) ==
    /\ task[r].status = "pending"
    /\ Write(r, [task[r] EXCEPT !.status = "closed"])

-----------------------------------------------------------------------------
(* The sync of the app, one step per await. *)

Acknowledged == {r \in Tasks : armed[r] # 0}

\* serializeForDevice
Serialized(r) ==
    [due |-> task[r].due, version |-> task[r].version,
     schedulable |-> task[r].status = "pending" /\ task[r].due > clock]

\* syncRemindersForDevice answers: everything after the cursor, whatever its status.
SyncFetches ==
    /\ phone = Idle
    /\ LET rows == {r \in fresh \cup Acknowledged : task[r].status # "none"}
       IN  phone' = [stage |-> "page", page |-> [r \in rows |-> Serialized(r)], later |-> {}]
    /\ UNCHANGED <<clock, task, fresh, alarms, armed, granted, missed, upheavals>>

Page == phone.page
Listed == DOMAIN Page

\* Without the permission nothing is armed, and the cursor moves on.
SkipsUnpermitted ==
    /\ phone.stage = "page" /\ ~granted
    /\ phone' = [phone EXCEPT !.stage = "cursor"]
    /\ missed' = missed \cup Listed
    /\ UNCHANGED <<clock, task, fresh, alarms, armed, granted, upheavals>>

Pending(r) == alarms[r] # NoTime
Usable(r) == Page[r].schedulable /\ Page[r].due > clock

\* Mutant: an alarm of an older version is left where it is.
StaleIfUnusable(r) == Pending(r) /\ ~Usable(r)

\* What must not ring as it is armed.
Stale(r) == Pending(r) /\ (~Usable(r) \/ armed[r] # Page[r].version)

\* Reads the pending notifications, compares and cancels.
CancelsStale ==
    /\ phone.stage = "page" /\ granted
    /\ LET wanted == {r \in Listed : Usable(r)}
           kept == {r \in wanted : Pending(r) /\ armed[r] = Page[r].version}
       IN  phone' = [stage |-> "schedule", page |-> Page, later |-> phone.later,
                     wanted |-> wanted, todo |-> wanted \ kept]
    /\ alarms' = [r \in Tasks |-> IF r \in Listed /\ Stale(r) THEN NoTime ELSE alarms[r]]
    /\ UNCHANGED <<clock, task, fresh, armed, granted, missed, upheavals>>

\* A notification scheduled for a moment that has passed rings at once.
Schedules ==
    /\ phone.stage = "schedule"
    /\ alarms' = [r \in Tasks |-> IF r \in phone.todo /\ Page[r].due > clock
                                  THEN Page[r].due ELSE alarms[r]]
    /\ phone' = [phone EXCEPT !.stage = "store"]
    /\ UNCHANGED <<clock, task, fresh, armed, granted, missed, upheavals>>

\* The armed map: this page's entries are replaced, the others kept.
StoresArmed ==
    /\ phone.stage = "store"
    /\ armed' = [r \in Tasks |-> IF r \notin Listed THEN armed[r]
                                 ELSE IF r \in phone.wanted THEN Page[r].version ELSE 0]
    /\ missed' = missed \ Listed
    /\ phone' = [stage |-> "cursor", page |-> Page, later |-> phone.later]
    /\ UNCHANGED <<clock, task, fresh, alarms, granted, upheavals>>

\* The cursor is the moment the page was read.
StoresCursor ==
    /\ phone.stage = "cursor"
    /\ fresh' = phone.later
    /\ phone' = Idle
    /\ UNCHANGED <<clock, task, alarms, armed, granted, missed, upheavals>>

Upheaval == upheavals < MaxUpheavals /\ upheavals' = upheavals + 1

\* Mutant: the cursor moves even when the sync does not get to its end.
SyncFailsCursorStored ==
    /\ phone # Idle /\ Upheaval
    /\ phone' = Idle
    /\ fresh' = phone.later
    /\ UNCHANGED <<clock, task, alarms, armed, granted, missed>>

\* An await fails, or the app is killed.
SyncFails ==
    /\ phone # Idle /\ Upheaval
    /\ phone' = Idle
    /\ UNCHANGED <<clock, task, fresh, alarms, armed, granted, missed>>

-----------------------------------------------------------------------------
\* Granting it in the app is followed by a sync; revoking it ends the app.
Grant ==
    /\ ~granted /\ Upheaval
    /\ granted' = TRUE
    /\ UNCHANGED <<clock, task, fresh, phone, alarms, armed, missed>>

Revoke ==
    /\ granted /\ Upheaval
    /\ granted' = FALSE
    /\ phone' = Idle
    /\ UNCHANGED <<clock, task, fresh, alarms, armed, missed>>

\* Time passes; what has fallen due rings and is no longer pending.
Tick ==
    /\ clock < MaxTime /\ clock' = clock + 1
    /\ alarms' = [r \in Tasks |-> IF alarms[r] <= clock + 1 THEN NoTime ELSE alarms[r]]
    /\ UNCHANGED <<task, fresh, phone, armed, granted, missed, upheavals>>

Sync == \/ SyncFetches \/ SkipsUnpermitted \/ CancelsStale \/ Schedules
        \/ StoresArmed \/ StoresCursor \/ SyncFails
Next ==
    \/ Tick \/ Grant \/ Revoke \/ Sync
    \/ \E r \in Tasks : Close(r)
    \/ \E r \in Tasks, due \in Instants : Create(r, due) \/ Reschedule(r, due)

Spec == Init /\ [][Next]_vars

-----------------------------------------------------------------------------
(* Properties. *)

Snapshots == [due : Instants, version : 1 .. MaxVersion, schedulable : BOOLEAN]
Pages == UNION {[rows -> Snapshots] : rows \in SUBSET Tasks}

\* Types of the state of the handset and of the reminders it knows.
TypeOK ==
    /\ clock \in 0 .. MaxTime
    /\ task \in [Tasks -> {Absent} \cup
                 [status : {"pending", "closed"}, due : Instants, version : 1 .. MaxVersion]]
    /\ fresh \subseteq Tasks /\ missed \subseteq Tasks
    /\ \/ phone = Idle
       \/ /\ phone.stage \in {"page", "schedule", "store", "cursor"}
          /\ phone.page \in Pages /\ phone.later \subseteq Tasks
          /\ phone.stage \in {"schedule", "store"} =>
                 phone.wanted \subseteq Listed /\ phone.todo \subseteq phone.wanted
    /\ alarms \in [Tasks -> Instants \cup {NoTime}]
    /\ armed \in [Tasks -> 0 .. MaxVersion]
    /\ granted \in BOOLEAN
    /\ upheavals \in 0 .. MaxUpheavals

\* The one alarm a reminder should have.
ProperAlarm(r) ==
    IF task[r].status = "pending" /\ task[r].due > clock THEN task[r].due ELSE NoTime

\* Between two syncs the system rings exactly for the reminders the server has,
\* at the time it has, wherever earlier syncs were cut off; only what changed
\* since the cursor, or was read without the permission, may differ.
InStep ==
    phone = Idle => \A r \in Tasks \ (fresh \cup missed) : alarms[r] = ProperAlarm(r)

\* A notification is never scheduled on top of a pending one: the alarm of a
\* moved reminder is cancelled before the new one is armed.
NeverStacked ==
    [][\A r \in Tasks : alarms[r] # NoTime /\ alarms'[r] # NoTime
                          => alarms'[r] = alarms[r]]_alarms
=============================================================================
