--------------------------- MODULE DeliveryContract ---------------------------
(***************************************************************************)
(* What the outbound queue promises the rest of the system about a row it  *)
(* has accepted, whatever happens between the queue and WhatsApp: it is    *)
(* handed to the socket at most Limit times, it is closed as sent only if  *)
(* it reached the lead, a closed row is never touched again, and every     *)
(* accepted row is closed.                                                 *)
(***************************************************************************)
EXTENDS Naturals

CONSTANTS Msgs, Limit

VARIABLES
    outcome,    \* what became of each row
    calls,      \* times it was handed to the socket
    reached     \* rows that reached the lead at least once

contractVars == <<outcome, calls, reached>>

Outcomes == {"absent", "pending", "sent", "dropped"}

ContractInit ==
    /\ outcome = [m \in Msgs |-> "absent"]
    /\ calls = [m \in Msgs |-> 0]
    /\ reached = {}

Accept(m) ==
    /\ outcome[m] = "absent"
    /\ outcome' = [outcome EXCEPT ![m] = "pending"]
    /\ UNCHANGED <<calls, reached>>

Try(m) ==
    /\ outcome[m] = "pending" /\ calls[m] < Limit
    /\ calls' = [calls EXCEPT ![m] = @ + 1]
    /\ reached' \in {reached, reached \cup {m}}
    /\ UNCHANGED outcome

\* One step of a sender may close several rows: a chat is deleted with all
\* that waits in it.
Close ==
    /\ outcome' \in [Msgs -> Outcomes]
    /\ \A m \in Msgs :
         \/ outcome'[m] = outcome[m]
         \/ outcome[m] = "pending" /\ outcome'[m] = "dropped"
         \/ outcome[m] = "pending" /\ outcome'[m] = "sent" /\ m \in reached
    /\ UNCHANGED <<calls, reached>>

ContractNext == Close \/ \E m \in Msgs : Accept(m) \/ Try(m)

Settled(m) == outcome[m] \in {"sent", "dropped"}

ContractSafety == ContractInit /\ [][ContractNext]_contractVars

\* Every accepted row is closed in the end.
ContractLiveness == \A m \in Msgs : (outcome[m] = "pending") ~> Settled(m)
=============================================================================
