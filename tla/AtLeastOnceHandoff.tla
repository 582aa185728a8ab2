------------------------- MODULE AtLeastOnceHandoff -------------------------
(***************************************************************************)
(* What the platform promises about an order it has accepted, with no      *)
(* table, session, sweep or relay in sight: a recorded item is handed to   *)
(* the broker any number of times, it is closed as handed over only when   *)
(* it was, and every close is final.  Outbox implements it.                *)
(***************************************************************************)

CONSTANT Item

VARIABLES
    fate,       \* what the platform says of each item
    delivered   \* the items the broker has seen at least once

vars == <<fate, delivered>>

Fate == {"absent", "pending", "sent", "failed"}

Init ==
    /\ fate = [i \in Item |-> "absent"]
    /\ delivered = {}

\* A request commits the items it recorded, all of them or none.
Record(S) ==
    /\ \A i \in S : fate[i] = "absent"
    /\ fate' = [i \in Item |-> IF i \in S THEN "pending" ELSE fate[i]]
    /\ UNCHANGED delivered

\* Only an item that is recorded and still open may reach the broker.
Deliver(i) ==
    /\ fate[i] = "pending"
    /\ delivered' = delivered \cup {i}
    /\ UNCHANGED fate

\* Open items are closed together: as sent if delivered, or as given up.
Close(Sent, Failed) ==
    /\ \A i \in Sent \cup Failed : fate[i] = "pending"
    /\ Sent \subseteq delivered
    /\ Sent \cap Failed = {}
    /\ fate' = [i \in Item |-> IF i \in Sent THEN "sent"
                               ELSE IF i \in Failed THEN "failed"
                               ELSE fate[i]]
    /\ UNCHANGED delivered

Next ==
    \/ \E S \in SUBSET Item : Record(S)
    \/ \E i \in Item : Deliver(i)
    \/ \E Sent, Failed \in SUBSET Item : Close(Sent, Failed)

Spec == Init /\ [][Next]_vars
=============================================================================
