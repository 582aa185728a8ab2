--------------------- MODULE ExecutionWorkerProperties ---------------------
(* What the execution workers guarantee. *)
EXTENDS ExecutionWorker

\* However often a message is delivered, to whichever worker, and wherever a
\* worker dies, the broker gets one order for a proposal per life of its key.
OneOrderPerKey ==
    \A p \in Proposal : Cardinality(OrdersOf(p)) <= 1 + expired[p]

\* A row never tells an ending that is not its own order's: reports of a later
\* session, which reuses the broker's numbers, do not reach it, and a timeout, a lost
\* connection or a failed callback closes nothing.  The one false ending is REJECTED,
\* of an order the broker only holds for a locate.
RowTellsTheMarket ==
    \A id \in Id :
        /\ row[id] = "FILLED" => market[id] = "filled"
        /\ row[id] = "CANCELED" => market[id] = "cancelled"
        /\ row[id] = "REJECTED" => market[id] = "rejected" \/ id \in located

\* A row is behind the market only because a report is still on its way, came before
\* the row was written, was lost with a failed database call, or had no reader, no
\* connection or no process left to come to.
BehindForAReason ==
    \A id \in Id :
        (row[id] \notin Terminal \cup {"absent"} /\ market[id] # "open") =>
            \/ id \in early \cup missed
            \/ ~Heard(id[1])
            \/ \E n \in 1..Len(reports[id[1]]) : reports[id[1]][n][1] = id

\* An order's delayed messages, or a listener that has its lock, are still to act on it.
Pending(id) == timer[id] > 0 \/ Checked(id)

\* The cancel of a listener does not get to the order: its process is of another
\* session, or has no connection.
Astray(id) ==
    \E w \in Worker : check[w] = id /\ (session[w] # id[1] \/ link[session[w]] = "cut")

\* They come to an end only when the order is closed at the broker or has been sent a
\* cancel, however often they are delivered, whichever of two listeners misses the
\* lock, and whatever throws; except that the last of them goes astray, meets the lock
\* of a listener that is no more, is dropped, or finds a false REJECTED in the row.
EndsForAReason(id) ==
    Pending(id) /\ ~Pending(id)' =>
        \/ market[id] # "open"
        \/ <<id, id>> \in cancels'
        \/ Astray(id)
        \/ id \in orphaned
        \/ dropped'[id] > dropped[id]
        \/ row[id] = "REJECTED" /\ id \in located
TimersEndForAReason == [][\A id \in Id : EndsForAReason(id)]_vars
=============================================================================
