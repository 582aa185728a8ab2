-------------------------- MODULE ExecutionWorker --------------------------
(***************************************************************************)
(* The execution workers (java/execution-worker): they consume order       *)
(* messages, place each at the broker once, keep its row in                *)
(* execution.orders, and cancel it when its time is up.                    *)
(*                                                                         *)
(* RocketMQ delivers at least once, orderly per account: the head of an    *)
(* account's queue stays there until onMessage returns.  The idempotency   *)
(* key lives in Redis, rows in Postgres, and the broker's reports come     *)
(* back on one reader thread per process, in the order they were sent.     *)
(* A process start is a session: its orders are named session-number, and  *)
(* the broker numbers the orders of every session from the start.          *)
(*                                                                         *)
(* An order's rows are written by its own session's reader thread alone,   *)
(* so a report is folded in as one step here; module OrderTracker has the  *)
(* step's own interleavings.                                               *)
(***************************************************************************)
EXTENDS OrderStateMachine, Integers, Sequences, FiniteSets

CONSTANTS
    Proposal,    \* (tenantId, proposalId) pairs
    Account,     \* accounts, one ordered queue each
    AccountOf,   \* the ordering key of each proposal
    Timed,       \* proposals with timeoutMillis > 0
    Worker,      \* worker processes
    None,        \* no session, no task
    MaxCopies,   \* bound: deliveries of one proposal by the relay
    MaxSession,  \* bound: process starts
    MaxOrder,    \* bound: orders one session places
    MaxReports,  \* bound: reports on their way in one session
    MaxExpiry,   \* bound: idempotency keys that outlive their 24 hours
    MaxFaults    \* bound: locates, connections lost, calls of a database or Redis
                 \* that fail a callback or a timeout

ASSUME WorkerAssumption ==
    /\ AccountOf \in [Proposal -> Account]
    /\ Timed \subseteq Proposal
    /\ MaxCopies \in Nat /\ MaxSession \in Nat /\ MaxOrder \in Nat
    /\ MaxReports \in Nat /\ MaxExpiry \in Nat /\ MaxFaults \in Nat
    /\ None \notin Proposal \cup Worker \cup Nat \cup (Nat \X Nat)

VARIABLES
    queue,     \* per account, the messages not yet acknowledged
    copies,    \* how many deliveries of each proposal there were
    seen,      \* the idempotency keys in Redis
    expired,   \* how often each key has expired
    task,      \* per account, where onMessage stands with the head message
    session,   \* per worker, its present session, None while it is down
    sessions,  \* sessions started so far
    placed,    \* per order id, the proposal the broker holds it for, or None
    market,    \* per order id, what has become of it: "none" if not placed
    link,      \* per session, its connection: "up", "deaf" (no reader), "cut"
    reports,   \* per session, the reports on their way to the reader thread
    row,       \* execution.orders: status per order id, "absent" without one
    timer,     \* delayed messages per order id
    check,     \* per worker, the order its timeout listener holds the lock of
    orphaned,  \* orders whose lock has a lease and no holder any more
    cancels,   \* <<timed-out order, order the broker was asked to cancel>>
    located,   \* orders told inactive while held for a locate
    early,     \* orders one of whose reports found no row
    missed,    \* orders one of whose reports the database failed
    dropped    \* per order id, delayed messages gone without being acted on

vars == <<queue, copies, seen, expired, task, session, sessions, placed, market,
          link, reports, row, timer, check, orphaned, cancels, located,
          early, missed, dropped>>

messageVars == <<queue, copies, seen, expired, task>>
brokerVars == <<placed, market, link, reports, located>>
ledgerVars == <<row, early, missed>>
timeoutVars == <<timer, check, orphaned, cancels, dropped>>
processVars == <<session, sessions>>

Session == 1..MaxSession
Id == Session \X (1..MaxOrder)

\* An order that was placed over a connection already gone is "unsent".
Market == {"none", "unsent", "open", "filled", "cancelled", "rejected"}
Link == {"up", "deaf", "cut"}

-----------------------------------------------------------------------------
(* State predicates *)

Up(w) == session[w] # None
Alive(s) == \E w \in Worker : session[w] = s

\* The session has a process, a connection and a reader thread.
Heard(s) == Alive(s) /\ link[s] = "up"

OrdersOf(p) == {id \in Id : placed[id] = p}
Used(s) == Cardinality({id \in Id : id[1] = s /\ placed[id] # None})

\* ux_orders_tenant_proposal: another row of the same tenant and proposal.
HasRow(p) == \E id \in OrdersOf(p) : row[id] # "absent"

\* A listener stands between its tryLock and its unlock.
Checked(id) == \E w \in Worker : check[w] = id

\* RLock "lock:order-timeout:<id>" is held, or its lease is not over.
LockHeld(id) == Checked(id) \/ id \in orphaned

\* (mutant) the key a callback uses has no session prefix: the oldest row of
\* that broker number answers to it.
RowKeyUnprefixed(id) ==
    LET same == {i \in Id : i[2] = id[2] /\ row[i] # "absent"} IN
    IF same = {} THEN id ELSE CHOOSE i \in same : \A j \in same : i[1] <= j[1]

\* IbkrBrokerAdapter: sessionId + "-" + orderId, in placeOrder and callback alike.
RowKey(id) == id

\* What went wrong so far, for the bound.
Faults ==
    Cardinality(located) + Cardinality(missed) + Cardinality(orphaned)
    + Cardinality({s \in Session : link[s] # "up"})
    + Cardinality({id \in Id : dropped[id] > 0})

\* The broker reports on an order to the session that placed it, if it listens.
Send(id, ib) ==
    IF Heard(id[1])
    THEN /\ Len(reports[id[1]]) < MaxReports
         /\ reports' = [reports EXCEPT ![id[1]] = Append(@, <<id, ib>>)]
    ELSE reports' = reports

-----------------------------------------------------------------------------
Init ==
    /\ queue = [a \in Account |-> <<>>]
    /\ copies = [p \in Proposal |-> 0]
    /\ seen = {}
    /\ expired = [p \in Proposal |-> 0]
    /\ task = [a \in Account |-> None]
    /\ session = [w \in Worker |-> None]
    /\ sessions = 0
    /\ placed = [id \in Id |-> None]
    /\ market = [id \in Id |-> "none"]
    /\ link = [s \in Session |-> "up"]
    /\ reports = [s \in Session |-> <<>>]
    /\ row = [id \in Id |-> "absent"]
    /\ timer = [id \in Id |-> 0]
    /\ check = [w \in Worker |-> None]
    /\ orphaned = {}
    /\ cancels = {}
    /\ located = {}
    /\ early = {}
    /\ missed = {}
    /\ dropped = [id \in Id |-> 0]

-----------------------------------------------------------------------------
(* OrderConsumer.onMessage *)

\* The relay's publish puts one more copy at the end of the account's queue.
Deliver(p) ==
    /\ copies[p] < MaxCopies
    /\ copies' = [copies EXCEPT ![p] = @ + 1]
    /\ queue' = [queue EXCEPT ![AccountOf[p]] = Append(@, p)]
    /\ UNCHANGED <<seen, expired, task, processVars, brokerVars,
                   ledgerVars, timeoutVars>>

\* onMessage returned: the message is acknowledged.
Acknowledge(a) ==
    /\ queue' = [queue EXCEPT ![a] = Tail(@)]
    /\ task' = [task EXCEPT ![a] = None]

\* (mutant) a duplicate raises instead of returning, and is delivered again.
SkipThrows(w, a) ==
    /\ Up(w) /\ task[a] = None /\ queue[a] # <<>>
    /\ Head(queue[a]) \in seen
    /\ UNCHANGED <<queue, task, copies, seen, expired, processVars, brokerVars,
                   ledgerVars, timeoutVars>>

\* firstSeen is false: the message is skipped.
Skip(w, a) ==
    /\ Up(w) /\ task[a] = None /\ queue[a] # <<>>
    /\ Head(queue[a]) \in seen
    /\ Acknowledge(a)
    /\ UNCHANGED <<copies, seen, expired, processVars, brokerVars, ledgerVars,
                   timeoutVars>>

\* (mutant) the key is looked up, and only set by a later call.
FirstSeenLooks(w, a) ==
    /\ Up(w) /\ task[a] = None /\ queue[a] # <<>>
    /\ Head(queue[a]) \notin seen
    /\ task' = [task EXCEPT ![a] = [worker |-> w, stage |-> "guarded", order |-> None]]
    /\ UNCHANGED <<queue, copies, seen, expired, processVars, brokerVars,
                   ledgerVars, timeoutVars>>

\* firstSeen sets the key and is true.
FirstSeen(w, a) ==
    /\ Up(w) /\ task[a] = None /\ queue[a] # <<>>
    /\ Head(queue[a]) \notin seen
    /\ seen' = seen \cup {Head(queue[a])}
    /\ task' = [task EXCEPT ![a] = [worker |-> w, stage |-> "guarded", order |-> None]]
    /\ UNCHANGED <<queue, copies, expired, processVars, brokerVars,
                   ledgerVars, timeoutVars>>

Stage(a, stage) == task[a] # None /\ task[a].stage = stage

\* broker.placeOrder: the broker has the order from here on.  Nothing looks at the
\* connection first; without one the order has a number and goes nowhere, or the
\* call raises (Throw).
PlaceOrder(a) ==
    /\ Stage(a, "guarded")
    /\ LET s == session[task[a].worker]
           id == <<s, Used(s) + 1>> IN
       /\ id \in Id
       /\ placed' = [placed EXCEPT ![id] = Head(queue[a])]
       /\ market' = [market EXCEPT ![id] = IF link[s] = "cut" THEN "unsent" ELSE "open"]
       /\ task' = [task EXCEPT ![a].stage = "placed", ![a].order = id]
    /\ UNCHANGED <<link, reports, located, queue, copies, seen, expired,
                   processVars, ledgerVars, timeoutVars>>

\* tracker.register: the row is inserted as SUBMITTED.
Register(a) ==
    /\ Stage(a, "placed")
    /\ ~HasRow(Head(queue[a]))
    /\ row' = [row EXCEPT ![task[a].order] = "SUBMITTED"]
    /\ task' = [task EXCEPT ![a].stage = "registered"]
    /\ UNCHANGED <<queue, copies, seen, expired, early, missed, processVars,
                   brokerVars, timeoutVars>>

\* The delayed message is sent, possibly more than once, if the order has a
\* timeout, and onMessage returns.
Finish(a) ==
    /\ Stage(a, "registered")
    /\ IF Head(queue[a]) \in Timed
       THEN \E n \in {1, 2} : timer' = [timer EXCEPT ![task[a].order] = n]
       ELSE UNCHANGED timer
    /\ Acknowledge(a)
    /\ UNCHANGED <<copies, seen, expired, check, orphaned, cancels, dropped,
                   processVars, brokerVars, ledgerVars>>

\* onMessage throws: the reply to SETNX is lost, placeOrder raises, the insert
\* is refused by an index or by the database, the delayed send fails.  The
\* message stays at the head of its queue.
Throw(a) ==
    /\ task[a] # None
    /\ task' = [task EXCEPT ![a] = None]
    /\ UNCHANGED <<queue, copies, seen, expired, processVars, brokerVars,
                   ledgerVars, timeoutVars>>

\* The key's 24 hours are over.
ExpireKey(p) ==
    /\ p \in seen
    /\ expired[p] < MaxExpiry
    /\ expired' = [expired EXCEPT ![p] = @ + 1]
    /\ seen' = seen \ {p}
    /\ UNCHANGED <<queue, copies, task, processVars, brokerVars,
                   ledgerVars, timeoutVars>>

-----------------------------------------------------------------------------
(* The broker, and the reports it sends (external) *)

\* It says the order works, that a cancel is under way, or that the order is
\* inactive, held while shares to sell short are located; it may repeat itself.
BrokerTells(id) ==
    /\ market[id] = "open"
    /\ Heard(id[1])
    /\ \E ib \in {"Submitted", "PendingCancel", "Inactive"} :
         /\ ib = "PendingCancel" => \E c \in cancels : c[2] = id
         /\ ib = "Inactive" => id \in located \/ Faults < MaxFaults
         /\ Send(id, ib)
         /\ located' = IF ib = "Inactive" THEN located \cup {id} ELSE located
    /\ UNCHANGED <<placed, market, link, messageVars, ledgerVars, timeoutVars,
                   processVars>>

\* It fills, refuses or cancels the order, of its own accord or as asked.
BrokerCloses(id) ==
    /\ market[id] = "open"
    /\ \E outcome \in {<<"filled", "Filled">>, <<"rejected", "Inactive">>,
                       <<"cancelled", "Cancelled">>} :
         /\ market' = [market EXCEPT ![id] = outcome[1]]
         /\ Send(id, outcome[2])
    /\ UNCHANGED <<placed, link, located, messageVars, ledgerVars, timeoutVars,
                   processVars>>

\* (mutant) no way back from a cancel that was asked for.
FoldNoReturn(current, target) ==
    IF CanTransition(current, target) /\ current # "PENDING_CANCEL" THEN target ELSE current

\* OrderTracker's verdict on a report, with nobody else writing the row.
Fold(current, target) ==
    IF CanTransition(current, target) THEN target ELSE current

\* The session's reader thread runs the callback, OrderTracker.onStatus.  The adapter
\* hands on no reason why an order is held, so whyHeld is "".
Callback(s) ==
    /\ Alive(s)
    /\ reports[s] # <<>>
    /\ LET id == RowKey(Head(reports[s])[1])
           target == MapStatus(Head(reports[s])[2], "") IN
       IF row[id] = "absent"
       THEN early' = early \cup {id} /\ row' = row
       ELSE row' = [row EXCEPT ![id] = Fold(@, target)] /\ early' = early
    /\ reports' = [reports EXCEPT ![s] = Tail(@)]
    /\ UNCHANGED <<missed, placed, market, link, located, messageVars, timeoutVars,
                   processVars>>

\* findStatus or casUpdateStatus throws, out of the callback: that report is lost.
\* The reader thread is the library's, and goes on to the next or ends with it.
CallbackFails(s) ==
    /\ Alive(s)
    /\ reports[s] # <<>>
    /\ Faults < MaxFaults
    /\ missed' = missed \cup {RowKey(Head(reports[s])[1])}
    /\ \/ reports' = [reports EXCEPT ![s] = Tail(@)] /\ link' = link
       \/ /\ reports' = [reports EXCEPT ![s] = <<>>]
          /\ link' = [link EXCEPT ![s] = IF @ = "up" THEN "deaf" ELSE @]
    /\ UNCHANGED <<row, early, placed, market, located, messageVars, timeoutVars,
                   processVars>>

\* The connection is lost while the process lives, with it all but the first reports
\* on their way.  disconnected() notes it; nothing connects again.
Disconnect(w) ==
    /\ Up(w)
    /\ link[session[w]] # "cut"
    /\ Faults < MaxFaults
    /\ link' = [link EXCEPT ![session[w]] = "cut"]
    /\ \E n \in 0..Len(reports[session[w]]) :
         reports' = [reports EXCEPT ![session[w]] = SubSeq(@, 1, n)]
    /\ UNCHANGED <<placed, market, located, messageVars, ledgerVars, timeoutVars,
                   processVars>>

-----------------------------------------------------------------------------
(* OrderTimeoutListener.onMessage *)

\* (mutant) only an order the broker has accepted is cancelled.
TimeoutReadsAccepted(w, id) ==
    /\ Up(w) /\ timer[id] > 0 /\ check[w] = None /\ ~LockHeld(id)
    /\ timer' = [timer EXCEPT ![id] = @ - 1]
    /\ check' = IF row[id] # "ACCEPTED" THEN check ELSE [check EXCEPT ![w] = id]
    /\ UNCHANGED <<orphaned, cancels, dropped, messageVars, brokerVars, ledgerVars,
                   processVars>>

\* The lock is free: the row is read; a terminal row ends the handling, any
\* other, or none at all, goes on to the cancel.
TimeoutReads(w, id) ==
    /\ Up(w) /\ timer[id] > 0 /\ check[w] = None /\ ~LockHeld(id)
    /\ timer' = [timer EXCEPT ![id] = @ - 1]
    /\ check' = IF row[id] \in Terminal THEN check ELSE [check EXCEPT ![w] = id]
    /\ UNCHANGED <<orphaned, cancels, dropped, messageVars, brokerVars, ledgerVars,
                   processVars>>

\* tryLock(0) is false, for another listener or for a lease left behind: the message
\* is acknowledged.
TimeoutMisses(w, id) ==
    /\ Up(w) /\ timer[id] > 0 /\ check[w] = None /\ LockHeld(id)
    /\ timer' = [timer EXCEPT ![id] = @ - 1]
    /\ UNCHANGED <<check, orphaned, cancels, dropped, messageVars, brokerVars, ledgerVars,
                   processVars>>

\* The message is delivered again, or was for the last time.
AgainOrDropped(id, again) ==
    \/ timer' = again /\ dropped' = dropped
    \/ /\ Faults < MaxFaults
       /\ timer' = [again EXCEPT ![id] = @ - 1]
       /\ dropped' = [dropped EXCEPT ![id] = @ + 1]

\* tryLock raises.  An interrupt is caught, and the message acknowledged; anything
\* else has it delivered again, as often as RocketMQ will.  Redis may have given out
\* the lock all the same.
TryLockRaises(w, id) ==
    /\ Up(w) /\ timer[id] > 0 /\ check[w] = None
    /\ AgainOrDropped(id, timer)
    /\ \/ UNCHANGED orphaned
       \/ ~LockHeld(id) /\ Faults < MaxFaults /\ orphaned' = orphaned \cup {id}
    /\ UNCHANGED <<check, cancels, messageVars, brokerVars, ledgerVars, processVars>>

\* cancelOrder sends the number after the last dash over this process's own
\* connection, if it has one; the broker acts on an order of that session, if
\* there is one.
TimeoutCancels(w) ==
    /\ check[w] # None
    /\ LET target == <<session[w], check[w][2]>> IN
       cancels' = IF placed[target] # None /\ link[session[w]] # "cut"
                  THEN cancels \cup {<<check[w], target>>}
                  ELSE cancels
    /\ check' = [check EXCEPT ![w] = None]
    /\ UNCHANGED <<timer, orphaned, dropped, messageVars, brokerVars, ledgerVars,
                   processVars>>

\* currentStatus or cancelOrder throws: the lock is given back.
TimeoutThrows(w) ==
    /\ check[w] # None
    /\ AgainOrDropped(check[w], [timer EXCEPT ![check[w]] = @ + 1])
    /\ check' = [check EXCEPT ![w] = None]
    /\ UNCHANGED <<orphaned, cancels, messageVars, brokerVars, ledgerVars, processVars>>

\* Nobody renews the lease of a lock left behind (lockWatchdogTimeout).
LockLapses(id) ==
    /\ id \in orphaned
    /\ orphaned' = orphaned \ {id}
    /\ UNCHANGED <<timer, check, cancels, dropped, messageVars, brokerVars, ledgerVars,
                   processVars>>

-----------------------------------------------------------------------------
(* Processes *)

Start(w) ==
    /\ ~Up(w)
    /\ sessions < MaxSession
    /\ sessions' = sessions + 1
    /\ session' = [session EXCEPT ![w] = sessions + 1]
    /\ UNCHANGED <<messageVars, brokerVars, ledgerVars, timeoutVars>>

\* The process dies: what it consumed and did not acknowledge is delivered again,
\* the lock it holds stays until the lease is over, and the reports sent to its
\* session have no reader.
Crash(w) ==
    /\ Up(w)
    /\ sessions < MaxSession
    /\ session' = [session EXCEPT ![w] = None]
    /\ task' = [a \in Account |->
                  IF task[a] # None /\ task[a].worker = w THEN None ELSE task[a]]
    /\ reports' = [reports EXCEPT ![session[w]] = <<>>]
    /\ timer' = [id \in Id |-> IF check[w] = id THEN timer[id] + 1 ELSE timer[id]]
    /\ check' = [check EXCEPT ![w] = None]
    /\ orphaned' = orphaned \cup ({check[w]} \ {None})
    /\ UNCHANGED <<sessions, queue, copies, seen, expired, placed, market, link,
                   located, ledgerVars, cancels, dropped>>

-----------------------------------------------------------------------------
Consume(a) ==
    \/ \E w \in Worker : Skip(w, a) \/ FirstSeen(w, a)
    \/ PlaceOrder(a) \/ Register(a) \/ Finish(a) \/ Throw(a)

TimeOut(id) ==
    \E w \in Worker : \/ TimeoutReads(w, id)
                      \/ TimeoutMisses(w, id)
                      \/ TryLockRaises(w, id)
                      \/ check[w] = id /\ (TimeoutCancels(w) \/ TimeoutThrows(w))

Next ==
    \/ \E p \in Proposal : Deliver(p) \/ ExpireKey(p)
    \/ \E a \in Account : Consume(a)
    \/ \E id \in Id : BrokerTells(id) \/ BrokerCloses(id) \/ TimeOut(id) \/ LockLapses(id)
    \/ \E s \in Session : Callback(s) \/ CallbackFails(s)
    \/ \E w \in Worker : Start(w) \/ Crash(w) \/ Disconnect(w)

Spec == Init /\ [][Next]_vars
=============================================================================
