---------------------------- MODULE OrderDelivery ----------------------------
(***************************************************************************)
(* From a request to the broker: the outbox and its relays (Outbox) joined *)
(* to the execution workers (ExecutionWorker) by the one thing they share, *)
(* the message.  A publish that reaches RocketMQ is a delivery into the    *)
(* account's queue; everything else either side does leaves the other      *)
(* alone.                                                                  *)
(***************************************************************************)
EXTENDS Integers, Sequences, FiniteSets

CONSTANTS
    Proposal, Account, AccountOf, None,
    Request, Relay, BatchSize, MaxAttempts, MaxClock, MaxLost,
    Timed, Worker, MaxCopies, MaxSession, MaxOrder, MaxReports, MaxExpiry, MaxFaults

VARIABLES
    status, attempts, createdAt, clock, inserted, accepted, sweep, relay,
    published, refused, abandoned, lost,
    queue, copies, seen, expired, task, session, sessions, placed, market, link,
    reports, row, timer, check, orphaned, cancels, located, early, missed, dropped

O == INSTANCE Outbox WITH Key <- Proposal, OrderingKey <- AccountOf, Session <- Request
W == INSTANCE ExecutionWorker

ASSUME PathAssumption == O!OutboxAssumption /\ W!WorkerAssumption

platformVars == <<status, attempts, createdAt, clock, inserted, accepted, sweep,
                  relay, published, refused, abandoned, lost>>
workerVars == <<queue, copies, seen, expired, task, session, sessions, placed,
                market, link, reports, row, timer, check, orphaned, cancels,
                located, early, missed, dropped>>
vars == <<platformVars, workerVars>>

-----------------------------------------------------------------------------
Init == O!Init /\ W!Init

\* RocketMQPublisher.publish: the message is in the account's queue when the
\* broker has taken it, whether or not the call then returns.
Publish(r, p) ==
    /\ O!Publish(r, p) \/ O!PublishRaises(r, p)
    /\ IF published'[p] > published[p] THEN W!Deliver(p) ELSE UNCHANGED workerVars

\* Requests, relays between publishes, and the operator.
PlatformStep ==
    /\ \/ \E s \in Request : \/ \E p \in Proposal : O!Enqueue(s, p)
                             \/ O!Commit(s) \/ O!Rollback(s)
       \/ \E p \in Proposal : O!EnqueueDuplicate(p) \/ O!Abandon(p)
       \/ \E r \in Relay : \/ O!Claim(r) \/ O!CommitSweep(r) \/ O!LoseSweep(r)
                           \/ O!Stop(r) \/ O!LeaveLoop(r) \/ O!Start(r)
    /\ UNCHANGED workerVars

\* Consumers, reader threads, timeouts, processes and the broker.
WorkerStep ==
    /\ \/ \E p \in Proposal : W!ExpireKey(p)
       \/ \E a \in Account : W!Consume(a)
       \/ \E id \in W!Id : W!BrokerTells(id) \/ W!BrokerCloses(id) \/ W!TimeOut(id)
                          \/ W!LockLapses(id)
       \/ \E s \in W!Session : W!Callback(s) \/ W!CallbackFails(s)
       \/ \E w \in Worker : W!Start(w) \/ W!Crash(w) \/ W!Disconnect(w)
    /\ UNCHANGED platformVars

Next ==
    \/ \E r \in Relay, p \in Proposal : Publish(r, p)
    \/ PlatformStep
    \/ WorkerStep

Spec == Init /\ [][Next]_vars

\* What Outbox assumes of the relays; consumers keep running, and a worker that died
\* is started again.  Nothing is assumed of the broker.
FairSpec ==
    /\ Spec
    /\ \A r \in Relay :
         /\ SF_vars(O!Claim(r) /\ UNCHANGED workerVars)
         /\ WF_vars(\E p \in Proposal : Publish(r, p))
         /\ WF_vars(O!CommitSweep(r) /\ UNCHANGED workerVars)
         /\ WF_vars(O!LeaveLoop(r) /\ UNCHANGED workerVars)
         /\ WF_vars(O!Start(r) /\ UNCHANGED workerVars)
    /\ \A a \in Account : WF_vars(W!Consume(a) /\ UNCHANGED platformVars)
    /\ \A w \in Worker : WF_vars(W!Start(w) /\ UNCHANGED platformVars)

-----------------------------------------------------------------------------
(* Properties *)

\* The broker holds an order only for a proposal whose request was committed, and
\* one at most while idempotency keys live: the outbox may send a message as often
\* as its relays fail, the workers place it once.
PlacedOnceForARequest ==
    \A p \in Proposal :
        /\ W!OrdersOf(p) # {} => status[p] # "absent"
        /\ Cardinality(W!OrdersOf(p)) <= 1 + expired[p]

\* A proposal the platform accepted reaches a worker, unless the relay gives up on
\* it or an operator abandons it.
AcceptedReachesAWorker ==
    \A p \in Proposal : (p \in accepted) ~> (p \in seen \/ status[p] = "failed")

\* Every copy of a message is consumed in the end, whatever fails on the way: one that
\* fails again and again does not block its account's queue.
QueuesDrain == \A a \in Account : (queue[a] # <<>>) ~> (queue[a] = <<>>)
=============================================================================
