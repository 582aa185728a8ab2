------------------------- MODULE OrderDeliveryProofs -------------------------
(***************************************************************************)
(* The whole path is a behaviour of each of its parts: what Outbox does    *)
(* beside the workers is what it does alone, and every delivery the        *)
(* workers see is one a relay published.  What is proved of the parts      *)
(* therefore holds of the whole.                                           *)
(***************************************************************************)
EXTENDS OrderDelivery, TLAPS

\* The parts, with what is proved of them.
OP == INSTANCE OutboxProofs
        WITH Key <- Proposal, OrderingKey <- AccountOf, Session <- Request
WP == INSTANCE ExecutionWorkerProofs

\* Seen from the platform, a step of the path is a step of the outbox.
THEOREM PathImplementsOutbox == Spec => O!Spec
<1>1. Init => O!Init
  BY DEF Init
<1>2. [Next]_vars => [O!Next]_(O!vars)
  <2> SUFFICES ASSUME [Next]_vars
               PROVE  [O!Next]_(O!vars)
    OBVIOUS
  <2>1. ASSUME NEW r \in Relay, NEW p \in Proposal, Publish(r, p)
        PROVE  O!Next
    BY <2>1 DEF Publish, O!Next
  <2>2. CASE PlatformStep
    BY <2>2 DEF PlatformStep, O!Next
  <2>3. CASE WorkerStep \/ UNCHANGED vars
    BY <2>3 DEF WorkerStep, vars, platformVars, O!vars
  <2> QED
    BY <2>1, <2>2, <2>3 DEF Next
<1> QED
  BY <1>1, <1>2, PTL DEF Spec, O!Spec

\* Seen from the workers, it is a step of theirs; a publish is a delivery.
THEOREM PathImplementsWorkers == Spec => W!Spec
<1>1. Init => W!Init
  BY DEF Init
<1>2. [Next]_vars => [W!Next]_(W!vars)
  <2> SUFFICES ASSUME [Next]_vars
               PROVE  [W!Next]_(W!vars)
    OBVIOUS
  <2>1. ASSUME NEW r \in Relay, NEW p \in Proposal, Publish(r, p)
        PROVE  [W!Next]_(W!vars)
    BY <2>1 DEF Publish, W!Next, workerVars, W!vars
  <2>2. CASE WorkerStep
    BY <2>2 DEF WorkerStep, W!Next
  <2>3. CASE PlatformStep \/ UNCHANGED vars
    BY <2>3 DEF PlatformStep, vars, workerVars, W!vars
  <2> QED
    BY <2>1, <2>2, <2>3 DEF Next
<1> QED
  BY <1>1, <1>2, PTL DEF Spec, W!Spec
-----------------------------------------------------------------------------
(* What is proved of the parts, here *)

LEMMA PartsAssume == OP!OutboxAssumption /\ WP!WorkerAssumption
BY PathAssumption DEF OP!OutboxAssumption, O!OutboxAssumption, OP!IsFiniteSet, O!IsFiniteSet,
                      WP!WorkerAssumption, W!WorkerAssumption

\* The steps of the outbox are those its theorems are about.
LEMMA SameOutbox == [O!Next]_(O!vars) => [OP!Next]_(OP!vars)
<1>1. ASSUME NEW r \in Relay
      PROVE  /\ O!Claim(r) => OP!Claim(r)
             /\ O!CommitSweep(r) => OP!CommitSweep(r)
             /\ O!LoseSweep(r) => OP!LoseSweep(r)
             /\ O!Stop(r) => OP!Stop(r)
             /\ O!LeaveLoop(r) => OP!LeaveLoop(r)
             /\ O!Start(r) => OP!Start(r)
  BY DEF O!Claim, OP!Claim, O!CommitSweep, OP!CommitSweep, O!LoseSweep, OP!LoseSweep,
         O!Stop, OP!Stop, O!LeaveLoop, OP!LeaveLoop, O!Start, OP!Start, O!Idle, OP!Idle,
         O!Claimed, OP!Claimed, O!Claimable, OP!Claimable, O!Locked, OP!Locked,
         O!IsBatch, OP!IsBatch, O!Older, OP!Older, O!Cardinality, OP!Cardinality,
         O!Unpublished, OP!Unpublished, O!Outcome, OP!Outcome, O!NoMarks, OP!NoMarks,
         O!rowVars, OP!rowVars, O!requestVars, OP!requestVars, O!wireVars, OP!wireVars
<1>2. ASSUME NEW r \in Relay, NEW p \in Proposal
      PROVE  /\ O!Publish(r, p) => OP!Publish(r, p)
             /\ O!PublishRaises(r, p) => OP!PublishRaises(r, p)
  BY DEF O!Publish, OP!Publish, O!PublishRaises, OP!PublishRaises, O!IsNext, OP!IsNext,
         O!Unpublished, OP!Unpublished, O!Older, OP!Older
<1>3. ASSUME NEW p \in Proposal
      PROVE  /\ O!EnqueueDuplicate(p) => OP!EnqueueDuplicate(p)
             /\ O!Abandon(p) => OP!Abandon(p)
  BY DEF O!EnqueueDuplicate, OP!EnqueueDuplicate, O!Abandon, OP!Abandon, O!Exists,
         OP!Exists, O!Locked, OP!Locked, O!requestVars, OP!requestVars, O!wireVars,
         OP!wireVars
<1>4. ASSUME NEW s \in Request
      PROVE  /\ O!Commit(s) => OP!Commit(s)
             /\ O!Rollback(s) => OP!Rollback(s)
             /\ \A p \in Proposal : O!Enqueue(s, p) => OP!Enqueue(s, p)
  BY DEF O!Commit, OP!Commit, O!Rollback, OP!Rollback, O!Enqueue, OP!Enqueue, O!Exists,
         OP!Exists
<1> QED
  BY <1>1, <1>2, <1>3, <1>4 DEF O!Next, OP!Next, O!vars, OP!vars

\* The steps of the workers are those their theorems are about.
LEMMA SameWorkers == [W!Next]_(W!vars) => [WP!Next]_(WP!vars)
<1> SUFFICES ASSUME [W!Next]_(W!vars)
             PROVE  [WP!Next]_(WP!vars)
  OBVIOUS
<1>1. ASSUME NEW p \in Proposal
      PROVE  /\ W!Deliver(p) => WP!Deliver(p)
             /\ W!ExpireKey(p) => WP!ExpireKey(p)
  BY DEF W!Deliver, WP!Deliver, W!ExpireKey, WP!ExpireKey, W!processVars,
         WP!processVars, W!brokerVars, WP!brokerVars, W!ledgerVars, WP!ledgerVars,
         W!timeoutVars, WP!timeoutVars
<1>2. ASSUME NEW a \in Account, W!Consume(a)
      PROVE  WP!Consume(a)
  <2>1. ASSUME NEW w \in Worker
        PROVE  /\ W!Skip(w, a) => WP!Skip(w, a)
               /\ W!FirstSeen(w, a) => WP!FirstSeen(w, a)
    BY DEF W!Skip, WP!Skip, W!FirstSeen, WP!FirstSeen, W!Up, WP!Up, W!Acknowledge,
         WP!Acknowledge, W!processVars, WP!processVars, W!brokerVars, WP!brokerVars,
         W!ledgerVars, WP!ledgerVars, W!timeoutVars, WP!timeoutVars
  <2>2. W!PlaceOrder(a) => WP!PlaceOrder(a)
    BY DEF W!PlaceOrder, WP!PlaceOrder, W!Stage, WP!Stage, W!Used, WP!Used, W!Id, WP!Id,
         W!Session, WP!Session, W!Cardinality, WP!Cardinality, W!processVars,
         WP!processVars, W!ledgerVars, WP!ledgerVars, W!timeoutVars, WP!timeoutVars
  <2>3. /\ W!Register(a) => WP!Register(a)
        /\ W!Finish(a) => WP!Finish(a)
        /\ W!Throw(a) => WP!Throw(a)
    BY DEF W!Register, WP!Register, W!Finish, WP!Finish, W!Throw, WP!Throw, W!Stage,
         WP!Stage, W!HasRow, WP!HasRow, W!OrdersOf, WP!OrdersOf, W!Id, WP!Id, W!Session,
         WP!Session, W!Acknowledge, WP!Acknowledge, W!processVars, WP!processVars,
         W!brokerVars, WP!brokerVars, W!ledgerVars, WP!ledgerVars, W!timeoutVars,
         WP!timeoutVars
  <2> QED
    BY <1>2, <2>1, <2>2, <2>3 DEF W!Consume, WP!Consume
<1>3. ASSUME NEW id \in W!Id
      PROVE  /\ W!BrokerTells(id) => WP!BrokerTells(id)
             /\ W!BrokerCloses(id) => WP!BrokerCloses(id)
             /\ W!TimeOut(id) => WP!TimeOut(id)
             /\ W!LockLapses(id) => WP!LockLapses(id)
  <2>1. /\ W!BrokerTells(id) => WP!BrokerTells(id)
        /\ W!BrokerCloses(id) => WP!BrokerCloses(id)
    BY DEF W!BrokerTells, WP!BrokerTells, W!BrokerCloses, WP!BrokerCloses, W!Alive,
         WP!Alive, W!Heard, WP!Heard, W!Send, WP!Send, W!Faults, WP!Faults, W!Id, WP!Id,
         W!Session, WP!Session, W!Cardinality, WP!Cardinality, W!messageVars,
         WP!messageVars, W!ledgerVars, WP!ledgerVars, W!timeoutVars, WP!timeoutVars,
         W!processVars, WP!processVars
  <2>2. ASSUME NEW w \in Worker
        PROVE  /\ W!TimeoutReads(w, id) => WP!TimeoutReads(w, id)
               /\ W!TimeoutMisses(w, id) => WP!TimeoutMisses(w, id)
               /\ W!TimeoutCancels(w) => WP!TimeoutCancels(w)
    BY DEF W!TimeoutReads, WP!TimeoutReads, W!TimeoutMisses, WP!TimeoutMisses,
         W!TimeoutCancels, WP!TimeoutCancels, W!Up, WP!Up, W!LockHeld, WP!LockHeld,
         W!Checked, WP!Checked, W!Terminal, WP!Terminal, W!messageVars, WP!messageVars,
         W!brokerVars, WP!brokerVars, W!ledgerVars, WP!ledgerVars, W!processVars,
         WP!processVars
  <2>3. ASSUME NEW w \in Worker
        PROVE  /\ W!TryLockRaises(w, id) => WP!TryLockRaises(w, id)
               /\ W!TimeoutThrows(w) => WP!TimeoutThrows(w)
    BY DEF W!TryLockRaises, WP!TryLockRaises, W!TimeoutThrows, WP!TimeoutThrows,
         W!AgainOrDropped, WP!AgainOrDropped, W!Up, WP!Up, W!LockHeld, WP!LockHeld,
         W!Checked, WP!Checked, W!Faults, WP!Faults, W!Id, WP!Id, W!Session, WP!Session,
         W!Cardinality, WP!Cardinality, W!messageVars, WP!messageVars, W!brokerVars,
         WP!brokerVars, W!ledgerVars, WP!ledgerVars, W!processVars, WP!processVars
  <2>4. W!LockLapses(id) => WP!LockLapses(id)
    BY DEF W!LockLapses, WP!LockLapses, W!messageVars, WP!messageVars, W!brokerVars,
         WP!brokerVars, W!ledgerVars, WP!ledgerVars, W!processVars, WP!processVars
  <2> QED
    BY <2>1, <2>2, <2>3, <2>4 DEF W!TimeOut, WP!TimeOut
<1>4. ASSUME NEW s \in W!Session
      PROVE  /\ W!Callback(s) => WP!Callback(s)
             /\ W!CallbackFails(s) => WP!CallbackFails(s)
  <2>1. W!Callback(s) => WP!Callback(s)
    BY DEF W!Callback, WP!Callback, W!Alive, WP!Alive, W!RowKey, WP!RowKey, W!MapStatus,
         WP!MapStatus, W!Fold, WP!Fold, W!CanTransition, WP!CanTransition, W!TABLE,
         WP!TABLE, W!messageVars, WP!messageVars, W!timeoutVars, WP!timeoutVars,
         W!processVars, WP!processVars
  <2>2. W!CallbackFails(s) => WP!CallbackFails(s)
    BY DEF W!CallbackFails, WP!CallbackFails, W!Alive, WP!Alive, W!RowKey, WP!RowKey,
         W!Faults, WP!Faults, W!Id, WP!Id, W!Session, WP!Session, W!Cardinality,
         WP!Cardinality, W!messageVars, WP!messageVars, W!timeoutVars, WP!timeoutVars,
         W!processVars, WP!processVars
  <2> QED
    BY <2>1, <2>2
<1>5. ASSUME NEW w \in Worker
      PROVE  /\ W!Start(w) => WP!Start(w)
             /\ W!Crash(w) => WP!Crash(w)
             /\ W!Disconnect(w) => WP!Disconnect(w)
  <2>1. W!Start(w) => WP!Start(w)
    BY DEF W!Start, WP!Start, W!Up, WP!Up, W!messageVars, WP!messageVars, W!brokerVars,
         WP!brokerVars, W!ledgerVars, WP!ledgerVars, W!timeoutVars, WP!timeoutVars
  <2>2. W!Crash(w) => WP!Crash(w)
    BY DEF W!Crash, WP!Crash, W!Up, WP!Up, W!Id, WP!Id, W!Session, WP!Session,
         W!ledgerVars, WP!ledgerVars
  <2>3. W!Disconnect(w) => WP!Disconnect(w)
    BY DEF W!Disconnect, WP!Disconnect, W!Up, WP!Up, W!Faults, WP!Faults, W!Id, WP!Id,
         W!Session, WP!Session, W!Cardinality, WP!Cardinality, W!messageVars,
         WP!messageVars, W!ledgerVars, WP!ledgerVars, W!timeoutVars, WP!timeoutVars,
         W!processVars, WP!processVars
  <2> QED
    BY <2>1, <2>2, <2>3
<1>6. W!Id = WP!Id /\ W!Session = WP!Session /\ W!vars = WP!vars
  BY DEF W!Id, WP!Id, W!Session, WP!Session, W!vars, WP!vars
<1>7. CASE W!Next
  <2>1. CASE \E p \in Proposal : W!Deliver(p) \/ W!ExpireKey(p)
    BY <1>1, <2>1 DEF WP!Next
  <2>2. CASE \E a \in Account : W!Consume(a)
    BY <1>2, <2>2 DEF WP!Next
  <2>3. CASE \E id \in W!Id : W!BrokerTells(id) \/ W!BrokerCloses(id) \/ W!TimeOut(id)
                             \/ W!LockLapses(id)
    BY <1>3, <1>6, <2>3 DEF WP!Next
  <2>4. CASE \E s \in W!Session : W!Callback(s) \/ W!CallbackFails(s)
    BY <1>4, <1>6, <2>4 DEF WP!Next
  <2>5. CASE \E w \in Worker : W!Start(w) \/ W!Crash(w) \/ W!Disconnect(w)
    BY <1>5, <2>5 DEF WP!Next
  <2> QED
    BY <1>7, <2>1, <2>2, <2>3, <2>4, <2>5 DEF W!Next
<1>8. CASE UNCHANGED W!vars
  BY <1>6, <1>8 DEF W!vars, WP!vars
<1> QED
  BY <1>7, <1>8

\* The whole path is a behaviour of each of the parts the theorems are about.
LEMMA PartsHere == Spec => OP!Spec /\ WP!Spec
<1>1. Init => OP!Init
  BY DEF Init, O!Init, OP!Init, O!NoMarks, OP!NoMarks
<1>2. Init => WP!Init
  BY DEF Init, W!Init, WP!Init, W!Id, WP!Id, W!Session, WP!Session
<1> QED
  BY <1>1, <1>2, PathImplementsOutbox, PathImplementsWorkers, SameOutbox, SameWorkers, PTL
     DEF Spec, O!Spec, OP!Spec, W!Spec, WP!Spec

-----------------------------------------------------------------------------
(* The whole path *)

\* What the workers were given, a relay has published.
DeliveredWasPublished == \A p \in Proposal : copies[p] > 0 => published[p] > 0

LEMMA PublishedStep ==
    ASSUME OP!TypeOK, WP!WasDelivered, DeliveredWasPublished, [Next]_vars
    PROVE  DeliveredWasPublished'
<1>1. published \in [Proposal -> Nat] /\ copies \in [Proposal -> Nat]
  BY DEF OP!TypeOK, WP!WasDelivered
<1>2. ASSUME NEW r \in Relay, NEW p \in Proposal, Publish(r, p)
      PROVE  DeliveredWasPublished'
  <2>1. PICK reached \in {0, 1} : published' = [published EXCEPT ![p] = @ + reached]
    BY <1>2 DEF Publish, O!Publish, O!PublishRaises
  <2>2. \/ copies' = copies
        \/ published'[p] > published[p] /\ copies' = [copies EXCEPT ![p] = @ + 1]
    BY <1>2 DEF Publish, W!Deliver, workerVars
  <2> QED
    BY <1>1, <2>1, <2>2 DEF DeliveredWasPublished
<1>3. CASE PlatformStep
  <2>1. copies' = copies /\ published' = published
    BY <1>3 DEF PlatformStep, workerVars, O!Enqueue, O!Commit, O!Rollback, O!EnqueueDuplicate,
       O!Abandon, O!Claim, O!CommitSweep, O!LoseSweep, O!Stop, O!LeaveLoop, O!Start, O!wireVars
  <2> QED
    BY <2>1 DEF DeliveredWasPublished
<1>4. CASE WorkerStep
  <2>1. published' = published
    BY <1>4 DEF WorkerStep, platformVars
  <2>2. copies' = copies
    BY <1>4 DEF WorkerStep, W!ExpireKey, W!Consume, W!Skip, W!FirstSeen, W!PlaceOrder,
       W!Register, W!Finish, W!Throw, W!BrokerTells, W!BrokerCloses, W!TimeOut, W!TimeoutReads,
       W!TimeoutMisses, W!TimeoutCancels, W!TryLockRaises, W!TimeoutThrows, W!LockLapses,
       W!Callback, W!CallbackFails, W!Start, W!Crash, W!Disconnect, W!messageVars
  <2> QED
    BY <2>1, <2>2 DEF DeliveredWasPublished
<1>5. CASE UNCHANGED vars
  BY <1>5 DEF vars, platformVars, workerVars, DeliveredWasPublished
<1> QED
  BY <1>2, <1>3, <1>4, <1>5 DEF Next

\* From the request to the broker: an order at the broker is of a committed
\* request, and is the proposal's only one while its idempotency key lives,
\* however often relays publish, RocketMQ delivers, and workers die.
THEOREM PlacedOnce == Spec => []PlacedOnceForARequest
<1>1. Spec => []OP!TypeOK /\ []OP!PublishedWasCommitted
  BY PartsAssume, PartsHere, OP!TypeCorrect, OP!OnlyCommittedIsPublished, PTL
<1>2. Spec => []WP!OneOrderPerKey /\ []WP!WasDelivered
  BY PartsAssume, PartsHere, WP!OneOrderEach, WP!PlacedWasDelivered, PTL
<1>3. Spec => []DeliveredWasPublished
  <2>1. Init => DeliveredWasPublished
    BY DEF Init, W!Init, DeliveredWasPublished
  <2> QED
    BY <1>1, <1>2, <2>1, PublishedStep, PTL DEF Spec
<1>4. ASSUME OP!PublishedWasCommitted, WP!OneOrderPerKey, WP!WasDelivered, DeliveredWasPublished
      PROVE  PlacedOnceForARequest
  <2> SUFFICES ASSUME NEW p \in Proposal
               PROVE  /\ W!OrdersOf(p) # {} => status[p] # "absent"
                      /\ Cardinality(W!OrdersOf(p)) <= 1 + expired[p]
    BY DEF PlacedOnceForARequest
  <2>1. W!OrdersOf(p) = WP!OrdersOf(p)
    BY DEF W!OrdersOf, WP!OrdersOf, W!Id, WP!Id, W!Session, WP!Session
  <2>2. WP!Cardinality(WP!OrdersOf(p)) <= 1 + expired[p]
    BY <1>4 DEF WP!OneOrderPerKey
  <2>3. Cardinality(W!OrdersOf(p)) <= 1 + expired[p]
    BY <2>1, <2>2 DEF Cardinality, WP!Cardinality
  <2>4. ASSUME NEW id \in WP!OrdersOf(p)
        PROVE  status[p] # "absent"
    <3>1. id \in WP!Id /\ placed[id] = p
      BY DEF WP!OrdersOf
    <3>2. p # None
      BY PathAssumption DEF W!WorkerAssumption
    <3>3. copies[p] > 0
      BY <1>4, <3>1, <3>2 DEF WP!WasDelivered
    <3> QED
      BY <1>4, <3>3 DEF DeliveredWasPublished, OP!PublishedWasCommitted, OP!Exists
  <2> QED
    BY <2>1, <2>3, <2>4
<1> QED
  BY <1>1, <1>2, <1>3, <1>4, PTL
=============================================================================
