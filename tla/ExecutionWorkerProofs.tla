------------------------ MODULE ExecutionWorkerProofs ------------------------
(***************************************************************************)
(* For any number of proposals, accounts, workers, deliveries and crashes, *)
(* the broker gets at most one order for a proposal per life of its        *)
(* idempotency key.                                                        *)
(*                                                                         *)
(* The invariant counts permissions.  A key in Redis, and every key that   *)
(* has expired, stands for one permission to place; an order at the broker *)
(* has used one, and a call of onMessage that got a first "true" and has   *)
(* not yet placed holds one.  There is one such call per proposal at most, *)
(* because an account's queue is consumed one message at a time and a      *)
(* proposal's messages are all in its own account's queue.                 *)
(***************************************************************************)
EXTENDS ExecutionWorkerProperties, FiniteSetTheorems, SequenceTheorems, TLAPS

\* The part of the type invariant the argument needs.
KeyTypes ==
    /\ queue \in [Account -> Seq(Proposal)]
    /\ seen \subseteq Proposal
    /\ expired \in [Proposal -> Nat]
    /\ task \in [Account -> [worker : Worker, stage : {"guarded", "placed", "registered"},
                             order : Id \cup {None}] \cup {None}]
    /\ placed \in [Id -> Proposal \cup {None}]

\* A message is in the queue of its own account.
OwnQueue ==
    \A a \in Account : \A i \in 1..Len(queue[a]) : AccountOf[queue[a][i]] = a

\* onMessage is called for a message, the head of its queue.
TaskHasMessage == \A a \in Account : task[a] # None => queue[a] # <<>>

\* onMessage may still place an order for p.
MayPlace(p) ==
    /\ Stage(AccountOf[p], "guarded")
    /\ Head(queue[AccountOf[p]]) = p

Used1(p) == IF MayPlace(p) THEN 1 ELSE 0
Key1(p) == IF p \in seen THEN 1 ELSE 0

Permitted ==
    \A p \in Proposal : Cardinality(OrdersOf(p)) + Used1(p) <= Key1(p) + expired[p]

KeyInv == KeyTypes /\ OwnQueue /\ TaskHasMessage /\ Permitted

-----------------------------------------------------------------------------
LEMMA IdFinite == IsFiniteSet(Id)
<1>1. IsFiniteSet(1..MaxSession) /\ IsFiniteSet(1..MaxOrder)
  BY FS_Interval, WorkerAssumption
<1> QED
  BY <1>1, FS_Product DEF Id, Session

LEMMA OrdersFinite ==
    ASSUME NEW p
    PROVE  IsFiniteSet(OrdersOf(p)) /\ Cardinality(OrdersOf(p)) \in Nat
<1>1. OrdersOf(p) \subseteq Id
  BY DEF OrdersOf
<1> QED
  BY <1>1, IdFinite, FS_Subset, FS_CardinalityType

\* The head and the tail of a queue that is not empty.
LEMMA QueueParts ==
    ASSUME KeyTypes, OwnQueue, NEW a \in Account, queue[a] # <<>>
    PROVE  /\ Head(queue[a]) \in Proposal
           /\ AccountOf[Head(queue[a])] = a
           /\ Tail(queue[a]) \in Seq(Proposal)
           /\ \A i \in 1..Len(Tail(queue[a])) : AccountOf[Tail(queue[a])[i]] = a
<1>1. queue[a] \in Seq(Proposal)
  BY DEF KeyTypes
<1>2. Len(queue[a]) \in Nat /\ Len(queue[a]) > 0
  BY <1>1
<1>3. Head(queue[a]) = queue[a][1] /\ 1 \in 1..Len(queue[a])
  BY <1>1, <1>2
<1>4. /\ Tail(queue[a]) \in Seq(Proposal)
      /\ Len(Tail(queue[a])) = Len(queue[a]) - 1
      /\ \A i \in 1..Len(Tail(queue[a])) : Tail(queue[a])[i] = queue[a][i + 1]
  BY <1>1, <1>2
<1>5. \A i \in 1..Len(Tail(queue[a])) : i + 1 \in 1..Len(queue[a])
  BY <1>2, <1>4
<1> QED
  BY <1>1, <1>2, <1>3, <1>4, <1>5 DEF OwnQueue

-----------------------------------------------------------------------------
(* Steps that neither place nor hand out a permission *)

\* A step that leaves the keys and the orders alone, and after which no account's
\* call is newly at the point of placing, keeps the count.
LEMMA PermittedKept ==
    ASSUME KeyInv, UNCHANGED <<seen, expired, placed>>,
           \A p \in Proposal : MayPlace(p)' => MayPlace(p)
    PROVE  Permitted'
<1> SUFFICES ASSUME NEW p \in Proposal
             PROVE  Cardinality(OrdersOf(p)') + Used1(p)' <= Key1(p)' + expired'[p]
  BY DEF Permitted
<1>1. OrdersOf(p)' = OrdersOf(p) /\ Key1(p)' = Key1(p) /\ expired'[p] = expired[p]
  BY DEF OrdersOf, Key1
<1>2. Used1(p)' <= Used1(p) /\ Used1(p) \in Nat /\ Used1(p)' \in Nat
  BY DEF Used1
<1>3. Cardinality(OrdersOf(p)) + Used1(p) <= Key1(p) + expired[p]
  BY DEF KeyInv, Permitted
<1>4. Key1(p) \in Nat /\ expired[p] \in Nat
  BY DEF Key1, KeyInv, KeyTypes
<1>5. Cardinality(OrdersOf(p)) \in Nat
  BY OrdersFinite
<1> QED
  BY <1>1, <1>2, <1>3, <1>4, <1>5

\* A step that touches none of it.
LEMMA KeptAlone ==
    ASSUME KeyInv, UNCHANGED <<queue, seen, expired, task, placed>>
    PROVE  KeyInv'
<1>1. KeyTypes' /\ OwnQueue' /\ TaskHasMessage'
  BY DEF KeyInv, KeyTypes, OwnQueue, TaskHasMessage
<1>2. \A p \in Proposal : MayPlace(p)' => MayPlace(p)
  BY DEF MayPlace, Stage
<1> QED
  BY <1>1, <1>2, PermittedKept DEF KeyInv

LEMMA DeliverStep ==
    ASSUME KeyInv, NEW p \in Proposal, Deliver(p)
    PROVE  KeyInv'
<1> DEFINE a == AccountOf[p]
<1>1. a \in Account
  BY WorkerAssumption
<1>2. queue' = [queue EXCEPT ![a] = Append(queue[a], p)] /\ queue[a] \in Seq(Proposal)
  BY <1>1 DEF Deliver, KeyInv, KeyTypes
<1>3. /\ Append(queue[a], p) \in Seq(Proposal)
      /\ Len(Append(queue[a], p)) = Len(queue[a]) + 1
      /\ Len(queue[a]) \in Nat
      /\ \A i \in 1..Len(queue[a]) : Append(queue[a], p)[i] = queue[a][i]
      /\ Append(queue[a], p)[Len(queue[a]) + 1] = p
  BY <1>2
<1>4. KeyTypes'
  BY <1>1, <1>2, <1>3 DEF Deliver, KeyInv, KeyTypes, brokerVars
<1>5. OwnQueue'
  <2> SUFFICES ASSUME NEW b \in Account, NEW i \in 1..Len(queue'[b])
               PROVE  AccountOf[queue'[b][i]] = b
    BY DEF OwnQueue
  <2>1. CASE b # a
    <3>1. queue'[b] = queue[b]
      BY <1>1, <1>2, <2>1 DEF KeyInv, KeyTypes
    <3> QED
      BY <3>1 DEF KeyInv, OwnQueue
  <2>2. CASE b = a
    <3>1. queue'[b] = Append(queue[a], p)
      BY <1>1, <1>2, <2>2 DEF KeyInv, KeyTypes
    <3>2. i \in 1..Len(queue[a]) \/ i = Len(queue[a]) + 1
      BY <1>3, <3>1
    <3> QED
      BY <1>1, <1>3, <2>2, <3>1, <3>2 DEF KeyInv, OwnQueue
  <2> QED
    BY <2>1, <2>2
<1>6. \A b \in Account : queue[b] # <<>> => queue'[b] # <<>> /\ Head(queue'[b]) = Head(queue[b])
  <2> SUFFICES ASSUME NEW b \in Account, queue[b] # <<>>
               PROVE  queue'[b] # <<>> /\ Head(queue'[b]) = Head(queue[b])
    OBVIOUS
  <2>1. CASE b # a
    BY <1>1, <1>2, <2>1 DEF KeyInv, KeyTypes
  <2>2. CASE b = a
    <3>1. queue'[b] = Append(queue[a], p)
      BY <1>1, <1>2, <2>2 DEF KeyInv, KeyTypes
    <3>2. Len(queue[a]) > 0
      BY <1>2, <2>2
    <3>3. Append(queue[a], p)[1] = queue[a][1]
      BY <1>3, <3>2
    <3> QED
      BY <1>2, <1>3, <2>2, <3>1, <3>2, <3>3
  <2> QED
    BY <2>1, <2>2
<1>7. TaskHasMessage'
  BY <1>6 DEF Deliver, KeyInv, TaskHasMessage
<1>8. ASSUME NEW q \in Proposal, MayPlace(q)'
      PROVE  MayPlace(q)
  <2>1. AccountOf[q] \in Account
    BY WorkerAssumption
  <2>2. Stage(AccountOf[q], "guarded")
    BY <1>8 DEF Deliver, MayPlace, Stage
  <2>3. queue[AccountOf[q]] # <<>>
    BY <2>1, <2>2 DEF Stage, KeyInv, TaskHasMessage
  <2> QED
    BY <1>6, <1>8, <2>1, <2>2, <2>3 DEF MayPlace
<1>9. Permitted'
  BY <1>8, PermittedKept DEF Deliver, brokerVars
<1> QED
  BY <1>4, <1>5, <1>7, <1>9 DEF KeyInv

\* An acknowledgement takes the head away and ends the call.
LEMMA AcknowledgeStep ==
    ASSUME KeyInv, NEW a \in Account, queue[a] # <<>>, Acknowledge(a),
           UNCHANGED <<seen, expired, placed>>
    PROVE  KeyInv'
<1>1. queue' = [queue EXCEPT ![a] = Tail(queue[a])] /\ task' = [task EXCEPT ![a] = None]
  BY DEF Acknowledge
<1>2. KeyTypes'
  BY <1>1, QueueParts DEF KeyInv, KeyTypes
<1>3. OwnQueue'
  <2> SUFFICES ASSUME NEW b \in Account, NEW i \in 1..Len(queue'[b])
               PROVE  AccountOf[queue'[b][i]] = b
    BY DEF OwnQueue
  <2>1. CASE b # a
    <3>1. queue'[b] = queue[b]
      BY <1>1, <2>1 DEF KeyInv, KeyTypes
    <3> QED
      BY <3>1 DEF KeyInv, OwnQueue
  <2>2. CASE b = a
    <3>1. queue'[b] = Tail(queue[a])
      BY <1>1, <2>2 DEF KeyInv, KeyTypes
    <3> QED
      BY <2>2, <3>1, QueueParts DEF KeyInv
  <2> QED
    BY <2>1, <2>2
<1>4. TaskHasMessage'
  BY <1>1 DEF KeyInv, KeyTypes, TaskHasMessage
<1>5. ASSUME NEW q \in Proposal, MayPlace(q)'
      PROVE  MayPlace(q)
  <2>1. AccountOf[q] \in Account
    BY WorkerAssumption
  <2>2. AccountOf[q] # a
    BY <1>1, <1>5, <2>1 DEF MayPlace, Stage, KeyInv, KeyTypes
  <2> QED
    BY <1>1, <1>5, <2>1, <2>2 DEF MayPlace, Stage, KeyInv, KeyTypes
<1>6. Permitted'
  BY <1>5, PermittedKept
<1> QED
  BY <1>2, <1>3, <1>4, <1>6 DEF KeyInv

\* Ending or forgetting calls, or taking them past the placing.
LEMMA TaskStep ==
    ASSUME KeyInv, UNCHANGED <<queue, seen, expired, placed>>,
           KeyTypes',
           \A a \in Account : task'[a] # None =>
              task[a] # None /\ (task'[a].stage = "guarded" => task[a].stage = "guarded")
    PROVE  KeyInv'
<1>1. OwnQueue' /\ TaskHasMessage'
  BY DEF KeyInv, OwnQueue, TaskHasMessage
<1>2. ASSUME NEW q \in Proposal, MayPlace(q)'
      PROVE  MayPlace(q)
  <2>1. AccountOf[q] \in Account
    BY WorkerAssumption
  <2> QED
    BY <1>2, <2>1 DEF MayPlace, Stage
<1>3. Permitted'
  BY <1>2, PermittedKept
<1> QED
  BY <1>1, <1>3 DEF KeyInv

-----------------------------------------------------------------------------
(* The steps that hand out a permission, use it, or let a key go *)

LEMMA FirstSeenStep ==
    ASSUME KeyInv, NEW w \in Worker, NEW a \in Account, FirstSeen(w, a)
    PROVE  KeyInv'
<1> DEFINE p == Head(queue[a])
<1>1. /\ queue[a] # <<>> /\ task[a] = None /\ p \notin seen
      /\ seen' = seen \cup {p}
      /\ task' = [task EXCEPT ![a] = [worker |-> w, stage |-> "guarded", order |-> None]]
      /\ UNCHANGED <<queue, expired, placed>>
  BY DEF FirstSeen, brokerVars
<1>2. p \in Proposal /\ AccountOf[p] = a
  BY <1>1, QueueParts DEF KeyInv
<1>3. KeyTypes'
  BY <1>1, <1>2 DEF KeyInv, KeyTypes
<1>4. OwnQueue' /\ TaskHasMessage'
  BY <1>1 DEF KeyInv, KeyTypes, OwnQueue, TaskHasMessage
<1>5. ASSUME NEW q \in Proposal
      PROVE  Cardinality(OrdersOf(q)') + Used1(q)' <= Key1(q)' + expired'[q]
  <2>1. OrdersOf(q)' = OrdersOf(q) /\ expired'[q] = expired[q]
    BY <1>1 DEF OrdersOf
  <2>2. Cardinality(OrdersOf(q)) + Used1(q) <= Key1(q) + expired[q]
    BY DEF KeyInv, Permitted
  <2>3. /\ Cardinality(OrdersOf(q)) \in Nat /\ expired[q] \in Nat
        /\ Used1(q) \in Nat /\ Used1(q)' \in Nat /\ Key1(q) \in Nat /\ Key1(q)' \in Nat
    BY OrdersFinite DEF KeyInv, KeyTypes, Used1, Key1
  <2>4. CASE q = p
    <3>1. Key1(q) = 0 /\ Key1(q)' = 1 /\ Used1(q)' <= 1
      BY <1>1, <2>4 DEF Key1, Used1
    <3> QED
      BY <2>1, <2>2, <2>3, <3>1
  <2>5. CASE q # p
    <3>1. MayPlace(q)' => MayPlace(q)
      <4>1. AccountOf[q] \in Account
        BY WorkerAssumption
      <4>2. CASE AccountOf[q] = a
        BY <1>1, <2>5, <4>2 DEF MayPlace
      <4>3. CASE AccountOf[q] # a
        BY <1>1, <4>1, <4>3 DEF MayPlace, Stage, KeyInv, KeyTypes
      <4> QED
        BY <4>2, <4>3
    <3>2. Used1(q)' <= Used1(q)
      BY <3>1 DEF Used1
    <3>3. Key1(q)' = Key1(q)
      BY <1>1, <2>5 DEF Key1
    <3> QED
      BY <2>1, <2>2, <2>3, <3>2, <3>3
  <2> QED
    BY <2>4, <2>5
<1> QED
  BY <1>3, <1>4, <1>5 DEF KeyInv, Permitted

\* Placing uses the permission; whichever order the number named before, no
\* proposal but this one gets an order more.
LEMMA PlaceOrderStep ==
    ASSUME KeyInv, NEW a \in Account, PlaceOrder(a)
    PROVE  KeyInv'
<1> DEFINE p == Head(queue[a])
           id == <<session[task[a].worker], Used(session[task[a].worker]) + 1>>
<1>1. /\ Stage(a, "guarded") /\ id \in Id
      /\ placed' = [placed EXCEPT ![id] = p]
      /\ task' = [task EXCEPT ![a] = [task[a] EXCEPT !.stage = "placed", !.order = id]]
      /\ UNCHANGED <<queue, seen, expired>>
  BY DEF PlaceOrder, KeyInv, KeyTypes
<1>2. queue[a] # <<>> /\ p \in Proposal /\ AccountOf[p] = a
  BY <1>1, QueueParts DEF KeyInv, TaskHasMessage, Stage
<1>3. task[a] \in [worker : Worker, stage : {"guarded", "placed", "registered"},
                   order : Id \cup {None}]
  BY <1>1 DEF KeyInv, KeyTypes, Stage
<1>4. KeyTypes'
  <2>1. [task[a] EXCEPT !.stage = "placed", !.order = id]
            \in [worker : Worker, stage : {"guarded", "placed", "registered"},
                 order : Id \cup {None}]
    BY <1>1, <1>3
  <2>2. placed' \in [Id -> Proposal \cup {None}]
    BY <1>1, <1>2 DEF KeyInv, KeyTypes
  <2>3. task' \in [Account -> [worker : Worker, stage : {"guarded", "placed", "registered"},
                               order : Id \cup {None}] \cup {None}]
    BY <1>1, <2>1 DEF KeyInv, KeyTypes
  <2> QED
    BY <1>1, <2>2, <2>3 DEF KeyInv, KeyTypes
<1>5. OwnQueue' /\ TaskHasMessage'
  BY <1>1, <1>2 DEF KeyInv, KeyTypes, OwnQueue, TaskHasMessage
<1>6. task'[a].stage = "placed"
  BY <1>1, <1>3 DEF KeyInv, KeyTypes
<1>7. ASSUME NEW q \in Proposal
      PROVE  Cardinality(OrdersOf(q)') + Used1(q)' <= Key1(q)' + expired'[q]
  <2>1. Key1(q)' = Key1(q) /\ expired'[q] = expired[q]
    BY <1>1 DEF Key1
  <2>2. Cardinality(OrdersOf(q)) + Used1(q) <= Key1(q) + expired[q]
    BY DEF KeyInv, Permitted
  <2>3. /\ Cardinality(OrdersOf(q)) \in Nat /\ expired[q] \in Nat
        /\ Used1(q) \in Nat /\ Used1(q)' \in Nat /\ Key1(q) \in Nat
    BY OrdersFinite DEF KeyInv, KeyTypes, Used1, Key1
  <2>4. CASE q = p
    <3>1. Used1(q) = 1 /\ Used1(q)' = 0
      BY <1>1, <1>2, <1>6, <2>4 DEF Used1, MayPlace, Stage
    <3>2. OrdersOf(q)' \subseteq OrdersOf(q) \cup {id}
      BY <1>1 DEF OrdersOf, KeyInv, KeyTypes
    <3> HIDE DEF id
    <3>3. IsFiniteSet(OrdersOf(q) \cup {id})
          /\ Cardinality(OrdersOf(q) \cup {id}) <= Cardinality(OrdersOf(q)) + 1
          /\ Cardinality(OrdersOf(q) \cup {id}) \in Nat
      <4>1. IsFiniteSet(OrdersOf(q)) /\ Cardinality(OrdersOf(q)) \in Nat
        BY OrdersFinite
      <4>2. /\ IsFiniteSet(OrdersOf(q) \cup {id})
            /\ Cardinality(OrdersOf(q) \cup {id}) =
                 IF id \in OrdersOf(q) THEN Cardinality(OrdersOf(q))
                                       ELSE Cardinality(OrdersOf(q)) + 1
        BY <4>1, FS_AddElement
      <4> QED
        BY <4>1, <4>2
    <3>4. Cardinality(OrdersOf(q)') <= Cardinality(OrdersOf(q) \cup {id})
          /\ Cardinality(OrdersOf(q)') \in Nat
      BY <3>2, <3>3, FS_Subset, FS_CardinalityType
    <3> QED
      BY <2>1, <2>2, <2>3, <3>1, <3>3, <3>4
  <2>5. CASE q # p
    <3>1. OrdersOf(q)' \subseteq OrdersOf(q)
      BY <1>1, <2>5 DEF OrdersOf, KeyInv, KeyTypes
    <3>2. Cardinality(OrdersOf(q)') <= Cardinality(OrdersOf(q))
          /\ Cardinality(OrdersOf(q)') \in Nat
      BY <3>1, OrdersFinite, FS_Subset, FS_CardinalityType
    <3>3. MayPlace(q)' => MayPlace(q)
      <4>1. AccountOf[q] \in Account
        BY WorkerAssumption
      <4>2. CASE AccountOf[q] = a
        BY <1>1, <2>5, <4>2 DEF MayPlace
      <4>3. CASE AccountOf[q] # a
        BY <1>1, <4>1, <4>3 DEF MayPlace, Stage, KeyInv, KeyTypes
      <4> QED
        BY <4>2, <4>3
    <3>4. Used1(q)' <= Used1(q)
      BY <3>3 DEF Used1
    <3> QED
      BY <2>1, <2>2, <2>3, <3>2, <3>4
  <2> QED
    BY <2>4, <2>5
<1> QED
  BY <1>4, <1>5, <1>7 DEF KeyInv, Permitted

\* An expired key is counted before it is gone.
LEMMA ExpireKeyStep ==
    ASSUME KeyInv, NEW p \in Proposal, ExpireKey(p)
    PROVE  KeyInv'
<1>1. /\ p \in seen /\ seen' = seen \ {p}
      /\ expired' = [expired EXCEPT ![p] = expired[p] + 1]
      /\ UNCHANGED <<queue, task, placed>>
  BY DEF ExpireKey, brokerVars
<1>2. KeyTypes' /\ OwnQueue' /\ TaskHasMessage'
  BY <1>1 DEF KeyInv, KeyTypes, OwnQueue, TaskHasMessage
<1>3. ASSUME NEW q \in Proposal
      PROVE  Cardinality(OrdersOf(q)') + Used1(q)' <= Key1(q)' + expired'[q]
  <2>1. OrdersOf(q)' = OrdersOf(q) /\ Used1(q)' = Used1(q)
    BY <1>1 DEF OrdersOf, Used1, MayPlace, Stage
  <2>2. Cardinality(OrdersOf(q)) + Used1(q) <= Key1(q) + expired[q]
    BY DEF KeyInv, Permitted
  <2>3. expired[q] \in Nat /\ expired'[q] \in Nat
    BY <1>2 DEF KeyInv, KeyTypes
  <2>4. Key1(q) + expired[q] = Key1(q)' + expired'[q]
    BY <1>1, <2>3 DEF Key1, KeyInv, KeyTypes
  <2> QED
    BY <2>1, <2>2, <2>4
<1> QED
  BY <1>2, <1>3 DEF KeyInv, Permitted

-----------------------------------------------------------------------------
(* The theorem *)

LEMMA KeyInvStep == KeyInv /\ [Next]_vars => KeyInv'
<1> SUFFICES ASSUME KeyInv, [Next]_vars
             PROVE  KeyInv'
  OBVIOUS
<1>1. ASSUME NEW p \in Proposal, Deliver(p) \/ ExpireKey(p)
      PROVE  KeyInv'
  BY <1>1, DeliverStep, ExpireKeyStep
<1>2. ASSUME NEW a \in Account, Consume(a)
      PROVE  KeyInv'
  <2>1. ASSUME NEW w \in Worker, Skip(w, a)
        PROVE  KeyInv'
    BY <2>1, AcknowledgeStep DEF Skip, brokerVars
  <2>2. ASSUME NEW w \in Worker, FirstSeen(w, a)
        PROVE  KeyInv'
    BY <2>2, FirstSeenStep
  <2>3. CASE PlaceOrder(a)
    BY <2>3, PlaceOrderStep
  <2>4. CASE Register(a)
    <3>1. task[a] \in [worker : Worker, stage : {"guarded", "placed", "registered"},
                       order : Id \cup {None}]
      BY <2>4 DEF Register, Stage, KeyInv, KeyTypes
    <3>2. /\ task' = [task EXCEPT ![a] = [task[a] EXCEPT !.stage = "registered"]]
          /\ UNCHANGED <<queue, seen, expired, placed>>
      BY <2>4 DEF Register, brokerVars, KeyInv, KeyTypes
    <3>3. [task[a] EXCEPT !.stage = "registered"]
            \in [worker : Worker, stage : {"guarded", "placed", "registered"},
                 order : Id \cup {None}]
      BY <3>1
    <3>4. KeyTypes'
      BY <3>2, <3>3 DEF KeyInv, KeyTypes
    <3>5. [task[a] EXCEPT !.stage = "registered"].stage # "guarded" /\ task[a] # None
      BY <2>4, <3>1 DEF Register, Stage
    <3>6. \A b \in Account : task'[b] # None =>
             task[b] # None /\ (task'[b].stage = "guarded" => task[b].stage = "guarded")
      BY <3>2, <3>5 DEF KeyInv, KeyTypes
    <3> QED
      BY <3>2, <3>4, <3>6, TaskStep
  <2>5. CASE Finish(a)
    <3>1. queue[a] # <<>>
      BY <2>5 DEF Finish, Stage, KeyInv, TaskHasMessage
    <3> QED
      BY <2>5, <3>1, AcknowledgeStep DEF Finish, brokerVars
  <2>6. CASE Throw(a)
    <3>1. task' = [task EXCEPT ![a] = None] /\ UNCHANGED <<queue, seen, expired, placed>>
      BY <2>6 DEF Throw, brokerVars
    <3>2. KeyTypes'
      BY <3>1 DEF KeyInv, KeyTypes
    <3>3. \A b \in Account : task'[b] # None => task'[b] = task[b]
      BY <3>1 DEF KeyInv, KeyTypes
    <3> QED
      BY <3>1, <3>2, <3>3, TaskStep
  <2> QED
    BY <1>2, <2>1, <2>2, <2>3, <2>4, <2>5, <2>6 DEF Consume
<1>3. ASSUME NEW id \in Id, BrokerTells(id) \/ BrokerCloses(id) \/ TimeOut(id) \/ LockLapses(id)
      PROVE  KeyInv'
  BY <1>3, KeptAlone DEF BrokerTells, BrokerCloses, TimeOut, TimeoutReads, TimeoutMisses,
                         TryLockRaises, TimeoutCancels, TimeoutThrows, LockLapses,
                         messageVars, brokerVars
<1>4. ASSUME NEW s \in Session, Callback(s) \/ CallbackFails(s)
      PROVE  KeyInv'
  BY <1>4, KeptAlone DEF Callback, CallbackFails, messageVars
<1>5. ASSUME NEW w \in Worker, Start(w) \/ Disconnect(w)
      PROVE  KeyInv'
  BY <1>5, KeptAlone DEF Start, Disconnect, messageVars, brokerVars
<1>6. ASSUME NEW w \in Worker, Crash(w)
      PROVE  KeyInv'
  <2>1. /\ UNCHANGED <<queue, seen, expired, placed>>
        /\ task' = [a \in Account |->
                      IF task[a] # None /\ task[a].worker = w THEN None ELSE task[a]]
    BY <1>6 DEF Crash
  <2>2. KeyTypes'
    BY <2>1 DEF KeyInv, KeyTypes
  <2>3. \A b \in Account : task'[b] # None => task'[b] = task[b]
    BY <2>1
  <2> QED
    BY <2>1, <2>2, <2>3, TaskStep
<1>7. CASE UNCHANGED vars
  BY <1>7, KeptAlone DEF vars
<1> QED
  BY <1>1, <1>2, <1>3, <1>4, <1>5, <1>6, <1>7 DEF Next

\* At the start nothing is permitted and nothing placed.
LEMMA KeyInvInit == Init => KeyInv
<1> SUFFICES ASSUME Init
             PROVE  KeyInv
  OBVIOUS
<1>1. KeyTypes /\ OwnQueue /\ TaskHasMessage
  BY DEF Init, KeyTypes, OwnQueue, TaskHasMessage
<1>2. ASSUME NEW p \in Proposal
      PROVE  Cardinality(OrdersOf(p)) + Used1(p) <= Key1(p) + expired[p]
  <2>1. OrdersOf(p) = {}
    BY WorkerAssumption DEF Init, OrdersOf
  <2>2. Used1(p) = 0 /\ Key1(p) = 0 /\ expired[p] = 0
    BY WorkerAssumption DEF Init, Used1, MayPlace, Stage, Key1
  <2> QED
    BY <2>1, <2>2, FS_EmptySet
<1> QED
  BY <1>1, <1>2 DEF KeyInv, Permitted

\* The count of permissions is inductive.
THEOREM PermissionsCounted == Spec => []KeyInv
<1> QED
  BY KeyInvInit, KeyInvStep, PTL DEF Spec

\* However messages are delivered and processes die, a proposal has at most one
\* order at the broker per life of its idempotency key.
THEOREM OneOrderEach == Spec => []OneOrderPerKey
<1>1. KeyInv => OneOrderPerKey
  <2> SUFFICES ASSUME KeyInv, NEW p \in Proposal
               PROVE  Cardinality(OrdersOf(p)) <= 1 + expired[p]
    BY DEF OneOrderPerKey
  <2>1. Cardinality(OrdersOf(p)) + Used1(p) <= Key1(p) + expired[p]
    BY DEF KeyInv, Permitted
  <2>2. Cardinality(OrdersOf(p)) \in Nat /\ expired[p] \in Nat
    BY OrdersFinite DEF KeyInv, KeyTypes
  <2>3. Used1(p) \in 0..1 /\ Key1(p) \in 0..1
    BY DEF Used1, Key1
  <2> QED
    BY <2>1, <2>2, <2>3
<1> QED
  BY <1>1, PermissionsCounted, PTL

-----------------------------------------------------------------------------
(* Whatever is in a queue or at the broker was delivered. *)

WasDelivered ==
    /\ copies \in [Proposal -> Nat]
    /\ \A a \in Account : \A i \in 1..Len(queue[a]) : copies[queue[a][i]] > 0
    /\ \A id \in Id : placed[id] # None => copies[placed[id]] > 0

\* A queue that is left alone, or loses its head, holds nothing new.
LEMMA DeliveredKept ==
    ASSUME KeyInv, WasDelivered, UNCHANGED <<copies, placed>>,
           \A a \in Account : \/ queue'[a] = queue[a]
                              \/ queue[a] # <<>> /\ queue'[a] = Tail(queue[a])
    PROVE  WasDelivered'
<1>1. ASSUME NEW a \in Account, NEW i \in 1..Len(queue'[a])
      PROVE  copies[queue'[a][i]] > 0
  <2>1. CASE queue'[a] = queue[a]
    BY <2>1 DEF WasDelivered
  <2>2. CASE queue[a] # <<>> /\ queue'[a] = Tail(queue[a])
    <3>1. queue[a] \in Seq(Proposal)
      BY DEF KeyInv, KeyTypes
    <3>2. i + 1 \in 1..Len(queue[a]) /\ queue'[a][i] = queue[a][i + 1]
      BY <2>2, <3>1, HeadTailProperties
    <3> QED
      BY <3>2 DEF WasDelivered
  <2> QED
    BY <2>1, <2>2
<1> QED
  BY <1>1 DEF WasDelivered

LEMMA DeliveredStep == KeyInv /\ WasDelivered /\ [Next]_vars => WasDelivered'
<1> SUFFICES ASSUME KeyInv, WasDelivered, [Next]_vars
             PROVE  WasDelivered'
  OBVIOUS
<1>1. ASSUME NEW p \in Proposal, Deliver(p)
      PROVE  WasDelivered'
  <2> DEFINE b == AccountOf[p]
  <2>1. /\ b \in Account /\ queue \in [Account -> Seq(Proposal)]
        /\ queue' = [queue EXCEPT ![b] = Append(queue[b], p)]
        /\ copies' = [copies EXCEPT ![p] = copies[p] + 1] /\ placed' = placed
    BY <1>1, WorkerAssumption DEF Deliver, brokerVars, KeyInv, KeyTypes
  <2>2. /\ copies' \in [Proposal -> Nat] /\ copies'[p] > 0
        /\ \A q \in Proposal : copies[q] > 0 => copies'[q] > 0
    BY <2>1 DEF WasDelivered
  <2>3. \A id \in Id : placed'[id] # None => copies'[placed'[id]] > 0
    BY <2>1, <2>2 DEF WasDelivered, KeyInv, KeyTypes
  <2>4. ASSUME NEW a \in Account, NEW i \in 1..Len(queue'[a])
        PROVE  copies'[queue'[a][i]] > 0
    <3>1. ASSUME NEW j \in 1..Len(queue[a])
          PROVE  copies'[queue[a][j]] > 0
      <4>1. queue[a] \in Seq(Proposal)
        BY <2>1
      <4>2. queue[a][j] \in Proposal
        BY <4>1
      <4> QED
        BY <2>2, <4>2 DEF WasDelivered
    <3>2. CASE a # b
      BY <2>1, <3>1, <3>2
    <3>3. CASE a = b
      <4>1. queue'[a] = Append(queue[a], p) /\ queue[a] \in Seq(Proposal)
        BY <2>1, <3>3
      <4>2. /\ Len(Append(queue[a], p)) = Len(queue[a]) + 1 /\ Len(queue[a]) \in Nat
            /\ \A j \in 1..Len(queue[a]) : Append(queue[a], p)[j] = queue[a][j]
            /\ Append(queue[a], p)[Len(queue[a]) + 1] = p
        BY <4>1, AppendProperties
      <4>3. i \in 1..Len(queue[a]) \/ i = Len(queue[a]) + 1
        BY <4>1, <4>2
      <4> QED
        BY <2>2, <3>1, <4>1, <4>2, <4>3
    <3> QED
      BY <3>2, <3>3
  <2> QED
    BY <2>2, <2>3, <2>4 DEF WasDelivered
<1>2. ASSUME NEW a \in Account, PlaceOrder(a)
      PROVE  WasDelivered'
  <2>1. queue[a] # <<>> /\ queue[a] \in Seq(Proposal)
    BY <1>2 DEF PlaceOrder, Stage, KeyInv, KeyTypes, TaskHasMessage
  <2>2. 1 \in 1..Len(queue[a]) /\ Head(queue[a]) = queue[a][1]
    BY <2>1
  <2>3. copies[Head(queue[a])] > 0
    BY <2>2 DEF WasDelivered
  <2>4. PICK id \in Id : placed' = [placed EXCEPT ![id] = Head(queue[a])]
    BY <1>2 DEF PlaceOrder
  <2>5. queue' = queue /\ copies' = copies
    BY <1>2 DEF PlaceOrder
  <2>6. \A k \in Id : placed'[k] # None => copies[placed'[k]] > 0
    BY <2>3, <2>4 DEF WasDelivered, KeyInv, KeyTypes
  <2> QED
    BY <2>5, <2>6 DEF WasDelivered
<1>3. ASSUME NEW a \in Account, Consume(a), ~PlaceOrder(a)
      PROVE  WasDelivered'
  <2>1. CASE (\E w \in Worker : Skip(w, a)) \/ Finish(a)
    <3>1. queue[a] # <<>>
      BY <2>1 DEF Skip, Finish, Stage, KeyInv, TaskHasMessage
    <3>2. /\ queue' = [queue EXCEPT ![a] = Tail(queue[a])]
          /\ UNCHANGED <<copies, placed>>
      BY <2>1 DEF Skip, Finish, Acknowledge, brokerVars
    <3>3. \A b \in Account : \/ queue'[b] = queue[b]
                             \/ queue[b] # <<>> /\ queue'[b] = Tail(queue[b])
      BY <3>1, <3>2 DEF KeyInv, KeyTypes
    <3> QED
      BY <3>2, <3>3, DeliveredKept
  <2>2. CASE (\E w \in Worker : FirstSeen(w, a)) \/ Register(a) \/ Throw(a)
    <3>1. UNCHANGED <<queue, copies, placed>>
      BY <2>2 DEF FirstSeen, Register, Throw, brokerVars
    <3> QED
      BY <3>1, DeliveredKept
  <2> QED
    BY <1>3, <2>1, <2>2 DEF Consume
<1>4. ASSUME UNCHANGED <<queue, copies, placed>>
      PROVE  WasDelivered'
  BY <1>4, DeliveredKept
<1>5. ASSUME NEW p \in Proposal, ExpireKey(p)
      PROVE  WasDelivered'
  BY <1>4, <1>5 DEF ExpireKey, brokerVars
<1>6. ASSUME NEW id \in Id, BrokerTells(id) \/ BrokerCloses(id) \/ TimeOut(id) \/ LockLapses(id)
      PROVE  WasDelivered'
  BY <1>4, <1>6 DEF BrokerTells, BrokerCloses, TimeOut, TimeoutReads, TimeoutMisses,
                    TryLockRaises, TimeoutCancels, TimeoutThrows, LockLapses,
                    messageVars, brokerVars
<1>7. ASSUME NEW s \in Session, Callback(s) \/ CallbackFails(s)
      PROVE  WasDelivered'
  BY <1>4, <1>7 DEF Callback, CallbackFails, messageVars
<1>8. ASSUME NEW w \in Worker, Start(w) \/ Crash(w) \/ Disconnect(w)
      PROVE  WasDelivered'
  BY <1>4, <1>8 DEF Start, Crash, Disconnect, messageVars, brokerVars
<1>9. CASE UNCHANGED vars
  BY <1>4, <1>9 DEF vars
<1> QED
  BY <1>1, <1>2, <1>3, <1>5, <1>6, <1>7, <1>8, <1>9 DEF Next

\* The broker has orders only for proposals some message of which was delivered.
THEOREM PlacedWasDelivered == Spec => []WasDelivered
<1>1. Init => WasDelivered
  BY DEF Init, WasDelivered
<1> QED
  BY <1>1, PermissionsCounted, DeliveredStep, PTL DEF Spec

-----------------------------------------------------------------------------
(* What rows tell.  The broker's reports of an order reach the session that    *)
(* placed it and no other, in the order they were sent, and a number is used   *)
(* once in a session: so what has become of an order does not change any more  *)
(* while a report of it is on its way.                                         *)

RowStatus == {"absent", "SUBMITTED"} \cup Reportable
Closing == {"Filled", "Inactive", "Cancelled"}
Closed == {"filled", "rejected", "cancelled"}
Words == {"Submitted", "PendingCancel"} \cup Closing

MarketTypes ==
    /\ sessions \in Nat
    /\ session \in [Worker -> (1..sessions) \cup {None}]
    /\ market \in [Id -> Market]
    /\ link \in [Session -> Link]
    /\ row \in [Id -> RowStatus]
    /\ reports \in [Session -> Seq(Id \X Words)]

\* No two processes are in one session.
OneProcessPerSession ==
    \A w, v \in Worker : session[w] = session[v] /\ session[w] # None => w = v

\* A session numbers its orders from one, without a gap.
Numbered ==
    \A s \in Session : \E k \in 0..MaxOrder :
        \A n \in 1..MaxOrder : placed[<<s, n>>] # None <=> n <= k

\* The broker knows of what was placed, by sessions that were, and rows are of that.
KnownIfPlaced ==
    \A id \in Id : /\ placed[id] = None <=> market[id] = "none"
                   /\ placed[id] # None => id[1] <= sessions
                   /\ row[id] # "absent" => placed[id] # None

\* A call that is about to register an order has placed it, for its message.
RegistersPlaced ==
    \A a \in Account : Stage(a, "placed") =>
        task[a].order \in Id /\ placed[task[a].order] = Head(queue[a])

\* What was not sent to the broker was placed over a connection that is gone.
UnsentIsCut == \A id \in Id : market[id] = "unsent" => link[id[1]] = "cut"

\* A report of an ending is true, from when it is sent, but of an order held for a locate.
IsTrue(report) ==
    /\ report[2] = "Filled" => market[report[1]] = "filled"
    /\ report[2] = "Inactive" => market[report[1]] = "rejected" \/ report[1] \in located
    /\ report[2] = "Cancelled" => market[report[1]] = "cancelled"
ReportsAreTrue == \A s \in Session : \A n \in 1..Len(reports[s]) : IsTrue(reports[s][n])

\* The ending of an order is told in its row, on its way there, or has an excuse.
Announced(id) ==
    \E n \in 1..Len(reports[id[1]]) : reports[id[1]][n][1] = id /\ reports[id[1]][n][2] \in Closing
EndingsArrive ==
    \A id \in Id : market[id] \in Closed /\ row[id] \notin Terminal =>
        id \in early \cup missed \/ ~Heard(id[1]) \/ Announced(id)

MarketInv ==
    /\ KeyInv /\ MarketTypes
    /\ OneProcessPerSession /\ Numbered /\ KnownIfPlaced /\ RegistersPlaced /\ UnsentIsCut
    /\ ReportsAreTrue /\ RowTellsTheMarket /\ EndingsArrive

\* What the mapper makes of the broker's words.
LEMMA WordsMap ==
    ASSUME NEW word \in Words
    PROVE  /\ MapStatus(word, "") \in Reportable
           /\ MapStatus(word, "") = "FILLED" => word = "Filled"
           /\ MapStatus(word, "") = "REJECTED" => word = "Inactive"
           /\ MapStatus(word, "") = "CANCELED" => word = "Cancelled"
           /\ word \in Closing => MapStatus(word, "") \in {"FILLED", "REJECTED", "CANCELED"}
  BY DEF Words, Closing, MapStatus, Reportable

\* A report of an ending closes a row that is open; one that is closed stays so.
LEMMA FoldCloses ==
    ASSUME NEW current \in RowStatus \ {"absent"}, NEW target \in Reportable
    PROVE  /\ Fold(current, target) \in RowStatus \ {"absent"}
           /\ Fold(current, target) \in {current, target}
           /\ current \in Terminal => Fold(current, target) \in Terminal
           /\ target \in {"FILLED", "REJECTED", "CANCELED"} => Fold(current, target) \in Terminal
  BY DEF Fold, CanTransition, TABLE, Terminal, RowStatus, Reportable

\* The next number of a session is free.
LEMMA NextNumberIsFree ==
    ASSUME KeyTypes, Numbered, NEW s \in Session, <<s, Used(s) + 1>> \in Id
    PROVE  /\ placed[<<s, Used(s) + 1>>] = None
           /\ Used(s) \in Nat /\ Used(s) + 1 \in 1..MaxOrder
           /\ \A n \in 1..MaxOrder : placed[<<s, n>>] # None <=> n <= Used(s)
<1> DEFINE S == {id \in Id : id[1] = s /\ placed[id] # None}
<1>1. PICK k \in 0..MaxOrder : \A n \in 1..MaxOrder : placed[<<s, n>>] # None <=> n <= k
  BY DEF Numbered
<1>2. k \in Nat /\ MaxOrder \in Nat /\ k <= MaxOrder
  BY WorkerAssumption
<1> DEFINE f == [n \in 1..k |-> <<s, n>>]
<1>3. \A n \in 1..k : <<s, n>> \in S
  BY <1>1, <1>2 DEF Id
<1>4. \A id \in S : \E n \in 1..k : id = <<s, n>>
  <2> SUFFICES ASSUME NEW id \in S PROVE \E n \in 1..k : id = <<s, n>>
    OBVIOUS
  <2>1. id = <<s, id[2]>> /\ id[2] \in 1..MaxOrder
    BY DEF Id
  <2>2. id[2] <= k
    BY <1>1, <2>1
  <2> QED
    BY <1>2, <2>1, <2>2
<1>5. f \in Bijection(1..k, S)
  <2>1. f \in [1..k -> S]
    BY <1>3
  <2>2. \A m, n \in 1..k : f[m] = f[n] => m = n
    OBVIOUS
  <2>3. \A id \in S : \E n \in 1..k : f[n] = id
    BY <1>4
  <2> HIDE DEF f, S
  <2> QED
    BY <2>1, <2>2, <2>3 DEF Bijection, Injection, Surjection, IsInjective
<1>6. Cardinality(S) = k
  <2>1. IsFiniteSet(1..k) /\ Cardinality(1..k) = k
    BY <1>2, FS_Interval
  <2>2. ExistsBijection(1..k, S)
    BY <1>5 DEF ExistsBijection
  <2> HIDE DEF f, S
  <2> QED
    BY <2>1, <2>2, FS_Bijection
<1>7. Used(s) = k
  BY <1>6 DEF Used
<1>8. k + 1 \in 1..MaxOrder
  BY <1>7 DEF Id
<1> QED
  BY <1>1, <1>2, <1>7, <1>8

\* A step of the queues, of the keys or of the timeouts.
LEMMA ElsewhereKeeps ==
    ASSUME MarketInv, KeyInv',
           UNCHANGED <<session, sessions, ledgerVars, brokerVars>>,
           \A a \in Account : Stage(a, "placed")' =>
               /\ Stage(a, "placed") /\ task'[a].order = task[a].order
               /\ Head(queue'[a]) = Head(queue[a])
    PROVE  MarketInv'
<1> USE DEF ledgerVars, brokerVars
<1>1. MarketTypes' /\ OneProcessPerSession' /\ Numbered' /\ KnownIfPlaced' /\ ReportsAreTrue'
      /\ UnsentIsCut'
  BY DEF MarketInv, MarketTypes, OneProcessPerSession, Numbered, KnownIfPlaced, ReportsAreTrue,
         IsTrue, UnsentIsCut
<1>2. RegistersPlaced'
  BY DEF MarketInv, RegistersPlaced
<1>3. RowTellsTheMarket' /\ EndingsArrive'
  BY DEF MarketInv, RowTellsTheMarket, EndingsArrive, Announced, Heard, Alive
<1> QED
  BY <1>1, <1>2, <1>3 DEF MarketInv

\* The broker gets an order, under a number that was free.
LEMMA PlaceKeeps ==
    ASSUME MarketInv, KeyInv', NEW a \in Account, PlaceOrder(a)
    PROVE  MarketInv'
<1> DEFINE s == session[task[a].worker]
           id == <<s, Used(s) + 1>>
<1>1. /\ Stage(a, "guarded") /\ id \in Id
      /\ placed' = [placed EXCEPT ![id] = Head(queue[a])]
      /\ market' = [market EXCEPT ![id] = IF link[s] = "cut" THEN "unsent" ELSE "open"]
      /\ task' = [task EXCEPT ![a].stage = "placed", ![a].order = id]
      /\ UNCHANGED <<queue, reports, link, located, session, sessions, row, early, missed>>
  BY DEF PlaceOrder, processVars, ledgerVars
<1>2. task[a].worker \in Worker /\ s \in Session /\ task[a] # None
  BY <1>1 DEF MarketInv, KeyInv, KeyTypes, Stage, Id
<1>3. s \in 1..sessions /\ s \in Nat /\ sessions \in Nat
  <2>1. s \in (1..sessions) \cup {None} /\ sessions \in Nat
    BY <1>2 DEF MarketInv, MarketTypes
  <2>2. s # None
    BY <1>2, WorkerAssumption DEF Session
  <2> QED
    BY <2>1, <2>2
<1>4. /\ placed[id] = None /\ Used(s) \in Nat /\ Used(s) + 1 \in 1..MaxOrder
      /\ \A n \in 1..MaxOrder : placed[<<s, n>>] # None <=> n <= Used(s)
  BY <1>1, <1>2, NextNumberIsFree DEF MarketInv, KeyInv
<1>5. market[id] = "none" /\ row[id] = "absent"
  BY <1>1, <1>4 DEF MarketInv, KnownIfPlaced
<1>6. Head(queue[a]) \in Proposal /\ Head(queue[a]) # None
  <2>1. queue[a] # <<>>
    BY <1>2 DEF MarketInv, KeyInv, TaskHasMessage
  <2> QED
    BY <2>1, QueueParts, WorkerAssumption DEF MarketInv, KeyInv
<1>7. /\ placed'[id] = Head(queue[a]) /\ placed'[id] # None
      /\ market'[id] \in {"open", "unsent"} /\ (market'[id] = "unsent" => link[s] = "cut")
      /\ \A k \in Id \ {id} : placed'[k] = placed[k] /\ market'[k] = market[k]
  BY <1>1, <1>6 DEF MarketInv, MarketTypes, KeyInv, KeyTypes
<1>8. MarketTypes'
  BY <1>1 DEF MarketInv, MarketTypes, Market, Link
<1>9. OneProcessPerSession'
  BY <1>1 DEF MarketInv, OneProcessPerSession
<1>10. Numbered'
  <2> SUFFICES ASSUME NEW r \in Session
               PROVE  \E k \in 0..MaxOrder :
                          \A n \in 1..MaxOrder : placed'[<<r, n>>] # None <=> n <= k
    BY DEF Numbered
  <2>1. CASE r # s
    <3>1. \A n \in 1..MaxOrder : <<r, n>> \in Id /\ <<r, n>> # id
      BY <2>1 DEF Id
    <3>2. \A n \in 1..MaxOrder : placed'[<<r, n>>] = placed[<<r, n>>]
      BY <1>7, <3>1
    <3> QED
      BY <3>2 DEF MarketInv, Numbered
  <2>2. CASE r = s
    <3> DEFINE k == Used(s)
    <3>1. \A n \in 1..MaxOrder : <<s, n>> \in Id
      BY <1>2 DEF Id
    <3>2. PICK j \in 0..MaxOrder : j = k + 1
      BY <1>4, WorkerAssumption
    <3>3. \A n \in 1..MaxOrder : n # j => (placed'[<<s, n>>] # None <=> n <= k)
      <4> SUFFICES ASSUME NEW n \in 1..MaxOrder, n # j
                   PROVE  placed'[<<s, n>>] # None <=> n <= k
        OBVIOUS
      <4>1. <<s, n>> # id
        BY <3>2
      <4>2. placed'[<<s, n>>] = placed[<<s, n>>]
        BY <1>7, <3>1, <4>1
      <4> QED
        BY <1>4, <4>2
    <3>4. k \in Int /\ \A n \in 1..MaxOrder : n # j => (n <= k <=> n <= j)
      <4>1. j \in Nat
        BY WorkerAssumption
      <4>2. k \in Int
        BY <1>4
      <4> QED
        BY <3>2, <4>1, <4>2
    <3>5. placed'[<<s, j>>] # None
      BY <1>7, <3>2
    <3> HIDE DEF k
    <3>6. \A n \in 1..MaxOrder : placed'[<<s, n>>] # None <=> n <= j
      <4> SUFFICES ASSUME NEW n \in 1..MaxOrder
                   PROVE  placed'[<<s, n>>] # None <=> n <= j
        OBVIOUS
      <4>1. CASE n = j
        BY <3>5, <4>1
      <4>2. CASE n # j
        BY <3>3, <3>4, <4>2
      <4> QED
        BY <4>1, <4>2
    <3> QED
      BY <2>2, <3>6
  <2> QED
    BY <2>1, <2>2
<1>11. KnownIfPlaced'
  <2>1. id[1] = s /\ s <= sessions
    BY <1>3
  <2> HIDE DEF id
  <2> QED
    BY <1>1, <1>5, <1>7, <2>1 DEF MarketInv, KnownIfPlaced
<1>12. RegistersPlaced'
  <2>1. task'[a].order = id
    BY <1>1, <1>2 DEF MarketInv, KeyInv, KeyTypes
  <2>2. \A b \in Account : b # a => task'[b] = task[b]
    BY <1>1 DEF MarketInv, KeyInv, KeyTypes
  <2>3. \A b \in Account : Stage(b, "placed") => queue[b] # <<>> /\ Head(queue[b]) # None
    BY QueueParts, WorkerAssumption DEF MarketInv, KeyInv, TaskHasMessage, Stage
  <2> HIDE DEF id
  <2> SUFFICES ASSUME NEW b \in Account, Stage(b, "placed")'
               PROVE  task'[b].order \in Id /\ placed'[task'[b].order] = Head(queue[b])
    BY <1>1 DEF RegistersPlaced
  <2>4. CASE b = a
    BY <1>1, <1>7, <2>1, <2>4
  <2>5. CASE b # a
    <3>1. Stage(b, "placed") /\ task'[b] = task[b]
      BY <2>2, <2>5 DEF Stage
    <3>2. task[b].order \in Id /\ placed[task[b].order] = Head(queue[b])
      BY <3>1 DEF MarketInv, RegistersPlaced
    <3>3. task[b].order # id
      BY <1>4, <2>3, <3>1, <3>2
    <3> QED
      BY <1>7, <3>1, <3>2, <3>3
  <2> QED
    BY <2>4, <2>5
<1>15. UnsentIsCut'
  <2>1. id[1] = s
    OBVIOUS
  <2> HIDE DEF id
  <2> QED
    BY <1>1, <1>7, <2>1 DEF MarketInv, UnsentIsCut
<1> HIDE DEF id
<1>13. ReportsAreTrue'
  <2> SUFFICES ASSUME NEW r \in Session, NEW n \in 1..Len(reports[r])
               PROVE  IsTrue(reports[r][n])'
    BY <1>1 DEF ReportsAreTrue
  <2>1. IsTrue(reports[r][n]) /\ reports[r][n][1] \in Id
    BY DEF MarketInv, MarketTypes, ReportsAreTrue
  <2> QED
    BY <1>1, <1>5, <1>7, <2>1 DEF IsTrue
<1>14. RowTellsTheMarket' /\ EndingsArrive'
  BY <1>1, <1>5, <1>7 DEF MarketInv, RowTellsTheMarket, EndingsArrive, Announced, Heard, Alive,
                          Closed
<1> QED
  BY <1>8, <1>9, <1>10, <1>11, <1>12, <1>13, <1>14, <1>15 DEF MarketInv

\* Its row is inserted, open; what became of it meanwhile was reported too early.
LEMMA RegisterKeeps ==
    ASSUME MarketInv, KeyInv', NEW a \in Account, Register(a)
    PROVE  MarketInv'
<1> DEFINE id == task[a].order
<1>1. /\ Stage(a, "placed") /\ row' = [row EXCEPT ![id] = "SUBMITTED"]
      /\ task' = [task EXCEPT ![a].stage = "registered"]
      /\ UNCHANGED <<queue, placed, market, link, reports, located, session, sessions,
                      early, missed>>
  BY DEF Register, brokerVars, processVars
<1>2. id \in Id /\ placed[id] = Head(queue[a])
  BY <1>1 DEF MarketInv, RegistersPlaced
<1>3. placed[id] # None
  <2>1. queue[a] # <<>>
    BY <1>1 DEF MarketInv, KeyInv, TaskHasMessage, Stage
  <2> QED
    BY <1>2, <2>1, QueueParts, WorkerAssumption DEF MarketInv, KeyInv
<1>4. row[id] = "absent"
  BY <1>2 DEF Register, HasRow, OrdersOf
<1>5. row' \in [Id -> RowStatus] /\ row'[id] = "SUBMITTED" /\ \A k \in Id \ {id} : row'[k] = row[k]
  BY <1>1, <1>2 DEF MarketInv, MarketTypes, RowStatus
<1>6. MarketTypes' /\ OneProcessPerSession' /\ Numbered' /\ ReportsAreTrue' /\ UnsentIsCut'
  BY <1>1, <1>5 DEF MarketInv, MarketTypes, OneProcessPerSession, Numbered, ReportsAreTrue, IsTrue,
                    UnsentIsCut
<1>7. KnownIfPlaced'
  BY <1>1, <1>5, <1>3 DEF MarketInv, KnownIfPlaced
<1>8. RegistersPlaced'
  <2>1. task'[a].stage = "registered" /\ \A b \in Account : b # a => task'[b] = task[b]
    BY <1>1 DEF MarketInv, KeyInv, KeyTypes, Stage
  <2> QED
    BY <1>1, <2>1 DEF MarketInv, RegistersPlaced, Stage
<1>9. RowTellsTheMarket'
  BY <1>1, <1>5 DEF MarketInv, RowTellsTheMarket
<1>10. EndingsArrive'
  <2>1. \A k \in Id : row'[k] \notin Terminal => row[k] \notin Terminal
    BY <1>5, <1>4 DEF Terminal
  <2> QED
    BY <1>1, <2>1 DEF MarketInv, EndingsArrive, Announced, Heard, Alive
<1> QED
  BY <1>6, <1>7, <1>8, <1>9, <1>10 DEF MarketInv

\* One more report of an order, true, to the session that placed it; or none, if
\* that session has no process.
LEMMA SendKeeps ==
    ASSUME MarketInv, NEW id \in Id, NEW word \in Words, Send(id, word)
    PROVE  /\ reports' \in [Session -> Seq(Id \X Words)]
           /\ \A s \in Session : \A n \in 1..Len(reports'[s]) :
                  \/ n \in 1..Len(reports[s]) /\ reports'[s][n] = reports[s][n]
                  \/ reports'[s][n] = <<id, word>>
           /\ \A s \in Session : \A n \in 1..Len(reports[s]) :
                  n \in 1..Len(reports'[s]) /\ reports'[s][n] = reports[s][n]
           /\ Heard(id[1]) => \E n \in 1..Len(reports'[id[1]]) : reports'[id[1]][n] = <<id, word>>
<1> DEFINE r == <<id, word>>
           q == reports[id[1]]
<1>1. id[1] \in Session /\ r \in Id \X Words /\ reports \in [Session -> Seq(Id \X Words)]
  BY DEF MarketInv, MarketTypes, Id
<1>2. CASE Heard(id[1])
  <2>1. reports' = [reports EXCEPT ![id[1]] = Append(q, r)]
    BY <1>2 DEF Send
  <2>2. q \in Seq(Id \X Words)
    BY <1>1
  <2> HIDE DEF r, q
  <2>3. /\ Append(q, r) \in Seq(Id \X Words) /\ Len(q) \in Nat
        /\ Len(Append(q, r)) = Len(q) + 1
        /\ \A n \in 1..Len(q) : n \in 1..Len(q) + 1 /\ Append(q, r)[n] = q[n]
        /\ Append(q, r)[Len(q) + 1] = r /\ Len(q) + 1 \in 1..Len(q) + 1
        /\ \A n \in 1..Len(q) + 1 : n \in 1..Len(q) \/ n = Len(q) + 1
    BY <1>1, <2>2, AppendProperties
  <2>4. /\ reports'[id[1]] = Append(q, r)
        /\ \A s \in Session : s # id[1] => reports'[s] = reports[s]
    BY <1>1, <2>1
  <2>5. reports' \in [Session -> Seq(Id \X Words)]
    BY <1>1, <2>1, <2>3
  <2>6. \E n \in 1..Len(reports'[id[1]]) : reports'[id[1]][n] = r
    BY <2>3, <2>4
  <2>7. ASSUME NEW s \in Session
        PROVE  /\ \A n \in 1..Len(reports'[s]) :
                      \/ n \in 1..Len(reports[s]) /\ reports'[s][n] = reports[s][n]
                      \/ reports'[s][n] = r
               /\ \A n \in 1..Len(reports[s]) :
                      n \in 1..Len(reports'[s]) /\ reports'[s][n] = reports[s][n]
    <3>1. CASE s = id[1]
      BY <2>3, <2>4, <3>1 DEF q
    <3>2. CASE s # id[1]
      BY <2>4, <3>2
    <3> QED
      BY <3>1, <3>2
  <2> QED
    BY <2>5, <2>6, <2>7 DEF r
<1>3. CASE ~Heard(id[1])
  <2>1. reports' = reports
    BY <1>3 DEF Send
  <2> QED
    BY <1>1, <1>3, <2>1
<1> QED
  BY <1>2, <1>3

\* The broker says that an order works, is being cancelled, or is held.
LEMMA TellsKeeps ==
    ASSUME MarketInv, KeyInv', NEW id \in Id, BrokerTells(id)
    PROVE  MarketInv'
<1>1. PICK word \in {"Submitted", "PendingCancel", "Inactive"} :
          /\ Send(id, word)
          /\ located' = IF word = "Inactive" THEN located \cup {id} ELSE located
  BY DEF BrokerTells
<1>2. /\ UNCHANGED <<placed, market, link, queue, task, row, early, missed, session, sessions>>
  BY DEF BrokerTells, messageVars, ledgerVars, processVars
<1>3. /\ word \in Words /\ word \notin {"Filled", "Cancelled"}
      /\ located \subseteq located' /\ (word = "Inactive" => id \in located')
  BY <1>1 DEF Words, Closing
<1>4. /\ reports' \in [Session -> Seq(Id \X Words)]
      /\ \A s \in Session : \A n \in 1..Len(reports'[s]) :
             \/ n \in 1..Len(reports[s]) /\ reports'[s][n] = reports[s][n]
             \/ reports'[s][n] = <<id, word>>
      /\ \A s \in Session : \A n \in 1..Len(reports[s]) :
             n \in 1..Len(reports'[s]) /\ reports'[s][n] = reports[s][n]
  BY <1>1, <1>3, SendKeeps
<1>5. MarketTypes' /\ OneProcessPerSession' /\ Numbered' /\ KnownIfPlaced' /\ RegistersPlaced'
      /\ RowTellsTheMarket' /\ UnsentIsCut'
  BY <1>2, <1>3, <1>4 DEF MarketInv, MarketTypes, OneProcessPerSession, Numbered, KnownIfPlaced,
                          RegistersPlaced, Stage, RowTellsTheMarket, UnsentIsCut
<1>6. ReportsAreTrue'
  <2> SUFFICES ASSUME NEW s \in Session, NEW n \in 1..Len(reports'[s])
               PROVE  IsTrue(reports[s][n])'
    BY DEF ReportsAreTrue
  <2>1. CASE n \in 1..Len(reports[s]) /\ reports'[s][n] = reports[s][n]
    BY <1>2, <1>3, <2>1 DEF MarketInv, ReportsAreTrue, IsTrue
  <2>2. CASE reports'[s][n] = <<id, word>>
    BY <1>3, <2>2 DEF IsTrue
  <2> QED
    BY <1>4, <2>1, <2>2
<1>7. EndingsArrive'
  <2>1. \A k \in Id : Announced(k) => Announced(k)'
    BY <1>4 DEF Announced, Id
  <2> QED
    BY <1>2, <2>1 DEF MarketInv, EndingsArrive, Heard, Alive
<1> QED
  BY <1>5, <1>6, <1>7 DEF MarketInv

\* An order ends at the broker, and its session is told, if it has a process.
LEMMA ClosesKeeps ==
    ASSUME MarketInv, KeyInv', NEW id \in Id, BrokerCloses(id)
    PROVE  MarketInv'
<1>1. PICK outcome \in {<<"filled", "Filled">>, <<"rejected", "Inactive">>,
                        <<"cancelled", "Cancelled">>} :
          market' = [market EXCEPT ![id] = outcome[1]] /\ Send(id, outcome[2])
  BY DEF BrokerCloses
<1>2. /\ UNCHANGED <<placed, link, located, queue, task, row, early, missed, session, sessions>>
      /\ market[id] = "open"
  BY DEF BrokerCloses, messageVars, ledgerVars, processVars
<1> DEFINE word == outcome[2]
<1>3. word \in Words /\ word \in Closing
  BY DEF Words, Closing
<1>4. /\ reports' \in [Session -> Seq(Id \X Words)]
      /\ \A s \in Session : \A n \in 1..Len(reports'[s]) :
             \/ n \in 1..Len(reports[s]) /\ reports'[s][n] = reports[s][n]
             \/ reports'[s][n] = <<id, word>>
      /\ \A s \in Session : \A n \in 1..Len(reports[s]) :
             n \in 1..Len(reports'[s]) /\ reports'[s][n] = reports[s][n]
      /\ Heard(id[1]) => \E n \in 1..Len(reports'[id[1]]) : reports'[id[1]][n] = <<id, word>>
  BY <1>1, <1>3, SendKeeps
<1>5. /\ market'[id] = outcome[1] /\ \A k \in Id \ {id} : market'[k] = market[k]
      /\ market' \in [Id -> Market] /\ outcome[1] \in Closed
  BY <1>1 DEF MarketInv, MarketTypes, Market, Closed
<1>6. MarketTypes' /\ OneProcessPerSession' /\ Numbered' /\ RegistersPlaced' /\ UnsentIsCut'
  BY <1>2, <1>4, <1>5 DEF MarketInv, MarketTypes, OneProcessPerSession, Numbered,
                          RegistersPlaced, Stage, UnsentIsCut, Closed
<1>7. KnownIfPlaced'
  BY <1>2, <1>5 DEF MarketInv, KnownIfPlaced, Closed
<1>8. RowTellsTheMarket'
  BY <1>2, <1>5 DEF MarketInv, RowTellsTheMarket
<1>9. ReportsAreTrue'
  <2> SUFFICES ASSUME NEW s \in Session, NEW n \in 1..Len(reports'[s])
               PROVE  IsTrue(reports[s][n])'
    BY DEF ReportsAreTrue
  <2>1. CASE n \in 1..Len(reports[s]) /\ reports'[s][n] = reports[s][n]
    <3>1. IsTrue(reports[s][n]) /\ reports[s][n][1] \in Id
      BY <2>1 DEF MarketInv, MarketTypes, ReportsAreTrue
    <3> QED
      BY <1>2, <1>5, <2>1, <3>1 DEF IsTrue
  <2>2. CASE reports'[s][n] = <<id, word>>
    BY <1>5, <2>2 DEF IsTrue
  <2> QED
    BY <1>4, <2>1, <2>2
<1>10. EndingsArrive'
  <2>1. \A k \in Id : Announced(k) => Announced(k)'
    BY <1>4 DEF Announced, Id
  <2>2. Heard(id[1]) => Announced(id)'
    BY <1>3, <1>4 DEF Announced
  <2> QED
    BY <1>2, <1>5, <2>1, <2>2 DEF MarketInv, EndingsArrive, Heard, Alive
<1> QED
  BY <1>6, <1>7, <1>8, <1>9, <1>10 DEF MarketInv

\* The reader thread folds the report that came first into its order's row.
LEMMA CallbackKeeps ==
    ASSUME MarketInv, KeyInv', NEW s \in Session, Callback(s)
    PROVE  MarketInv'
<1> DEFINE q == reports[s]
           id == Head(q)[1]
           word == Head(q)[2]
           target == MapStatus(word, "")
<1>1. /\ q # <<>> /\ reports' = [reports EXCEPT ![s] = Tail(q)]
      /\ UNCHANGED <<placed, market, link, located, missed, queue, task, session, sessions>>
  BY DEF Callback, messageVars, processVars
<1>2. \/ row[id] = "absent" /\ early' = early \cup {id} /\ row' = row
      \/ row[id] # "absent" /\ row' = [row EXCEPT ![id] = Fold(row[id], target)] /\ early' = early
  BY DEF Callback, RowKey
<1>3. /\ reports \in [Session -> Seq(Id \X Words)] /\ q \in Seq(Id \X Words)
  BY DEF MarketInv, MarketTypes
<1>4. /\ Len(q) \in Nat /\ 1 \in 1..Len(q) /\ Head(q) = q[1]
      /\ Tail(q) \in Seq(Id \X Words) /\ Len(Tail(q)) = Len(q) - 1
      /\ \A n \in 1..Len(Tail(q)) : n + 1 \in 1..Len(q) /\ Tail(q)[n] = q[n + 1]
      /\ \A n \in 1..Len(q) : n = 1 \/ (n - 1 \in 1..Len(Tail(q)) /\ Tail(q)[n - 1] = q[n])
  <2> HIDE DEF q
  <2>1. /\ Len(q) \in Nat /\ Len(q) > 0 /\ Head(q) = q[1]
        /\ Tail(q) \in Seq(Id \X Words) /\ Len(Tail(q)) = Len(q) - 1
        /\ \A n \in 1..Len(Tail(q)) : Tail(q)[n] = q[n + 1]
    BY <1>1, <1>3, HeadTailProperties
  <2> QED
    BY <2>1
<1>5. id \in Id /\ word \in Words /\ Head(q) = <<id, word>> /\ IsTrue(Head(q))
  <2>1. Head(q) \in Id \X Words
    BY <1>3, <1>4
  <2>2. IsTrue(q[1])
    BY <1>4 DEF MarketInv, ReportsAreTrue
  <2> QED
    BY <1>4, <2>1, <2>2
<1>6. /\ reports' \in [Session -> Seq(Id \X Words)] /\ reports'[s] = Tail(q)
      /\ \A r \in Session : r # s => reports'[r] = reports[r]
  BY <1>1, <1>3, <1>4
<1> HIDE DEF q, id, word
<1>7. /\ row' \in [Id -> RowStatus]
      /\ \A k \in Id \ {id} : row'[k] = row[k]
      /\ \A k \in Id : row[k] = "absent" <=> row'[k] = "absent"
      /\ \A k \in Id : row[k] \in Terminal => row'[k] \in Terminal
      /\ row'[id] = row[id] \/ row'[id] = target
      /\ word \in Closing => id \in early' \/ row'[id] \in Terminal
      /\ early \subseteq early'
  <2>1. row \in [Id -> RowStatus] /\ target \in Reportable
    BY <1>5, WordsMap DEF MarketInv, MarketTypes
  <2> HIDE DEF target
  <2>2. CASE row[id] = "absent"
    BY <1>2, <1>5, <2>1, <2>2
  <2>3. CASE row[id] # "absent"
    <3>1. row[id] \in RowStatus \ {"absent"}
      BY <1>5, <2>1, <2>3
    <3>2. row'= [row EXCEPT ![id] = Fold(row[id], target)] /\ early' = early
      BY <1>2, <2>3
    <3>3. /\ Fold(row[id], target) \in RowStatus \ {"absent"}
          /\ Fold(row[id], target) \in {row[id], target}
          /\ row[id] \in Terminal => Fold(row[id], target) \in Terminal
          /\ word \in Closing => Fold(row[id], target) \in Terminal
      BY <1>5, <2>1, <3>1, FoldCloses, WordsMap DEF target
    <3>4. /\ row' \in [Id -> RowStatus] /\ row'[id] = Fold(row[id], target)
          /\ \A k \in Id \ {id} : row'[k] = row[k]
      BY <1>5, <2>1, <3>2, <3>3
    <3> QED
      BY <2>3, <3>2, <3>3, <3>4
  <2> QED
    BY <2>2, <2>3
<1>8. MarketTypes' /\ OneProcessPerSession' /\ Numbered' /\ KnownIfPlaced' /\ RegistersPlaced'
  BY <1>1, <1>6, <1>7 DEF MarketInv, MarketTypes, OneProcessPerSession, Numbered, KnownIfPlaced,
                          RegistersPlaced, Stage
<1>12. UnsentIsCut'
  BY <1>1 DEF MarketInv, UnsentIsCut
<1>9. ReportsAreTrue'
  <2> SUFFICES ASSUME NEW r \in Session, NEW n \in 1..Len(reports'[r])
               PROVE  IsTrue(reports[r][n])'
    BY DEF ReportsAreTrue
  <2>1. CASE r # s
    BY <1>1, <1>6, <2>1 DEF MarketInv, ReportsAreTrue, IsTrue
  <2>2. CASE r = s
    <3>1. n + 1 \in 1..Len(q) /\ reports'[r][n] = q[n + 1]
      BY <1>4, <1>6, <2>2
    <3>2. IsTrue(q[n + 1])
      BY <3>1 DEF q, MarketInv, ReportsAreTrue
    <3> QED
      BY <1>1, <3>1, <3>2 DEF IsTrue
  <2> QED
    BY <2>1, <2>2
<1>10. RowTellsTheMarket'
  <2>1. \A k \in Id \ {id} : row'[k] = row[k] /\ market'[k] = market[k]
    BY <1>1, <1>7
  <2>2. /\ target = "FILLED" => market[id] = "filled"
        /\ target = "CANCELED" => market[id] = "cancelled"
        /\ target = "REJECTED" => market[id] = "rejected" \/ id \in located
    <3>1. /\ word = "Filled" => market[id] = "filled"
          /\ word = "Inactive" => market[id] = "rejected" \/ id \in located
          /\ word = "Cancelled" => market[id] = "cancelled"
      BY <1>5 DEF IsTrue
    <3>2. /\ target = "FILLED" => word = "Filled"
          /\ target = "REJECTED" => word = "Inactive"
          /\ target = "CANCELED" => word = "Cancelled"
      BY <1>5, WordsMap
    <3> QED
      BY <3>1, <3>2
  <2> HIDE DEF target
  <2> QED
    BY <1>1, <1>7, <2>1, <2>2 DEF MarketInv, RowTellsTheMarket
<1>11. EndingsArrive'
  <2> SUFFICES ASSUME NEW k \in Id, market[k] \in Closed, row'[k] \notin Terminal,
                      k \notin early' \cup missed, Heard(k[1])
               PROVE  Announced(k)'
    BY <1>1 DEF EndingsArrive, Heard, Alive
  <2>1. Announced(k)
    BY <1>7 DEF MarketInv, EndingsArrive
  <2>2. PICK n \in 1..Len(reports[k[1]]) :
            reports[k[1]][n][1] = k /\ reports[k[1]][n][2] \in Closing
    BY <2>1 DEF Announced
  <2>3. k[1] \in Session
    BY DEF Id
  <2>4. CASE k[1] # s
    BY <1>6, <2>2, <2>3, <2>4 DEF Announced
  <2>5. CASE k[1] = s
    <3>1. n # 1
      <4>1. SUFFICES ASSUME n = 1 PROVE FALSE
        OBVIOUS
      <4>2. id = k /\ word \in Closing
        BY <1>4, <2>2, <2>5, <4>1 DEF id, word, q
      <4> QED
        BY <1>7, <4>2
    <3>2. n - 1 \in 1..Len(Tail(q)) /\ Tail(q)[n - 1] = q[n]
      BY <1>4, <2>2, <2>5, <3>1 DEF q
    <3> QED
      BY <1>6, <2>2, <2>5, <3>2 DEF Announced, q
  <2> QED
    BY <2>4, <2>5
<1> QED
  BY <1>8, <1>9, <1>10, <1>11, <1>12 DEF MarketInv

\* A report is lost with the call that failed, and perhaps the thread that reads all others.
LEMMA CallbackFailsKeeps ==
    ASSUME MarketInv, KeyInv', NEW s \in Session, CallbackFails(s)
    PROVE  MarketInv'
<1> DEFINE q == reports[s]
           id == Head(q)[1]
<1>1. /\ q # <<>> /\ missed' = missed \cup {id}
      /\ \/ reports' = [reports EXCEPT ![s] = Tail(q)] /\ link' = link
         \/ /\ reports' = [reports EXCEPT ![s] = <<>>]
            /\ link' = [link EXCEPT ![s] = IF link[s] = "up" THEN "deaf" ELSE link[s]]
      /\ UNCHANGED <<placed, market, located, row, early, queue, task, session, sessions>>
  BY DEF CallbackFails, RowKey, messageVars, processVars
<1>2. /\ reports \in [Session -> Seq(Id \X Words)] /\ q \in Seq(Id \X Words)
      /\ link \in [Session -> Link]
  BY DEF MarketInv, MarketTypes
<1>3. /\ Len(q) \in Nat /\ 1 \in 1..Len(q) /\ Head(q) = q[1]
      /\ Tail(q) \in Seq(Id \X Words) /\ Len(Tail(q)) = Len(q) - 1
      /\ \A n \in 1..Len(Tail(q)) : n + 1 \in 1..Len(q) /\ Tail(q)[n] = q[n + 1]
      /\ \A n \in 1..Len(q) : n = 1 \/ (n - 1 \in 1..Len(Tail(q)) /\ Tail(q)[n - 1] = q[n])
  <2> HIDE DEF q
  <2>1. /\ Len(q) \in Nat /\ Len(q) > 0 /\ Head(q) = q[1]
        /\ Tail(q) \in Seq(Id \X Words) /\ Len(Tail(q)) = Len(q) - 1
        /\ \A n \in 1..Len(Tail(q)) : Tail(q)[n] = q[n + 1]
    BY <1>1, <1>2, HeadTailProperties
  <2> QED
    BY <2>1
<1>4. /\ link' \in [Session -> Link]
      /\ \A r \in Session : /\ link[r] = "cut" => link'[r] = "cut"
                           /\ link'[r] = "up" => link[r] = "up"
  BY <1>1, <1>2 DEF Link
<1>5. /\ reports' \in [Session -> Seq(Id \X Words)]
      /\ \A r \in Session : r # s => reports'[r] = reports[r]
      /\ reports'[s] = Tail(q) \/ (reports'[s] = <<>> /\ link'[s] # "up")
  <2>1. <<>> \in Seq(Id \X Words)
    OBVIOUS
  <2> QED
    BY <1>1, <1>2, <1>3, <2>1
<1> HIDE DEF q, id
<1>6. MarketTypes' /\ OneProcessPerSession' /\ Numbered' /\ KnownIfPlaced' /\ RegistersPlaced'
      /\ RowTellsTheMarket'
  BY <1>1, <1>4, <1>5 DEF MarketInv, MarketTypes, OneProcessPerSession, Numbered, KnownIfPlaced,
                          RegistersPlaced, Stage, RowTellsTheMarket
<1>7. UnsentIsCut'
  BY <1>1, <1>4 DEF MarketInv, UnsentIsCut, Id
<1>8. ReportsAreTrue'
  <2> SUFFICES ASSUME NEW r \in Session, NEW n \in 1..Len(reports'[r])
               PROVE  IsTrue(reports[r][n])'
    BY DEF ReportsAreTrue
  <2>1. CASE r # s
    BY <1>1, <1>5, <2>1 DEF MarketInv, ReportsAreTrue, IsTrue
  <2>2. CASE r = s
    <3>1. reports'[r] = Tail(q)
      BY <1>5, <2>2
    <3>2. n + 1 \in 1..Len(q) /\ reports'[r][n] = q[n + 1]
      BY <1>3, <2>2, <3>1
    <3>3. IsTrue(q[n + 1])
      BY <3>2 DEF q, MarketInv, ReportsAreTrue
    <3> QED
      BY <1>1, <3>2, <3>3 DEF IsTrue
  <2> QED
    BY <2>1, <2>2
<1>9. EndingsArrive'
  <2> SUFFICES ASSUME NEW k \in Id, market[k] \in Closed, row[k] \notin Terminal,
                      k \notin early \cup missed', Heard(k[1])'
               PROVE  Announced(k)'
    BY <1>1 DEF EndingsArrive
  <2>1. k[1] \in Session
    BY DEF Id
  <2>2. Heard(k[1])
    BY <1>1, <1>4, <2>1 DEF Heard, Alive
  <2>3. Announced(k)
    BY <1>1, <2>2 DEF MarketInv, EndingsArrive
  <2>4. PICK n \in 1..Len(reports[k[1]]) :
            reports[k[1]][n][1] = k /\ reports[k[1]][n][2] \in Closing
    BY <2>3 DEF Announced
  <2>5. CASE k[1] # s
    BY <1>5, <2>1, <2>4, <2>5 DEF Announced
  <2>6. CASE k[1] = s
    <3>1. n # 1
      <4>1. SUFFICES ASSUME n = 1 PROVE FALSE
        OBVIOUS
      <4>2. id = k
        BY <1>3, <2>4, <2>6, <4>1 DEF id, q
      <4> QED
        BY <1>1, <4>2
    <3>2. n - 1 \in 1..Len(Tail(q)) /\ Tail(q)[n - 1] = q[n]
      BY <1>3, <2>4, <2>6, <3>1 DEF q
    <3>3. reports'[s] = Tail(q)
      BY <1>5, <2>6 DEF Heard
    <3> QED
      BY <2>4, <2>6, <3>2, <3>3 DEF Announced, q
  <2> QED
    BY <2>5, <2>6
<1> QED
  BY <1>6, <1>7, <1>8, <1>9 DEF MarketInv

\* What is left of the reports on a lost connection was among them before.
LEMMA DisconnectKeeps ==
    ASSUME MarketInv, KeyInv', NEW w \in Worker, Disconnect(w)
    PROVE  MarketInv'
<1> DEFINE s == session[w]
           q == reports[s]
<1>1. /\ s # None /\ link' = [link EXCEPT ![s] = "cut"]
      /\ UNCHANGED <<placed, market, located, row, early, missed, queue, task, session, sessions>>
  BY DEF Disconnect, Up, messageVars, ledgerVars, processVars
<1>2. PICK n \in 0..Len(q) : reports' = [reports EXCEPT ![s] = SubSeq(q, 1, n)]
  BY DEF Disconnect
<1>3. /\ reports \in [Session -> Seq(Id \X Words)] /\ link \in [Session -> Link]
  BY DEF MarketInv, MarketTypes
<1>4. /\ link' \in [Session -> Link]
      /\ \A r \in Session : link'[r] = IF r = s THEN "cut" ELSE link[r]
  BY <1>1, <1>3 DEF Link
<1>5. /\ reports' \in [Session -> Seq(Id \X Words)]
      /\ \A r \in Session : r # s => reports'[r] = reports[r]
      /\ \A r \in Session : \A i \in 1..Len(reports'[r]) :
             i \in 1..Len(reports[r]) /\ reports'[r][i] = reports[r][i]
  <2>1. CASE s \notin Session
    BY <1>2, <1>3, <2>1
  <2>2. CASE s \in Session
    <3>1. q \in Seq(Id \X Words)
      BY <1>3, <2>2
    <3> HIDE DEF q
    <3>2. /\ SubSeq(q, 1, n) \in Seq(Id \X Words) /\ Len(SubSeq(q, 1, n)) = n
          /\ \A i \in 1..n : i \in 1..Len(q) /\ SubSeq(q, 1, n)[i] = q[i]
      <4>1. Len(q) \in Nat /\ n \in Nat /\ n <= Len(q)
        BY <3>1
      <4>2. \A i \in 1..n : q[i] \in Id \X Words
        BY <3>1, <4>1
      <4> QED
        BY <3>1, <4>1, <4>2
    <3> QED
      BY <1>2, <1>3, <2>2, <3>2 DEF q
  <2> QED
    BY <2>1, <2>2
<1> HIDE DEF s, q
<1>6. MarketTypes' /\ OneProcessPerSession' /\ Numbered' /\ KnownIfPlaced' /\ RegistersPlaced'
      /\ RowTellsTheMarket'
  BY <1>1, <1>4, <1>5 DEF MarketInv, MarketTypes, OneProcessPerSession, Numbered, KnownIfPlaced,
                          RegistersPlaced, Stage, RowTellsTheMarket
<1>7. UnsentIsCut'
  BY <1>1, <1>4 DEF MarketInv, UnsentIsCut, Id
<1>8. ReportsAreTrue'
  BY <1>1, <1>5 DEF MarketInv, ReportsAreTrue, IsTrue
<1>9. EndingsArrive'
  <2> SUFFICES ASSUME NEW k \in Id, market[k] \in Closed, row[k] \notin Terminal,
                      k \notin early \cup missed, Heard(k[1])'
               PROVE  Announced(k)'
    BY <1>1 DEF EndingsArrive
  <2>1. k[1] \in Session /\ k[1] # s /\ Heard(k[1])
    BY <1>1, <1>4 DEF Heard, Alive, Id
  <2>2. Announced(k)
    BY <2>1 DEF MarketInv, EndingsArrive
  <2> QED
    BY <1>5, <2>1, <2>2 DEF Announced
<1> QED
  BY <1>6, <1>7, <1>8, <1>9 DEF MarketInv

\* A process starts, in a session that has placed nothing.
LEMMA StartKeeps ==
    ASSUME MarketInv, KeyInv', NEW w \in Worker, Start(w)
    PROVE  MarketInv'
<1>1. /\ sessions' = sessions + 1 /\ session' = [session EXCEPT ![w] = sessions + 1]
      /\ UNCHANGED <<queue, task, placed, market, link, reports, located, row, early, missed>>
  BY DEF Start, messageVars, brokerVars, ledgerVars
<1>2. /\ sessions \in Nat /\ session \in [Worker -> (1..sessions) \cup {None}]
      /\ None # sessions + 1
  BY WorkerAssumption DEF MarketInv, MarketTypes
<1>3. /\ session'[w] = sessions + 1 /\ \A v \in Worker \ {w} : session'[v] = session[v]
      /\ \A v \in Worker : session[v] # sessions + 1
  BY <1>1, <1>2
<1>4. MarketTypes'
  <2>1. (1..sessions) \cup {sessions + 1} \subseteq 1..sessions' /\ sessions' \in Nat
    BY <1>1, <1>2
  <2>2. session' \in [Worker -> (1..sessions') \cup {None}]
    BY <1>1, <1>2, <2>1
  <2> QED
    BY <1>1, <2>1, <2>2 DEF MarketInv, MarketTypes
<1>5. OneProcessPerSession'
  BY <1>3 DEF MarketInv, OneProcessPerSession
<1>6. Numbered' /\ RegistersPlaced' /\ ReportsAreTrue' /\ RowTellsTheMarket' /\ UnsentIsCut'
  BY <1>1 DEF MarketInv, Numbered, RegistersPlaced, Stage, ReportsAreTrue, IsTrue, RowTellsTheMarket,
              UnsentIsCut
<1>7. KnownIfPlaced'
  <2>1. \A id \in Id : id[1] \in Int /\ (id[1] <= sessions => id[1] <= sessions')
    BY <1>1, <1>2, WorkerAssumption DEF Id, Session
  <2> QED
    BY <1>1, <2>1 DEF MarketInv, KnownIfPlaced
<1>8. EndingsArrive'
  <2> SUFFICES ASSUME NEW id \in Id, market[id] \in Closed, row[id] \notin Terminal,
                      id \notin early \cup missed, Heard(id[1])'
               PROVE  Announced(id)'
    BY <1>1 DEF EndingsArrive
  <2>1. placed[id] # None
    BY DEF MarketInv, KnownIfPlaced, Closed
  <2>2. id[1] # sessions + 1
    <3>1. id[1] <= sessions
      BY <2>1 DEF MarketInv, KnownIfPlaced
    <3> QED
      BY <1>2, <3>1
  <2>3. Heard(id[1])
    BY <1>1, <1>3, <2>2 DEF Heard, Alive
  <2>4. Announced(id)
    BY <2>3 DEF MarketInv, EndingsArrive
  <2> QED
    BY <1>1, <2>4 DEF Announced
<1> QED
  BY <1>4, <1>5, <1>6, <1>7, <1>8 DEF MarketInv

\* A process dies, and nobody is left to hear what becomes of its session's orders.
LEMMA CrashKeeps ==
    ASSUME MarketInv, KeyInv', NEW w \in Worker, Crash(w)
    PROVE  MarketInv'
<1> DEFINE s == session[w]
<1>1. /\ s # None /\ session' = [session EXCEPT ![w] = None]
      /\ reports' = [reports EXCEPT ![s] = <<>>]
      /\ UNCHANGED <<queue, sessions, placed, market, link, located, row, early, missed>>
  BY DEF Crash, Up, ledgerVars
<1>2. \A a \in Account : task'[a] # None => task'[a] = task[a]
  BY DEF Crash
<1>3. /\ session'[w] = None /\ \A v \in Worker \ {w} : session'[v] = session[v]
  BY <1>1 DEF MarketInv, MarketTypes
<1>4. /\ reports' \in [Session -> Seq(Id \X Words)]
      /\ \A r \in Session : reports'[r] = IF r = s THEN <<>> ELSE reports[r]
  <2>1. reports \in [Session -> Seq(Id \X Words)] /\ <<>> \in Seq(Id \X Words)
    BY DEF MarketInv, MarketTypes
  <2> QED
    BY <1>1, <2>1
<1>5. MarketTypes'
  BY <1>1, <1>4 DEF MarketInv, MarketTypes
<1>6. OneProcessPerSession'
  BY <1>3 DEF MarketInv, OneProcessPerSession
<1>7. Numbered' /\ KnownIfPlaced' /\ RowTellsTheMarket' /\ UnsentIsCut'
  BY <1>1 DEF MarketInv, Numbered, KnownIfPlaced, RowTellsTheMarket, UnsentIsCut
<1>8. RegistersPlaced'
  BY <1>1, <1>2 DEF MarketInv, RegistersPlaced, Stage
<1>9. ReportsAreTrue'
  <2> SUFFICES ASSUME NEW r \in Session, NEW n \in 1..Len(reports'[r])
               PROVE  IsTrue(reports[r][n])'
    BY DEF ReportsAreTrue
  <2>1. r # s
    BY <1>4
  <2> QED
    BY <1>1, <1>4, <2>1 DEF MarketInv, ReportsAreTrue, IsTrue
<1>10. EndingsArrive'
  <2> SUFFICES ASSUME NEW id \in Id, market[id] \in Closed, row[id] \notin Terminal,
                      id \notin early \cup missed, Heard(id[1])'
               PROVE  Announced(id)'
    BY <1>1 DEF EndingsArrive
  <2>1. PICK v \in Worker : session'[v] = id[1]
    BY DEF Heard, Alive
  <2>2. id[1] \in Session /\ id[1] # None
    BY WorkerAssumption DEF Id, Session
  <2>3. v # w /\ session[v] = id[1]
    BY <1>3, <2>1, <2>2
  <2>4. id[1] # s
    BY <1>1, <2>3 DEF MarketInv, OneProcessPerSession
  <2>5. Announced(id)
    BY <1>1, <2>3 DEF MarketInv, EndingsArrive, Heard, Alive
  <2> QED
    BY <1>4, <2>2, <2>4, <2>5 DEF Announced
<1> QED
  BY <1>5, <1>6, <1>7, <1>8, <1>9, <1>10 DEF MarketInv

\* Every step keeps what rows, reports and the broker tell of each other.
LEMMA MarketStep == MarketInv /\ [Next]_vars => MarketInv'
<1> SUFFICES ASSUME MarketInv, [Next]_vars
             PROVE  MarketInv'
  OBVIOUS
<1>1. KeyInv'
  BY KeyInvStep DEF MarketInv
<1>2. ASSUME NEW p \in Proposal, Deliver(p) \/ ExpireKey(p)
      PROVE  MarketInv'
  <2>1. CASE Deliver(p)
    <3>1. queue' = [queue EXCEPT ![AccountOf[p]] = Append(queue[AccountOf[p]], p)]
      BY <2>1 DEF Deliver
    <3>2. ASSUME NEW a \in Account, queue[a] # <<>>
          PROVE  Head(queue'[a]) = Head(queue[a])
      <4>1. queue \in [Account -> Seq(Proposal)] /\ queue[a] \in Seq(Proposal)
        BY DEF MarketInv, KeyInv, KeyTypes
      <4>2. Head(Append(queue[a], p)) = Head(queue[a])
        BY <3>2, <4>1, AppendProperties
      <4> QED
        BY <3>1, <4>1, <4>2
    <3>3. \A a \in Account : task[a] # None => queue[a] # <<>>
      BY DEF MarketInv, KeyInv, TaskHasMessage
    <3>4. UNCHANGED <<task, session, sessions, brokerVars, ledgerVars>>
      BY <2>1 DEF Deliver, processVars
    <3>5. \A a \in Account : Stage(a, "placed")' =>
              /\ Stage(a, "placed") /\ task'[a].order = task[a].order
              /\ Head(queue'[a]) = Head(queue[a])
      BY <3>2, <3>3, <3>4 DEF Stage
    <3> QED
      BY <1>1, <3>4, <3>5, ElsewhereKeeps
  <2>2. CASE ExpireKey(p)
    BY <1>1, <2>2, ElsewhereKeeps DEF ExpireKey, Stage, processVars
  <2> QED
    BY <1>2, <2>1, <2>2
<1>3. ASSUME NEW a \in Account, Consume(a)
      PROVE  MarketInv'
  <2>1. PlaceOrder(a) => MarketInv'
    BY <1>1, PlaceKeeps
  <2>2. Register(a) => MarketInv'
    BY <1>1, RegisterKeeps
  <2>3. ASSUME NEW w \in Worker, FirstSeen(w, a)
        PROVE  MarketInv'
    <3>1. /\ task' = [task EXCEPT ![a] = [worker |-> w, stage |-> "guarded", order |-> None]]
          /\ UNCHANGED <<queue, session, sessions, brokerVars, ledgerVars>>
      BY <2>3 DEF FirstSeen, processVars
    <3>2. \A b \in Account : Stage(b, "placed")' => Stage(b, "placed") /\ task'[b] = task[b]
      BY <3>1 DEF Stage, MarketInv, KeyInv, KeyTypes
    <3> QED
      BY <1>1, <3>1, <3>2, ElsewhereKeeps
  <2>4. ASSUME Throw(a)
        PROVE  MarketInv'
    <3>1. /\ task' = [task EXCEPT ![a] = None]
          /\ UNCHANGED <<queue, session, sessions, brokerVars, ledgerVars>>
      BY <2>4 DEF Throw, processVars
    <3>2. \A b \in Account : Stage(b, "placed")' => Stage(b, "placed") /\ task'[b] = task[b]
      BY <3>1 DEF Stage, MarketInv, KeyInv, KeyTypes
    <3> QED
      BY <1>1, <3>1, <3>2, ElsewhereKeeps
  <2>5. ASSUME (\E w \in Worker : Skip(w, a)) \/ Finish(a)
        PROVE  MarketInv'
    <3>1. /\ task' = [task EXCEPT ![a] = None] /\ queue' = [queue EXCEPT ![a] = Tail(queue[a])]
          /\ UNCHANGED <<session, sessions, brokerVars, ledgerVars>>
      BY <2>5 DEF Skip, Finish, Acknowledge, processVars
    <3>2. \A b \in Account : Stage(b, "placed")' =>
              b # a /\ Stage(b, "placed") /\ task'[b] = task[b]
      BY <3>1 DEF Stage, MarketInv, KeyInv, KeyTypes
    <3>3. \A b \in Account : b # a => queue'[b] = queue[b]
      BY <3>1 DEF MarketInv, KeyInv, KeyTypes
    <3> QED
      BY <1>1, <3>1, <3>2, <3>3, ElsewhereKeeps
  <2> QED
    BY <1>3, <2>1, <2>2, <2>3, <2>4, <2>5 DEF Consume
<1>4. ASSUME NEW id \in Id, BrokerTells(id) \/ BrokerCloses(id) \/ TimeOut(id) \/ LockLapses(id)
      PROVE  MarketInv'
  <2>1. CASE TimeOut(id) \/ LockLapses(id)
    <3>1. UNCHANGED <<messageVars, session, sessions, brokerVars, ledgerVars>>
      BY <2>1 DEF TimeOut, TimeoutReads, TimeoutMisses, TryLockRaises, TimeoutCancels,
                  TimeoutThrows, LockLapses, processVars
    <3> QED
      BY <1>1, <3>1, ElsewhereKeeps DEF Stage, messageVars
  <2> QED
    BY <1>1, <1>4, <2>1, TellsKeeps, ClosesKeeps
<1>5. ASSUME NEW s \in Session, Callback(s) \/ CallbackFails(s)
      PROVE  MarketInv'
  BY <1>1, <1>5, CallbackKeeps, CallbackFailsKeeps
<1>6. ASSUME NEW w \in Worker, Start(w) \/ Crash(w) \/ Disconnect(w)
      PROVE  MarketInv'
  BY <1>1, <1>6, StartKeeps, CrashKeeps, DisconnectKeeps
<1>7. CASE UNCHANGED vars
  BY <1>1, <1>7, ElsewhereKeeps DEF vars, Stage, brokerVars, ledgerVars
<1> QED
  BY <1>2, <1>3, <1>4, <1>5, <1>6, <1>7 DEF Next

\* The second invariant is inductive, on top of the first.
THEOREM MarketInductive == Spec => []MarketInv
<1>1. Init => MarketInv
  <2> SUFFICES ASSUME Init
               PROVE  MarketInv
    OBVIOUS
  <2>1. Init => KeyInv
    BY KeyInvInit
  <2>2. MarketTypes
    BY DEF Init, MarketTypes, Market, RowStatus, Link
  <2>3. OneProcessPerSession /\ RegistersPlaced
    BY DEF Init, OneProcessPerSession, RegistersPlaced, Stage
  <2>4. Numbered
    <3>1. \A s \in Session : \A n \in 1..MaxOrder : placed[<<s, n>>] = None
      BY DEF Init, Id
    <3>2. 0 \in 0..MaxOrder /\ \A n \in 1..MaxOrder : ~(n <= 0)
      BY WorkerAssumption
    <3> QED
      BY <3>1, <3>2 DEF Numbered
  <2>5. KnownIfPlaced /\ UnsentIsCut /\ ReportsAreTrue /\ RowTellsTheMarket /\ EndingsArrive
    BY DEF Init, KnownIfPlaced, UnsentIsCut, ReportsAreTrue, RowTellsTheMarket, EndingsArrive,
           Closed
  <2> QED
    BY <2>1, <2>2, <2>3, <2>4, <2>5 DEF MarketInv
<1> QED
  BY <1>1, MarketStep, PTL DEF Spec

\* A row never tells an ending that is not its own order's, however the sessions
\* that reuse the broker's numbers follow each other and whatever reports are lost,
\* but for REJECTED of an order that is held for a locate (OrderTracker.onStatus and
\* IbkrBrokerAdapter's order ids and orderStatus).
THEOREM RowsTellTheTruth == Spec => []RowTellsTheMarket
<1>1. MarketInv => RowTellsTheMarket
  BY DEF MarketInv
<1> QED
  BY <1>1, MarketInductive, PTL

\* A row is open after its order has ended, or though it was never sent, only if the
\* report is still to be read, came before the row was written, was lost with a call
\* of the database, or had no reader, connection or process to come to.
THEOREM RowsAreBehindForAReason == Spec => []BehindForAReason
<1>1. MarketInv => BehindForAReason
  <2> SUFFICES ASSUME MarketInv, NEW id \in Id, row[id] \notin Terminal \cup {"absent"},
                      market[id] # "open", id \notin early \cup missed, Heard(id[1])
               PROVE  \E n \in 1..Len(reports[id[1]]) : reports[id[1]][n][1] = id
    BY DEF BehindForAReason
  <2>1. market[id] \in Closed
    BY DEF MarketInv, MarketTypes, Market, KnownIfPlaced, UnsentIsCut, Heard, Closed
  <2> QED
    BY <2>1 DEF MarketInv, EndingsArrive, Announced
<1> QED
  BY <1>1, MarketInductive, PTL

-----------------------------------------------------------------------------
(* Timers: what is still to be done about an order is about an order that the   *)
(* broker has, since onMessage schedules after it has placed and registered.    *)

TimerTypes ==
    /\ timer \in [Id -> Nat]
    /\ check \in [Worker -> Id \cup {None}]
    /\ dropped \in [Id -> Nat]
TimersArePlaced == \A id \in Id : Pending(id) => placed[id] # None
CallsPlaced ==
    \A a \in Account :
        Stage(a, "placed") \/ Stage(a, "registered") =>
            task[a].order \in Id /\ placed[task[a].order] # None

TimerInv == KeyInv /\ TimerTypes /\ TimersArePlaced /\ CallsPlaced

LEMMA IdIsNotNone == None \notin Id
BY WorkerAssumption DEF Id, Session

\* An order at the broker stays known to it.
LEMMA PlacedStays ==
    ASSUME KeyInv, [Next]_vars, NEW id \in Id, placed[id] # None
    PROVE  placed'[id] # None
<1>1. CASE UNCHANGED placed
  BY <1>1
<1>2. ASSUME NEW a \in Account, PlaceOrder(a)
      PROVE  placed'[id] # None
  <2>1. queue[a] # <<>>
    BY <1>2 DEF PlaceOrder, Stage, KeyInv, TaskHasMessage
  <2>2. Head(queue[a]) # None
    BY <2>1, QueueParts, WorkerAssumption DEF KeyInv
  <2> QED
    BY <1>2, <2>2 DEF PlaceOrder, KeyInv, KeyTypes
<1>3. UNCHANGED placed \/ \E a \in Account : PlaceOrder(a)
  <2>1. CASE UNCHANGED vars
    BY <2>1 DEF vars
  <2>2. ASSUME NEW p \in Proposal, Deliver(p) \/ ExpireKey(p)
        PROVE  UNCHANGED placed
    BY <2>2 DEF Deliver, ExpireKey, brokerVars
  <2>3. ASSUME NEW a \in Account, Consume(a), ~PlaceOrder(a)
        PROVE  UNCHANGED placed
    BY <2>3 DEF Consume, Skip, FirstSeen, Register, Finish, Throw, brokerVars
  <2>4. ASSUME NEW i \in Id, BrokerTells(i) \/ BrokerCloses(i) \/ TimeOut(i) \/ LockLapses(i)
        PROVE  UNCHANGED placed
    BY <2>4 DEF BrokerTells, BrokerCloses, TimeOut, TimeoutReads, TimeoutMisses,
                TryLockRaises, TimeoutCancels, TimeoutThrows, LockLapses, brokerVars
  <2>5. ASSUME NEW s \in Session, Callback(s) \/ CallbackFails(s)
        PROVE  UNCHANGED placed
    BY <2>5 DEF Callback, CallbackFails
  <2>6. ASSUME NEW w \in Worker, Start(w) \/ Crash(w) \/ Disconnect(w)
        PROVE  UNCHANGED placed
    BY <2>6 DEF Start, Crash, Disconnect, brokerVars
  <2> QED
    BY <2>1, <2>2, <2>3, <2>4, <2>5, <2>6 DEF Next
<1> QED
  BY <1>1, <1>2, <1>3

\* A step that moves no timer and after which no call is newly past the placing.
LEMMA TimersElsewhere ==
    ASSUME TimerInv, KeyInv', [Next]_vars, UNCHANGED <<timer, check, dropped>>,
           \A a \in Account : Stage(a, "placed")' \/ Stage(a, "registered")' =>
               /\ Stage(a, "placed") \/ Stage(a, "registered")
               /\ task'[a].order = task[a].order
    PROVE  TimerInv' /\ \A id \in Id : EndsForAReason(id)
<1>1. KeyInv
  BY DEF TimerInv
<1>2. \A id \in Id : Pending(id)' = Pending(id)
  BY DEF Pending, Checked
<1>3. TimersArePlaced'
  BY <1>1, <1>2, PlacedStays DEF TimerInv, TimersArePlaced
<1>4. CallsPlaced'
  BY <1>1, PlacedStays DEF TimerInv, CallsPlaced
<1> QED
  BY <1>2, <1>3, <1>4 DEF TimerInv, TimerTypes, EndsForAReason

\* placeOrder gives the call an order that the broker has.
LEMMA PlaceKeepsTimers ==
    ASSUME TimerInv, KeyInv', [Next]_vars, NEW a \in Account, PlaceOrder(a)
    PROVE  TimerInv' /\ \A id \in Id : EndsForAReason(id)
<1> DEFINE new == <<session[task[a].worker], Used(session[task[a].worker]) + 1>>
<1>1. /\ Stage(a, "guarded") /\ new \in Id
      /\ placed' = [placed EXCEPT ![new] = Head(queue[a])]
      /\ task' = [task EXCEPT ![a].stage = "placed", ![a].order = new]
      /\ UNCHANGED <<timer, check, dropped>>
  BY DEF PlaceOrder, timeoutVars
<1>2. KeyInv
  BY DEF TimerInv
<1>3. placed'[new] # None
  <2>1. queue[a] # <<>>
    BY <1>1, <1>2 DEF Stage, KeyInv, TaskHasMessage
  <2>2. Head(queue[a]) # None
    BY <1>2, <2>1, QueueParts, WorkerAssumption DEF KeyInv
  <2> QED
    BY <1>1, <1>2, <2>2 DEF KeyInv, KeyTypes
<1>4. \A id \in Id : Pending(id)' = Pending(id)
  BY <1>1 DEF Pending, Checked
<1>5. TimersArePlaced'
  BY <1>2, <1>4, PlacedStays DEF TimerInv, TimersArePlaced
<1>6. CallsPlaced'
  <2> SUFFICES ASSUME NEW b \in Account, Stage(b, "placed")' \/ Stage(b, "registered")'
               PROVE  task'[b].order \in Id /\ placed'[task'[b].order] # None
    BY DEF CallsPlaced
  <2>1. CASE b = a
    <3>1. task[a] \in [worker : Worker, stage : {"guarded", "placed", "registered"},
                       order : Id \cup {None}]
      BY <1>1, <1>2 DEF Stage, KeyInv, KeyTypes
    <3>2. task'[a].order = new
      BY <1>1, <1>2, <3>1 DEF KeyInv, KeyTypes
    <3> QED
      BY <1>1, <1>3, <2>1, <3>2
  <2>2. CASE b # a
    <3>1. task'[b] = task[b]
      BY <1>1, <1>2, <2>2 DEF KeyInv, KeyTypes
    <3> QED
      BY <1>2, <3>1, PlacedStays DEF TimerInv, CallsPlaced, Stage
  <2> QED
    BY <2>1, <2>2
<1> QED
  BY <1>1, <1>4, <1>5, <1>6 DEF TimerInv, TimerTypes, EndsForAReason

\* The delayed messages are of the order that was placed.
LEMMA FinishKeepsTimers ==
    ASSUME TimerInv, KeyInv', [Next]_vars, NEW a \in Account, Finish(a)
    PROVE  TimerInv' /\ \A id \in Id : EndsForAReason(id)
<1> DEFINE o == task[a].order
<1>1. KeyInv
  BY DEF TimerInv
<1>2. /\ Stage(a, "registered") /\ UNCHANGED <<check, dropped, placed>>
      /\ task' = [task EXCEPT ![a] = None]
      /\ timer' = timer \/ \E n \in {1, 2} : timer' = [timer EXCEPT ![o] = n]
  BY DEF Finish, Acknowledge, brokerVars
<1>3. o \in Id /\ placed[o] # None
  BY <1>2 DEF TimerInv, CallsPlaced
<1>4. /\ timer' \in [Id -> Nat]
      /\ \A id \in Id : timer'[id] = timer[id] \/ (id = o /\ timer'[id] > 0)
  BY <1>2, <1>3 DEF TimerInv, TimerTypes
<1>5. \A id \in Id : /\ Pending(id) => Pending(id)'
                     /\ Pending(id)' => Pending(id) \/ id = o
  BY <1>2, <1>4 DEF Pending, Checked
<1>6. TimersArePlaced'
  BY <1>2, <1>3, <1>5 DEF TimerInv, TimersArePlaced
<1>7. CallsPlaced'
  BY <1>1, <1>2 DEF TimerInv, CallsPlaced, Stage, KeyInv, KeyTypes
<1> QED
  BY <1>2, <1>4, <1>5, <1>6, <1>7 DEF TimerInv, TimerTypes, EndsForAReason

\* What a terminal row tells of the order at the broker.
LEMMA TerminalIsOver ==
    ASSUME MarketInv, NEW id \in Id, row[id] \in Terminal
    PROVE  market[id] # "open" \/ (row[id] = "REJECTED" /\ id \in located)
<1>1. row[id] \in {"FILLED", "CANCELED", "REJECTED"}
  BY DEF MarketInv, MarketTypes, RowStatus, Reportable, Terminal
<1> QED
  BY <1>1 DEF MarketInv, RowTellsTheMarket

\* A listener takes a message; it keeps the order's lock, finds it held or left behind,
\* or finds the order closed.
LEMMA TimeoutStarts ==
    ASSUME MarketInv, TimerInv, KeyInv', [Next]_vars, NEW w \in Worker, NEW i \in Id,
           TimeoutReads(w, i) \/ TimeoutMisses(w, i)
    PROVE  TimerInv' /\ \A id \in Id : EndsForAReason(id)
<1>1. /\ timer[i] > 0 /\ check[w] = None /\ timer' = [timer EXCEPT ![i] = @ - 1]
      /\ UNCHANGED <<placed, task, dropped>>
      /\ \/ check' = [check EXCEPT ![w] = i]
         \/ check' = check /\ (row[i] \in Terminal \/ LockHeld(i))
  BY DEF TimeoutReads, TimeoutMisses, messageVars, brokerVars
<1>2. /\ timer \in [Id -> Nat] /\ check \in [Worker -> Id \cup {None}]
      /\ dropped \in [Id -> Nat]
  BY DEF TimerInv, TimerTypes
<1>3. /\ timer' \in [Id -> Nat]
      /\ \A id \in Id \ {i} : timer'[id] = timer[id]
  BY <1>1, <1>2
<1>4. check' \in [Worker -> Id \cup {None}]
  BY <1>1, <1>2
<1>5. \A id \in Id : /\ Checked(id) => Checked(id)'
                     /\ Checked(id)' => Checked(id) \/ id = i
  <2>1. \A v \in Worker : check'[v] = check[v] \/ (v = w /\ check'[v] = i)
    BY <1>1, <1>2
  <2> QED
    BY <1>1, <2>1, IdIsNotNone DEF Checked
<1>6. Pending(i)
  BY <1>1 DEF Pending
<1>7. \A id \in Id : Pending(id)' => Pending(id)
  BY <1>3, <1>5, <1>6 DEF Pending
<1>8. \A id \in Id : Pending(id) /\ ~Pending(id)' => row[id] \in Terminal \/ id \in orphaned
  <2> SUFFICES ASSUME NEW id \in Id, Pending(id), ~Pending(id)'
               PROVE  row[id] \in Terminal \/ id \in orphaned
    OBVIOUS
  <2>1. id = i
    BY <1>3, <1>5 DEF Pending
  <2>2. check' # [check EXCEPT ![w] = i]
    BY <1>2, <2>1 DEF Pending, Checked
  <2>3. ~Checked(i)
    BY <1>5, <2>1 DEF Pending
  <2> QED
    BY <1>1, <2>1, <2>2, <2>3 DEF LockHeld
<1>9. TimersArePlaced' /\ CallsPlaced'
  BY <1>1, <1>7 DEF TimerInv, TimersArePlaced, CallsPlaced, Stage
<1>10. \A id \in Id : EndsForAReason(id)
  BY <1>8, TerminalIsOver DEF EndsForAReason
<1> QED
  BY <1>1, <1>2, <1>3, <1>4, <1>9, <1>10 DEF TimerInv, TimerTypes

\* A message that came again, or was dropped and counted.
LEMMA AgainOrCounted ==
    ASSUME TimerInv, KeyInv', [Next]_vars, NEW i \in Id, NEW again \in [Id -> Nat],
           again[i] > 0, AgainOrDropped(i, again), Pending(i),
           \A id \in Id \ {i} : again[id] = timer[id] /\ Checked(id)' = Checked(id),
           Checked(i)' => Checked(i),
           check' \in [Worker -> Id \cup {None}], UNCHANGED <<placed, task>>
    PROVE  TimerInv' /\ \A id \in Id : EndsForAReason(id)
<1>1. \/ timer' = again /\ dropped' = dropped
      \/ /\ timer' = [again EXCEPT ![i] = again[i] - 1]
         /\ dropped' = [dropped EXCEPT ![i] = dropped[i] + 1]
  BY DEF AgainOrDropped
<1>2. timer \in [Id -> Nat] /\ dropped \in [Id -> Nat]
  BY DEF TimerInv, TimerTypes
<1>3. /\ timer' \in [Id -> Nat] /\ dropped' \in [Id -> Nat]
      /\ \A id \in Id \ {i} : timer'[id] = timer[id]
      /\ timer'[i] > 0 \/ dropped'[i] > dropped[i]
  BY <1>1, <1>2
<1>4. \A id \in Id : /\ Pending(id)' => Pending(id)
                     /\ Pending(id) /\ ~Pending(id)' => dropped'[id] > dropped[id]
  BY <1>3 DEF Pending
<1>5. TimersArePlaced' /\ CallsPlaced'
  BY <1>4 DEF TimerInv, TimersArePlaced, CallsPlaced, Stage
<1> QED
  BY <1>3, <1>4, <1>5 DEF TimerInv, TimerTypes, EndsForAReason

\* tryLock raises, and the message comes again or is dropped.
LEMMA RaisingKeepsTimers ==
    ASSUME TimerInv, KeyInv', [Next]_vars, NEW w \in Worker, NEW i \in Id, TryLockRaises(w, i)
    PROVE  TimerInv' /\ \A id \in Id : EndsForAReason(id)
<1>1. timer \in [Id -> Nat] /\ check \in [Worker -> Id \cup {None}]
  BY DEF TimerInv, TimerTypes
<1>2. timer[i] > 0 /\ AgainOrDropped(i, timer) /\ UNCHANGED <<check, placed, task>>
  BY DEF TryLockRaises, messageVars, brokerVars
<1>3. Pending(i) /\ \A id \in Id : Checked(id)' = Checked(id)
  BY <1>2 DEF Pending, Checked
<1> QED
  BY <1>1, <1>2, <1>3, AgainOrCounted

\* The handling throws with the lock held, gives it back, and so the message.
LEMMA ThrowingKeepsTimers ==
    ASSUME TimerInv, KeyInv', [Next]_vars, NEW w \in Worker, TimeoutThrows(w)
    PROVE  TimerInv' /\ \A id \in Id : EndsForAReason(id)
<1>1. timer \in [Id -> Nat] /\ check \in [Worker -> Id \cup {None}]
  BY DEF TimerInv, TimerTypes
<1>2. PICK i \in Id : check[w] = i
  BY <1>1 DEF TimeoutThrows
<1>3. PICK again \in [Id -> Nat] : again = [timer EXCEPT ![i] = timer[i] + 1]
  <2>1. [timer EXCEPT ![i] = timer[i] + 1] \in [Id -> Nat]
    BY <1>1
  <2> QED
    BY <2>1
<1>4. /\ AgainOrDropped(i, again) /\ check' = [check EXCEPT ![w] = None]
      /\ UNCHANGED <<placed, task>>
  BY <1>2, <1>3 DEF TimeoutThrows, messageVars, brokerVars
<1>5. again[i] > 0 /\ \A id \in Id \ {i} : again[id] = timer[id]
  BY <1>1, <1>3
<1>6. /\ check' \in [Worker -> Id \cup {None}] /\ check'[w] = None
      /\ \A v \in Worker \ {w} : check'[v] = check[v]
  BY <1>1, <1>4
<1>7. /\ Pending(i) /\ (Checked(i)' => Checked(i))
      /\ \A id \in Id \ {i} : Checked(id)' = Checked(id)
  BY <1>2, <1>6, IdIsNotNone DEF Pending, Checked
<1> QED
  BY <1>4, <1>5, <1>6, <1>7, AgainOrCounted

\* The cancel goes to the order of that number in the listener's own session.
LEMMA CancelEndsTimer ==
    ASSUME TimerInv, KeyInv', [Next]_vars, NEW w \in Worker, TimeoutCancels(w)
    PROVE  TimerInv' /\ \A id \in Id : EndsForAReason(id)
<1> DEFINE target == <<session[w], check[w][2]>>
<1>1. /\ check[w] # None /\ check' = [check EXCEPT ![w] = None]
      /\ cancels' = IF placed[target] # None /\ link[session[w]] # "cut"
                    THEN cancels \cup {<<check[w], target>>}
                    ELSE cancels
      /\ UNCHANGED <<timer, placed, task, dropped>>
  BY DEF TimeoutCancels, messageVars, brokerVars
<1>2. check \in [Worker -> Id \cup {None}] /\ timer \in [Id -> Nat]
  BY DEF TimerInv, TimerTypes
<1>3. /\ check' \in [Worker -> Id \cup {None}] /\ check'[w] = None
      /\ \A v \in Worker \ {w} : check'[v] = check[v]
  BY <1>1, <1>2
<1>4. \A id \in Id : Pending(id)' => Pending(id)
  BY <1>1, <1>3, IdIsNotNone DEF Pending, Checked
<1>5. ASSUME NEW id \in Id, Pending(id), ~Pending(id)'
      PROVE  <<id, id>> \in cancels' \/ Astray(id)
  <2>1. check[w] = id
    BY <1>1, <1>3, <1>5 DEF Pending, Checked
  <2>2. CASE session[w] = id[1] /\ link[session[w]] # "cut"
    <3>1. target = id
      BY <2>1, <2>2 DEF Id
    <3>2. placed[id] # None
      BY <1>5 DEF TimerInv, TimersArePlaced
    <3> QED
      BY <1>1, <2>1, <2>2, <3>1, <3>2
  <2> QED
    BY <2>1, <2>2 DEF Astray
<1>6. TimersArePlaced' /\ CallsPlaced'
  BY <1>1, <1>4 DEF TimerInv, TimersArePlaced, CallsPlaced, Stage
<1> QED
  BY <1>1, <1>2, <1>3, <1>5, <1>6 DEF TimerInv, TimerTypes, EndsForAReason

\* A listener that dies gives its message back, though not its lock.
LEMMA CrashKeepsTimers ==
    ASSUME TimerInv, KeyInv', [Next]_vars, NEW w \in Worker, Crash(w)
    PROVE  TimerInv' /\ \A id \in Id : EndsForAReason(id)
<1>1. /\ timer' = [id \in Id |-> IF check[w] = id THEN timer[id] + 1 ELSE timer[id]]
      /\ check' = [check EXCEPT ![w] = None]
      /\ UNCHANGED <<placed, dropped>>
      /\ \A a \in Account : task'[a] # None => task'[a] = task[a]
  BY DEF Crash
<1>2. check \in [Worker -> Id \cup {None}] /\ timer \in [Id -> Nat]
  BY DEF TimerInv, TimerTypes
<1>3. /\ check' \in [Worker -> Id \cup {None}] /\ check'[w] = None
      /\ \A v \in Worker \ {w} : check'[v] = check[v]
  BY <1>1, <1>2
<1>4. /\ timer' \in [Id -> Nat]
      /\ \A id \in Id : check[w] = id => timer'[id] > 0
      /\ \A id \in Id : check[w] # id => timer'[id] = timer[id]
  BY <1>1, <1>2
<1>5. ASSUME NEW id \in Id
      PROVE  Pending(id)' = Pending(id)
  <2>1. CASE check[w] = id
    BY <1>4, <2>1 DEF Pending, Checked
  <2>2. CASE check[w] # id
    <3>1. Checked(id)' = Checked(id)
      BY <1>3, <2>2, IdIsNotNone DEF Checked
    <3> QED
      BY <1>4, <2>2, <3>1 DEF Pending
  <2> QED
    BY <2>1, <2>2
<1>6. TimersArePlaced'
  BY <1>1, <1>5 DEF TimerInv, TimersArePlaced
<1>7. CallsPlaced'
  BY <1>1 DEF TimerInv, CallsPlaced, Stage
<1> QED
  BY <1>1, <1>3, <1>4, <1>5, <1>6, <1>7 DEF TimerInv, TimerTypes, EndsForAReason

LEMMA TimerStep ==
    MarketInv /\ TimerInv /\ [Next]_vars => TimerInv' /\ \A id \in Id : EndsForAReason(id)
<1> SUFFICES ASSUME MarketInv, TimerInv, [Next]_vars
             PROVE  TimerInv' /\ \A id \in Id : EndsForAReason(id)
  OBVIOUS
<1> DEFINE Goal == TimerInv' /\ \A id \in Id : EndsForAReason(id)
           Same == /\ UNCHANGED <<timer, check, dropped>>
                   /\ \A a \in Account : Stage(a, "placed")' \/ Stage(a, "registered")' =>
                          /\ Stage(a, "placed") \/ Stage(a, "registered")
                          /\ task'[a].order = task[a].order
<1>0. KeyInv /\ KeyInv'
  BY KeyInvStep DEF TimerInv
<1>1. Same => Goal
  BY <1>0, TimersElsewhere
<1> HIDE DEF Goal
<1>2. ASSUME NEW p \in Proposal, Deliver(p) \/ ExpireKey(p)
      PROVE  Goal
  <2>1. UNCHANGED <<timer, check, dropped, task>>
    BY <1>2 DEF Deliver, ExpireKey, timeoutVars
  <2> QED
    BY <1>1, <2>1 DEF Stage
<1>3. ASSUME NEW a \in Account, Consume(a)
      PROVE  Goal
  <2>1. CASE PlaceOrder(a)
    BY <1>0, <2>1, PlaceKeepsTimers DEF Goal
  <2>2. CASE Finish(a)
    BY <1>0, <2>2, FinishKeepsTimers DEF Goal
  <2>3. CASE Register(a)
    <3>1. /\ task' = [task EXCEPT ![a].stage = "registered"]
          /\ Stage(a, "placed") /\ UNCHANGED <<timer, check, dropped>>
      BY <2>3 DEF Register, timeoutVars
    <3>2. task[a] \in [worker : Worker, stage : {"guarded", "placed", "registered"},
                       order : Id \cup {None}]
      BY <1>0, <3>1 DEF Stage, KeyInv, KeyTypes
    <3>3. task'[a].order = task[a].order /\ \A b \in Account \ {a} : task'[b] = task[b]
      BY <1>0, <3>1, <3>2 DEF KeyInv, KeyTypes
    <3> QED
      BY <1>1, <3>1, <3>3 DEF Stage
  <2>4. CASE Throw(a) \/ \E w \in Worker : Skip(w, a)
    <3>1. task' = [task EXCEPT ![a] = None] /\ UNCHANGED <<timer, check, dropped>>
      BY <2>4 DEF Throw, Skip, Acknowledge, timeoutVars
    <3>2. \A b \in Account : task'[b] # None => task'[b] = task[b]
      BY <1>0, <3>1 DEF KeyInv, KeyTypes
    <3> QED
      BY <1>1, <3>1, <3>2 DEF Stage
  <2>5. ASSUME NEW w \in Worker, FirstSeen(w, a)
        PROVE  Goal
    <3>1. /\ task' = [task EXCEPT ![a] = [worker |-> w, stage |-> "guarded", order |-> None]]
          /\ UNCHANGED <<timer, check, dropped>>
      BY <2>5 DEF FirstSeen, timeoutVars
    <3>2. \A b \in Account : task'[b] = task[b] \/ task'[b].stage = "guarded"
      BY <1>0, <3>1 DEF KeyInv, KeyTypes
    <3> QED
      BY <1>1, <3>1, <3>2 DEF Stage
  <2> QED
    BY <1>3, <2>1, <2>2, <2>3, <2>4, <2>5 DEF Consume
<1>4. ASSUME NEW id \in Id, BrokerTells(id) \/ BrokerCloses(id) \/ LockLapses(id)
      PROVE  Goal
  <2>1. UNCHANGED <<timer, check, dropped, task>>
    BY <1>4 DEF BrokerTells, BrokerCloses, LockLapses, timeoutVars, messageVars
  <2> QED
    BY <1>1, <2>1 DEF Stage
<1>5. ASSUME NEW id \in Id, TimeOut(id)
      PROVE  Goal
  <2>1. ASSUME NEW w \in Worker, TimeoutReads(w, id) \/ TimeoutMisses(w, id)
        PROVE  Goal
    BY <1>0, <2>1, TimeoutStarts DEF Goal
  <2>2. ASSUME NEW w \in Worker, TimeoutCancels(w)
        PROVE  Goal
    BY <1>0, <2>2, CancelEndsTimer DEF Goal
  <2>3. ASSUME NEW w \in Worker, TryLockRaises(w, id)
        PROVE  Goal
    BY <1>0, <2>3, RaisingKeepsTimers DEF Goal
  <2>4. ASSUME NEW w \in Worker, TimeoutThrows(w)
        PROVE  Goal
    BY <1>0, <2>4, ThrowingKeepsTimers DEF Goal
  <2> QED
    BY <1>5, <2>1, <2>2, <2>3, <2>4 DEF TimeOut
<1>6. ASSUME NEW s \in Session, Callback(s) \/ CallbackFails(s)
      PROVE  Goal
  <2>1. UNCHANGED <<timer, check, dropped, task>>
    BY <1>6 DEF Callback, CallbackFails, timeoutVars, messageVars
  <2> QED
    BY <1>1, <2>1 DEF Stage
<1>7. ASSUME NEW w \in Worker, Start(w) \/ Crash(w) \/ Disconnect(w)
      PROVE  Goal
  <2>1. CASE Start(w) \/ Disconnect(w)
    <3>1. UNCHANGED <<timer, check, dropped, task>>
      BY <2>1 DEF Start, Disconnect, timeoutVars, messageVars
    <3> QED
      BY <1>1, <3>1 DEF Stage
  <2>2. CASE Crash(w)
    BY <1>0, <2>2, CrashKeepsTimers DEF Goal
  <2> QED
    BY <1>7, <2>1, <2>2
<1>8. CASE UNCHANGED vars
  <2>1. UNCHANGED <<timer, check, dropped, task>>
    BY <1>8 DEF vars
  <2> QED
    BY <1>1, <2>1 DEF Stage, Goal
<1> QED
  BY <1>2, <1>3, <1>4, <1>5, <1>6, <1>7, <1>8 DEF Next, Goal

\* However a delayed message is repeated, and whoever misses its lock, throws or dies
\* with it, the listeners are done with an order when it is closed at the broker or has
\* been sent a cancel, unless that goes astray, a lock left behind is met, the message is
\* dropped, or the row is falsely REJECTED (OrderTimeoutListener.onMessage).
THEOREM TimersEnd == Spec => TimersEndForAReason
<1>1. Init => TimerInv
  <2> SUFFICES ASSUME Init
               PROVE  TimerInv
    OBVIOUS
  <2>1. KeyInv
    BY KeyInvInit
  <2>2. TimerTypes /\ CallsPlaced
    BY DEF Init, TimerTypes, CallsPlaced, Stage
  <2>3. \A id \in Id : ~Pending(id)
    BY IdIsNotNone DEF Init, Pending, Checked
  <2> QED
    BY <2>1, <2>2, <2>3 DEF TimerInv, TimersArePlaced
<1>2. MarketInv /\ TimerInv /\ [Next]_vars => TimerInv' /\ [\A id \in Id : EndsForAReason(id)]_vars
  BY TimerStep
<1> QED
  BY <1>1, <1>2, MarketInductive, PTL DEF Spec, TimersEndForAReason
=============================================================================
