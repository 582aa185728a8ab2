-------------------------- MODULE JavaServicesProofs ---------------------------
(******************************************************************************)
(* The two Java services: what becomes of the money of the recharge service,   *)
(* then what the analyst service's cache may show.                             *)
(*                                                                             *)
(* Recharge, for any orders, users, threads, callbacks and faults: money is    *)
(* used once, statuses only move forward, no unpaid order loses its timer      *)
(* silently, a request makes one order, and members have the days they         *)
(* bought.  The lock plays no part in the argument, as its lease may run       *)
(* out: what counts is that a transaction which updated a row keeps other      *)
(* updates of it waiting, so that what its compare-and-set found is still so   *)
(* when it commits.                                                            *)
(*                                                                             *)
(* The cache, for any nodes, readers, writers and faults: an entry that is     *)
(* not what the table has is there for a reason, and the table is read once    *)
(* for an absence, but for loads that faults account for.  The first is        *)
(* about hands: what a reader has loaded and not yet put anywhere goes stale   *)
(* at a save and is excused by the writer's progress, and from the deletion    *)
(* on by its mark.  The second counts readers that lost their lease: each is   *)
(* one waste, and may load once; beyond them, the lock lets one load happen    *)
(* while L2 is empty.                                                          *)
(******************************************************************************)
EXTENDS RechargeProperties, AnalystCacheProperties, FiniteSumTheorems, TLAPS

Step == {"reading", "paying", "reconciling", "closing", "checking",
         "paying back", "marking", "returning"} \cup Updating
Job == [doing : {"payment", "timeout", "refund"}, order : Order, seen : Nat, at : Step]

\* The part of the type invariant the argument needs.
Types ==
    /\ row \in [Order -> Status]
    /\ job \in [Thread -> {Idle} \cup Job]
    /\ queue \in [User -> Seq(Order)]
    /\ creating \in [User -> {"idle", "keyed", "saved", "created"}]
    /\ timers \subseteq Order
    /\ callbacks \in [Order -> Nat]
    /\ refunded \subseteq Order
    /\ excused \in [failed : SUBSET Order, untimed : SUBSET Order,
                    unrefunded : SUBSET Order, overlapped : SUBSET User]
    /\ member \in [User -> Nat]

\* A handler takes its own steps only.
OwnSteps(t) ==
    /\ job[t].doing = "timeout" => job[t].at \in {"closing", "returning"}
    /\ job[t].doing = "refund" => job[t].at \in {"checking", "paying back", "marking", "returning"}

\* What a handler found is so until it writes.
FoundHolds(t) ==
    /\ job[t].at \in {"crediting", "granting"} => row[job[t].order] = "UNPAID"
    /\ job[t].at \in {"sending", "refunding"} => row[job[t].order] = "CANCELLED"
    /\ job[t].at \in {"paying back", "marking"} => row[job[t].order] \in {"REFUNDING", "REFUNDED"}

\* A payment is handled of an order the gateway has called back for.
CalledBack(t) == job[t].doing = "payment" => callbacks[job[t].order] > 0

\* A timeout that returns has closed its order, or found it past closing, or not
\* found it.
TimeoutDone(t) ==
    job[t].doing = "timeout" /\ job[t].at = "returning" =>
        row[job[t].order] \notin {"none", "UNPAID"} \/ job[t].order \in excused.untimed

Handler(t) == OwnSteps(t) /\ FoundHolds(t) /\ CalledBack(t) /\ TimeoutDone(t)

\* One transaction at a time has updated an order's row without having ended.
Updates(t, o) == job[t].at \in Updating /\ job[t].order = o
OneUpdater ==
    \A t, u \in Thread, o \in Order : Updates(t, o) /\ Updates(u, o) => t = u

\* Only a callback moves an order towards its money's use.
PaidFor == \A o \in Order : row[o] \in {"PAID", "REFUNDING", "REFUNDED"} => callbacks[o] > 0

\* A user's consumer creates the user's orders, each while it has no row.
Consumer(u) ==
    /\ \A i \in 1..Len(queue[u]) : Owner[queue[u][i]] = u
    /\ creating[u] # "idle" => queue[u] # <<>>
    /\ creating[u] = "saved" =>
         /\ row[Head(queue[u])] = "none"
         /\ Head(queue[u]) \in timers \cup excused.untimed

IInv ==
    /\ Types
    /\ \A t \in Thread : Handler(t)
    /\ OneUpdater
    /\ PaidFor
    /\ \A u \in User : Consumer(u)
    /\ MoneyIsUsedOnce
    /\ UnpaidIsTimed

USE RechargeAssumption

--------------------------------------------------------------------------------
(* What a thread does to its job. *)

\* A thread at a step is at work.
LEMMA BusyJob ==
    ASSUME Types, NEW t \in Thread, job[t].at \in Step
    PROVE  job[t] \in Job /\ job[t].order \in Order
<1>1. job[t] \in {Idle} \cup Job
  BY DEF Types
<1>2. Idle.at \notin Step
  BY DEF Idle, Step, Updating
<1> QED
  BY <1>1, <1>2 DEF Job

\* And so is one that is doing something.
LEMMA DoingJob ==
    ASSUME Types, NEW t \in Thread, job[t].doing # "idle"
    PROVE  job[t] \in Job /\ job[t].order \in Order
<1>1. job[t] \in {Idle} \cup Job
  BY DEF Types
<1>2. Idle.doing = "idle"
  BY DEF Idle
<1> QED
  BY <1>1, <1>2 DEF Job

\* Going on changes where a thread is, and nothing else.
LEMMA GoingOn ==
    ASSUME Types, NEW t \in Thread, job[t].at \in Step, NEW step \in Step, GoTo(t, step)
    PROVE  /\ job' \in [Thread -> {Idle} \cup Job]
           /\ job'[t].at = step
           /\ job'[t].doing = job[t].doing
           /\ job'[t].order = job[t].order
           /\ \A u \in Thread \ {t} : job'[u] = job[u]
<1>1. job[t] \in Job
  BY BusyJob
<1>2. job \in [Thread -> {Idle} \cup Job]
  BY DEF Types
<1>3. job' = [job EXCEPT ![t] = [job[t] EXCEPT !.at = step]]
  BY DEF GoTo
<1>4. [job[t] EXCEPT !.at = step] \in Job
  BY <1>1 DEF Job
<1>5. job'[t] = [job[t] EXCEPT !.at = step]
  BY <1>2, <1>3
<1> QED
  BY <1>1, <1>2, <1>3, <1>4, <1>5 DEF Job

\* A thread that begins is at its handler's first step.
LEMMA Beginning ==
    ASSUME Types, NEW t \in Thread, NEW o \in Order,
           NEW doing \in {"payment", "timeout", "refund"}, NEW step \in Step,
           Start(t, o, doing, step)
    PROVE  /\ job' \in [Thread -> {Idle} \cup Job]
           /\ job'[t].at = step
           /\ job'[t].doing = doing
           /\ job'[t].order = o
           /\ \A u \in Thread \ {t} : job'[u] = job[u]
<1>1. [doing |-> doing, order |-> o, at |-> step, seen |-> 0] \in Job
  BY DEF Job
<1> QED
  BY <1>1 DEF Start, Types

\* A thread that ends is idle.
LEMMA Ending ==
    ASSUME Types, NEW t \in Thread, job' = [job EXCEPT ![t] = Idle]
    PROVE  /\ job' \in [Thread -> {Idle} \cup Job]
           /\ job'[t].at = "idle"
           /\ job'[t].doing = "idle"
           /\ \A u \in Thread \ {t} : job'[u] = job[u]
  BY DEF Types, Idle

--------------------------------------------------------------------------------
(* What a step may do to the invariant. *)

\* What becomes of a handler that does not move, if what it found stays.
LEMMA OthersStay ==
    ASSUME IInv, NEW u \in Thread, job'[u] = job[u],
           job[u].doing # "idle" \/ job[u].at \in Step =>
               \/ row'[job[u].order] = row[job[u].order]
               \/ ~Updates(u, job[u].order) /\ row'[job[u].order] \in {"PAID", "CANCELLED"}
                    /\ row[job[u].order] = "UNPAID"
               \/ ~Updates(u, job[u].order) /\ row'[job[u].order] = "REFUNDING"
                    /\ row[job[u].order] = "CANCELLED"
               \/ ~Updates(u, job[u].order) /\ row'[job[u].order] = "REFUNDED",
           \A o \in Order : callbacks[o] > 0 => callbacks'[o] > 0,
           excused.untimed \subseteq excused'.untimed
    PROVE  Handler(u)'
<1>1. Handler(u) /\ Types
  BY DEF IInv
<1>2. OwnSteps(u)'
  BY <1>1 DEF Handler, OwnSteps
<1>3. CalledBack(u)'
  BY <1>1, DoingJob DEF Handler, CalledBack
<1>4. FoundHolds(u)'
  BY <1>1 DEF Handler, FoundHolds, Updates, Updating, Step
<1>5. TimeoutDone(u)'
  BY <1>1 DEF Handler, TimeoutDone
<1> QED
  BY <1>2, <1>3, <1>4, <1>5 DEF Handler

\* A thread moves, and no row does.
LEMMA ThreadMoves ==
    ASSUME IInv, Types', NEW t \in Thread,
           \A u \in Thread \ {t} : job'[u] = job[u],
           Handler(t)',
           \A u \in Thread \ {t}, o \in Order : Updates(t, o)' => ~Updates(u, o),
           UNCHANGED <<row, queue, creating>>,
           \A o \in Order : callbacks[o] > 0 => callbacks'[o] > 0,
           \A o \in refunded' \ refunded : callbacks[o] > 0 /\ row[o] \in {"REFUNDING", "REFUNDED"},
           excused.untimed \subseteq excused'.untimed,
           \A o \in timers \ timers' : row[o] \notin {"none", "UNPAID"} \/ o \in excused'.untimed
    PROVE  IInv'
<1>1. \A u \in Thread : Handler(u)'
  <2>1. ASSUME NEW u \in Thread, u # t PROVE Handler(u)'
    BY <2>1, OthersStay
  <2> QED
    BY <2>1
<1>2. OneUpdater'
  BY DEF IInv, OneUpdater, Updates
<1>3. PaidFor'
  BY DEF IInv, PaidFor
<1>4. ASSUME NEW u \in User PROVE Consumer(u)'
  <2>1. Consumer(u) /\ queue[u] \in Seq(Order)
    BY DEF IInv, Types
  <2>2. creating[u] = "saved" => Head(queue[u]) \in Order
    BY <2>1 DEF Consumer
  <2> QED
    BY <2>1, <2>2 DEF Consumer
<1>5. MoneyIsUsedOnce'
  BY DEF IInv, MoneyIsUsedOnce, Types
<1>6. UnpaidIsTimed'
  BY DEF IInv, UnpaidIsTimed
<1> QED
  BY <1>1, <1>2, <1>3, <1>4, <1>5, <1>6 DEF IInv

\* A thread writes its order's row, which nobody else has updated.
LEMMA RowMoves ==
    ASSUME IInv, Types', NEW t \in Thread, NEW o \in Order, NEW status,
           \A u \in Thread \ {t} : job'[u] = job[u],
           Handler(t)',
           job'[t].at = "returning",
           \A u \in Thread \ {t} : ~Updates(u, o),
           <<row[o], status>> \in LifeCycle \ {<<"none", "UNPAID">>},
           status # "CANCELLED" => callbacks[o] > 0,
           row' = [row EXCEPT ![o] = status],
           UNCHANGED <<queue, creating, timers, callbacks, refunded>>,
           excused.untimed \subseteq excused'.untimed
    PROVE  IInv'
<1>0. /\ row'[o] = status /\ \A p \in Order \ {o} : row'[p] = row[p]
      /\ \/ row[o] = "UNPAID" /\ status \in {"PAID", "CANCELLED"}
         \/ row[o] = "CANCELLED" /\ status = "REFUNDING"
         \/ row[o] = "REFUNDING" /\ status = "REFUNDED"
  BY DEF IInv, Types, LifeCycle
<1>1. \A u \in Thread : Handler(u)'
  <2>1. ASSUME NEW u \in Thread, u # t PROVE Handler(u)'
    <3>1. job[u].doing # "idle" \/ job[u].at \in Step => job[u].order \in Order
      BY BusyJob, DoingJob DEF IInv
    <3> QED
      BY <1>0, <2>1, <3>1, OthersStay
  <2> QED
    BY <2>1
<1>2. OneUpdater'
  BY DEF IInv, OneUpdater, Updates, Updating
<1>3. PaidFor'
  BY <1>0 DEF IInv, PaidFor
<1>4. ASSUME NEW u \in User PROVE Consumer(u)'
  <2>1. Consumer(u) /\ queue[u] \in Seq(Order)
    BY DEF IInv, Types
  <2>2. creating[u] = "saved" => Head(queue[u]) \in Order
    BY <2>1 DEF Consumer
  <2> QED
    BY <1>0, <2>1, <2>2 DEF Consumer
<1>5. MoneyIsUsedOnce'
  BY <1>0 DEF IInv, MoneyIsUsedOnce, Types
<1>6. UnpaidIsTimed'
  BY <1>0 DEF IInv, UnpaidIsTimed
<1> QED
  BY <1>1, <1>2, <1>3, <1>4, <1>5, <1>6 DEF IInv

\* An excuse for an order is one more order excused.
LEMMA ExcuseTypes ==
    ASSUME IInv, NEW o \in Order, NEW why \in {"failed", "untimed", "unrefunded"}, Excuse(why, o)
    PROVE  /\ excused' \in [failed : SUBSET Order, untimed : SUBSET Order,
                            unrefunded : SUBSET Order, overlapped : SUBSET User]
           /\ excused.untimed \subseteq excused'.untimed
           /\ why = "untimed" => o \in excused'.untimed
  BY DEF IInv, Types, Excuse

LEMMA UnspokenStep ==
    ASSUME IInv, UNCHANGED <<row, member, queue, creating, timers, callbacks, refunded, job, excused>>
    PROVE  IInv'
  BY DEF IInv, Types, Handler, OwnSteps, FoundHolds, CalledBack, TimeoutDone, OneUpdater, Updates,
         PaidFor, Consumer, MoneyIsUsedOnce, UnpaidIsTimed

--------------------------------------------------------------------------------
(* Creating orders. *)

\* Where a user's queue and consumer may go without a row.
LEMMA ConsumerMoves ==
    ASSUME IInv, Types', NEW u \in User, Consumer(u)',
           \A v \in User \ {u} : queue'[v] = queue[v] /\ creating'[v] = creating[v],
           UNCHANGED <<row, job, callbacks, refunded>>,
           timers \subseteq timers',
           excused.untimed \subseteq excused'.untimed
    PROVE  IInv'
<1>1. ASSUME NEW t \in Thread PROVE Handler(t)'
  BY OthersStay DEF IInv
<1>2. ASSUME NEW v \in User, v # u PROVE Consumer(v)'
  BY <1>2 DEF IInv, Consumer
<1> QED
  BY <1>1, <1>2 DEF IInv, OneUpdater, Updates, PaidFor, MoneyIsUsedOnce, UnpaidIsTimed

LEMMA SubmitStep ==
    ASSUME IInv, NEW o \in Order, Submit(o)
    PROVE  IInv'
<1> DEFINE u == Owner[o]
<1>1. u \in User /\ queue[u] \in Seq(Order) /\ Consumer(u)
  BY DEF IInv, Types
<1>2. /\ queue' = [queue EXCEPT ![u] = Append(queue[u], o)]
      /\ UNCHANGED <<row, member, creating, timers, callbacks, refunded, job, excused>>
  BY DEF Submit, orderVars, messageVars, gatewayVars
<1>3. queue'[u] = Append(queue[u], o) /\ \A v \in User \ {u} : queue'[v] = queue[v]
  BY <1>1, <1>2 DEF IInv, Types
<1>4. Types'
  BY <1>1, <1>2 DEF IInv, Types
<1>5. Consumer(u)'
  <2>1. /\ Len(queue'[u]) = Len(queue[u]) + 1
        /\ \A i \in 1..Len(queue[u]) : queue'[u][i] = queue[u][i]
        /\ queue'[u][Len(queue[u]) + 1] = o
        /\ Len(queue[u]) \in Nat
    BY <1>1, <1>3
  <2>2. queue[u] # <<>> => Head(queue'[u]) = Head(queue[u])
    BY <1>1, <1>3
  <2>3. queue'[u] # <<>>
    BY <2>1
  <2>4. ASSUME NEW i \in 1..Len(queue'[u]) PROVE Owner[queue'[u][i]] = u
    <3>1. i \in 1..Len(queue[u]) \/ i = Len(queue[u]) + 1
      BY <2>1
    <3> QED
      BY <1>1, <2>1, <3>1 DEF Consumer
  <2> QED
    BY <1>1, <1>2, <2>2, <2>3, <2>4 DEF Consumer
<1> HIDE DEF u
<1> QED
  BY <1>1, <1>2, <1>3, <1>4, <1>5, ConsumerMoves

\* A message acknowledged: the queue without its head.
LEMMA Acknowledging ==
    ASSUME IInv, NEW u \in User, queue[u] # <<>>, Acknowledge(u)
    PROVE  /\ queue' \in [User -> Seq(Order)]
           /\ creating' \in [User -> {"idle", "keyed", "saved", "created"}]
           /\ creating'[u] = "idle"
           /\ \A i \in 1..Len(queue'[u]) : Owner[queue'[u][i]] = u
           /\ \A v \in User \ {u} : queue'[v] = queue[v] /\ creating'[v] = creating[v]
<1>1. queue[u] \in Seq(Order) /\ Consumer(u)
  BY DEF IInv, Types
<1>2. /\ Tail(queue[u]) \in Seq(Order) /\ Len(Tail(queue[u])) = Len(queue[u]) - 1
      /\ \A i \in 1..Len(Tail(queue[u])) : Tail(queue[u])[i] = queue[u][i + 1]
  BY <1>1
<1>3. \A i \in 1..Len(Tail(queue[u])) : Owner[Tail(queue[u])[i]] = u
  <2>1. ASSUME NEW i \in 1..Len(Tail(queue[u])) PROVE i + 1 \in 1..Len(queue[u])
    BY <1>1, <1>2
  <2> QED
    BY <1>1, <1>2, <2>1 DEF Consumer
<1>4. queue'[u] = Tail(queue[u])
  BY DEF Acknowledge, IInv, Types
<1> QED
  BY <1>2, <1>3, <1>4 DEF Acknowledge, IInv, Types

LEMMA ReceiveStep ==
    ASSUME IInv, NEW u \in User, Receive(u)
    PROVE  IInv'
<1>1. /\ queue[u] # <<>> /\ Consumer(u)
      /\ UNCHANGED <<row, member, timers, callbacks, refunded, job, excused>>
  BY DEF Receive, orderVars, messageVars, gatewayVars, IInv
<1>2. CASE FirstSeen(Head(queue[u]))
  <2>1. creating' = [creating EXCEPT ![u] = "keyed"] /\ UNCHANGED queue
    BY <1>2 DEF Receive
  <2>2. Types'
    BY <1>1, <2>1 DEF IInv, Types
  <2>3. creating'[u] = "keyed" /\ \A v \in User \ {u} : creating'[v] = creating[v]
    BY <2>1 DEF IInv, Types
  <2>4. Consumer(u)'
    BY <1>1, <2>1, <2>3 DEF Consumer
  <2> QED
    BY <1>1, <2>1, <2>2, <2>3, <2>4, ConsumerMoves
<1>3. CASE Acknowledge(u)
  <2>1. /\ queue' \in [User -> Seq(Order)]
        /\ creating' \in [User -> {"idle", "keyed", "saved", "created"}]
        /\ creating'[u] = "idle"
        /\ \A i \in 1..Len(queue'[u]) : Owner[queue'[u][i]] = u
        /\ \A v \in User \ {u} : queue'[v] = queue[v] /\ creating'[v] = creating[v]
    BY <1>1, <1>3, Acknowledging
  <2>2. Types' /\ Consumer(u)'
    BY <1>1, <2>1 DEF IInv, Types, Consumer
  <2> QED
    BY <1>1, <2>1, <2>2, ConsumerMoves
<1> QED
  BY <1>2, <1>3 DEF Receive

LEMMA SaveStep ==
    ASSUME IInv, NEW u \in User, Save(u)
    PROVE  IInv'
<1> DEFINE o == Head(queue[u])
<1>1. /\ queue[u] # <<>> /\ Consumer(u) /\ queue[u] \in Seq(Order)
      /\ UNCHANGED <<row, member, callbacks, refunded, job>>
  BY DEF Save, orderVars, gatewayVars, IInv, Types, Consumer
<1>2. o \in Order
  BY <1>1
<1>3. CASE row[o] # "none"
  <2>1. Acknowledge(u) /\ UNCHANGED <<timers, excused>>
    BY <1>3 DEF Save
  <2>2. /\ queue' \in [User -> Seq(Order)]
        /\ creating' \in [User -> {"idle", "keyed", "saved", "created"}]
        /\ creating'[u] = "idle"
        /\ \A i \in 1..Len(queue'[u]) : Owner[queue'[u][i]] = u
        /\ \A v \in User \ {u} : queue'[v] = queue[v] /\ creating'[v] = creating[v]
    BY <1>1, <2>1, Acknowledging
  <2>3. Types' /\ Consumer(u)'
    BY <1>1, <2>1, <2>2 DEF IInv, Types, Consumer
  <2> QED
    BY <1>1, <2>1, <2>2, <2>3, ConsumerMoves
<1>4. CASE row[o] = "none"
  <2>1. /\ creating' = [creating EXCEPT ![u] = "saved"]
        /\ UNCHANGED queue
        /\ \/ timers' = timers \cup {o} /\ UNCHANGED excused
           \/ Excuse("untimed", o) /\ UNCHANGED timers
    BY <1>4 DEF Save
  <2>2. /\ timers' \subseteq Order /\ timers \subseteq timers'
        /\ excused' \in [failed : SUBSET Order, untimed : SUBSET Order,
                         unrefunded : SUBSET Order, overlapped : SUBSET User]
        /\ excused.untimed \subseteq excused'.untimed
        /\ o \in timers' \cup excused'.untimed
    <3>1. CASE timers' = timers \cup {o} /\ UNCHANGED excused
      BY <1>2, <3>1 DEF IInv, Types
    <3>2. CASE Excuse("untimed", o) /\ UNCHANGED timers
      <4>1. /\ excused' \in [failed : SUBSET Order, untimed : SUBSET Order,
                             unrefunded : SUBSET Order, overlapped : SUBSET User]
            /\ excused.untimed \subseteq excused'.untimed
            /\ o \in excused'.untimed
        BY <1>2, <3>2, ExcuseTypes
      <4> QED
        BY <3>2, <4>1 DEF IInv, Types
    <3> QED
      BY <2>1, <3>1, <3>2
  <2>3. Types'
    BY <1>1, <2>1, <2>2 DEF IInv, Types
  <2>4. creating'[u] = "saved" /\ \A v \in User \ {u} : creating'[v] = creating[v]
    BY <2>1 DEF IInv, Types
  <2>5. Consumer(u)'
    BY <1>1, <1>4, <2>1, <2>2, <2>4 DEF Consumer
  <2> QED
    BY <1>1, <2>1, <2>2, <2>3, <2>4, <2>5, ConsumerMoves
<1> QED
  BY <1>3, <1>4

\* The order appears; whatever was done about it before found no row.
LEMMA CommitOrderStep ==
    ASSUME IInv, NEW u \in User, CommitOrder(u)
    PROVE  IInv'
<1> DEFINE o == Head(queue[u])
<1>1. /\ creating[u] = "saved" /\ Consumer(u) /\ queue[u] \in Seq(Order) /\ queue[u] # <<>>
      /\ UNCHANGED <<member, queue, timers, callbacks, refunded, job, excused>>
  BY DEF CommitOrder, messageVars, gatewayVars, IInv, Types, Consumer
<1>2. o \in Order /\ row[o] = "none" /\ o \in timers \cup excused.untimed /\ Owner[o] = u
  <2>1. 1 \in 1..Len(queue[u]) /\ o = queue[u][1]
    BY <1>1
  <2> QED
    BY <1>1, <2>1 DEF Consumer
<1>3. row' = [row EXCEPT ![o] = "UNPAID"] /\ creating' = [creating EXCEPT ![u] = "created"]
  BY DEF CommitOrder
<1> HIDE DEF o
<1>4. /\ row'[o] = "UNPAID" /\ \A p \in Order \ {o} : row'[p] = row[p]
      /\ creating'[u] = "created" /\ \A v \in User \ {u} : creating'[v] = creating[v]
  BY <1>2, <1>3 DEF IInv, Types
<1>5. Types'
  BY <1>1, <1>2, <1>3 DEF IInv, Types, Status
<1>6. ASSUME NEW t \in Thread PROVE Handler(t)'
  <2>1. Handler(t) /\ (job[t].doing # "idle" \/ job[t].at \in Step => job[t].order \in Order)
    BY BusyJob, DoingJob DEF IInv
  <2>2. OwnSteps(t)' /\ CalledBack(t)'
    BY <1>1, <2>1 DEF Handler, OwnSteps, CalledBack
  <2>3. FoundHolds(t)'
    BY <1>1, <1>2, <1>4, <2>1 DEF Handler, FoundHolds, Step, Updating
  <2>4. TimeoutDone(t)'
    BY <1>1, <1>2, <1>4, <2>1 DEF Handler, TimeoutDone
  <2> QED
    BY <2>2, <2>3, <2>4 DEF Handler
<1>7. ASSUME NEW v \in User PROVE Consumer(v)'
  <2>1. CASE v = u
    BY <1>1, <1>4, <2>1 DEF Consumer
  <2>2. CASE v # u
    <3>1. Consumer(v) /\ queue[v] \in Seq(Order)
      BY DEF IInv, Types
    <3>2. queue[v] # <<>> => Head(queue[v]) \in Order \ {o}
      <4>1. ASSUME queue[v] # <<>> PROVE 1 \in 1..Len(queue[v]) /\ Head(queue[v]) = queue[v][1]
                                          /\ Head(queue[v]) \in Order
        BY <3>1, <4>1
      <4> QED
        BY <1>2, <2>2, <3>1, <4>1 DEF Consumer
    <3> QED
      BY <1>1, <1>4, <2>2, <3>1, <3>2 DEF Consumer
  <2> QED
    BY <2>1, <2>2
<1>8. OneUpdater' /\ PaidFor'
  BY <1>1, <1>4 DEF IInv, OneUpdater, Updates, PaidFor
<1>9. MoneyIsUsedOnce' /\ UnpaidIsTimed'
  BY <1>1, <1>2, <1>4 DEF IInv, Types, MoneyIsUsedOnce, UnpaidIsTimed
<1> QED
  BY <1>5, <1>6, <1>7, <1>8, <1>9 DEF IInv

LEMMA CreatedStep ==
    ASSUME IInv, NEW u \in User, Created(u)
    PROVE  IInv'
<1>1. /\ queue[u] # <<>> /\ Acknowledge(u)
      /\ UNCHANGED <<row, member, timers, callbacks, refunded, job, excused>>
  BY DEF Created, orderVars, messageVars, gatewayVars, IInv, Consumer
<1>2. /\ queue' \in [User -> Seq(Order)]
      /\ creating' \in [User -> {"idle", "keyed", "saved", "created"}]
      /\ creating'[u] = "idle"
      /\ \A i \in 1..Len(queue'[u]) : Owner[queue'[u][i]] = u
      /\ \A v \in User \ {u} : queue'[v] = queue[v] /\ creating'[v] = creating[v]
  BY <1>1, Acknowledging
<1>3. Types' /\ Consumer(u)'
  BY <1>1, <1>2 DEF IInv, Types, Consumer
<1> QED
  BY <1>1, <1>2, <1>3, ConsumerMoves

LEMMA CreationFailsStep ==
    ASSUME IInv, NEW u \in User, CreationFails(u)
    PROVE  IInv'
<1>1. /\ creating' = [creating EXCEPT ![u] = "idle"] /\ Excuse("failed", Head(queue[u]))
      /\ UNCHANGED <<row, member, queue, timers, callbacks, refunded, job>>
      /\ queue[u] # <<>> /\ queue[u] \in Seq(Order) /\ Consumer(u)
  BY DEF CreationFails, orderVars, messageVars, gatewayVars, IInv, Types, Consumer
<1>2. Head(queue[u]) \in Order
  BY <1>1
<1>3. /\ excused' \in [failed : SUBSET Order, untimed : SUBSET Order,
                       unrefunded : SUBSET Order, overlapped : SUBSET User]
      /\ excused.untimed \subseteq excused'.untimed
  BY <1>1, <1>2, ExcuseTypes
<1>4. creating'[u] = "idle" /\ \A v \in User \ {u} : creating'[v] = creating[v]
  BY <1>1 DEF IInv, Types
<1>5. Types'
  BY <1>1, <1>3 DEF IInv, Types
<1>6. Consumer(u)'
  BY <1>1, <1>4 DEF Consumer
<1> QED
  BY <1>1, <1>3, <1>4, <1>5, <1>6, ConsumerMoves

--------------------------------------------------------------------------------
(* Handlers begin and end. *)

\* However a handler ends, nothing it leaves behind depends on it, but that a
\* timeout's message is gone once the timeout has returned.
LEMMA EndStep ==
    ASSUME IInv, NEW t \in Thread, job' = [job EXCEPT ![t] = Idle],
           UNCHANGED <<row, member, queue, creating, callbacks, refunded, excused>>,
           \/ UNCHANGED timers
           \/ /\ timers' = timers \ {job[t].order}
              /\ job[t].at = "returning" /\ job[t].doing = "timeout"
    PROVE  IInv'
<1>1. /\ job' \in [Thread -> {Idle} \cup Job]
      /\ job'[t].at = "idle" /\ job'[t].doing = "idle"
      /\ \A u \in Thread \ {t} : job'[u] = job[u]
  BY Ending DEF IInv
<1>2. Types'
  BY <1>1 DEF IInv, Types
<1>3. Handler(t)' /\ \A o \in Order : ~Updates(t, o)'
  BY <1>1 DEF Handler, OwnSteps, FoundHolds, CalledBack, TimeoutDone, Updates, Updating
<1>4. ASSUME NEW o \in timers \ timers' PROVE row[o] \notin {"none", "UNPAID"} \/ o \in excused'.untimed
  <2>1. o = job[t].order /\ job[t].at = "returning" /\ job[t].doing = "timeout"
    OBVIOUS
  <2> QED
    BY <2>1 DEF IInv, Handler, TimeoutDone
<1> QED
  BY <1>1, <1>2, <1>3, <1>4, ThreadMoves

LEMMA ReturnStep ==
    ASSUME IInv, NEW t \in Thread, Return(t)
    PROVE  IInv'
<1>1. /\ job' = [job EXCEPT ![t] = Idle]
      /\ UNCHANGED <<row, member, queue, creating, callbacks, refunded, excused>>
      /\ job[t].at = "returning"
      /\ timers' = IF job[t].doing = "timeout" THEN timers \ {job[t].order} ELSE timers
  BY DEF Return, At, orderVars, createVars, gatewayVars
<1> QED
  BY <1>1, EndStep

LEMMA RaiseDieStep ==
    ASSUME IInv, NEW t \in Thread, Raise(t) \/ Die(t)
    PROVE  IInv'
<1>1. /\ job' = [job EXCEPT ![t] = Idle]
      /\ UNCHANGED <<row, member, queue, creating, timers, callbacks, refunded, excused>>
  BY DEF Raise, Die, orderVars, createVars, messageVars, gatewayVars
<1> QED
  BY <1>1, EndStep

\* A handler that begins has found nothing yet.
LEMMA BeginStep ==
    ASSUME IInv, Types', NEW t \in Thread, NEW o \in Order,
           NEW doing \in {"payment", "timeout", "refund"},
           NEW step \in {"reading", "closing", "checking"},
           doing = "timeout" => step = "closing",
           doing = "refund" => step = "checking",
           doing = "payment" => callbacks'[o] > 0,
           \A p \in Order : callbacks[p] > 0 => callbacks'[p] > 0,
           Start(t, o, doing, step),
           UNCHANGED <<row, queue, creating, timers, refunded, excused>>
    PROVE  IInv'
<1>0. step \in Step
  BY DEF Step
<1>1. /\ job'[t].at = step /\ job'[t].doing = doing /\ job'[t].order = o
      /\ \A u \in Thread \ {t} : job'[u] = job[u]
  BY <1>0, Beginning DEF IInv
<1>2. Handler(t)' /\ \A p \in Order : ~Updates(t, p)'
  BY <1>1 DEF Handler, OwnSteps, FoundHolds, CalledBack, TimeoutDone, Updates, Updating
<1> QED
  BY <1>1, <1>2, ThreadMoves

\* No thread and no row moves: more callbacks, fewer timers, more excuses.
LEMMA StayingStep ==
    ASSUME IInv, Types',
           UNCHANGED <<row, queue, creating, refunded, job>>,
           \A o \in Order : callbacks[o] > 0 => callbacks'[o] > 0,
           excused.untimed \subseteq excused'.untimed,
           \A o \in timers \ timers' : row[o] \notin {"none", "UNPAID"} \/ o \in excused'.untimed
    PROVE  IInv'
<1>1. \A t \in Thread : Handler(t)'
  BY OthersStay
<1>2. ASSUME NEW u \in User PROVE Consumer(u)'
  <2>1. Consumer(u) /\ queue[u] \in Seq(Order)
    BY DEF IInv, Types
  <2>2. creating[u] = "saved" => Head(queue[u]) \in Order
    BY <2>1 DEF Consumer
  <2> QED
    BY <2>1, <2>2 DEF Consumer
<1>3. OneUpdater'
  BY DEF IInv, OneUpdater, Updates
<1>4. PaidFor'
  BY DEF IInv, PaidFor
<1>5. MoneyIsUsedOnce'
  BY DEF IInv, Types, MoneyIsUsedOnce
<1>6. UnpaidIsTimed'
  BY DEF IInv, UnpaidIsTimed
<1> QED
  BY <1>1, <1>2, <1>3, <1>4, <1>5, <1>6 DEF IInv

LEMMA CallbackStep ==
    ASSUME IInv, NEW t \in Thread, NEW o \in Order, Callback(t, o)
    PROVE  IInv'
<1>1. /\ callbacks' \in [Order -> Nat] /\ callbacks'[o] > 0
      /\ \A p \in Order : callbacks[p] > 0 => callbacks'[p] > 0
      /\ UNCHANGED <<row, member, queue, creating, timers, refunded, excused>>
  BY DEF Callback, IInv, Types, orderVars, createVars, messageVars
<1>2. CASE UNCHANGED job
  <2>1. Types'
    BY <1>1, <1>2 DEF IInv, Types
  <2> QED
    BY <1>1, <1>2, <2>1, StayingStep
<1>3. CASE Start(t, o, "payment", "reading")
  <2>1. job' \in [Thread -> {Idle} \cup Job]
    BY <1>3, Beginning DEF IInv, Step
  <2>2. Types'
    BY <1>1, <2>1 DEF IInv, Types
  <2> QED
    BY <1>1, <1>3, <2>2, BeginStep
<1> QED
  BY <1>2, <1>3 DEF Callback

\* A message that is dropped leaves the excuse.
LEMMA TimeoutStep ==
    ASSUME IInv, NEW t \in Thread, NEW o \in Order, Timeout(t, o)
    PROVE  IInv'
<1>1. UNCHANGED <<row, member, queue, creating, callbacks, refunded>>
  BY DEF Timeout, orderVars, createVars, gatewayVars
<1>2. CASE Start(t, o, "timeout", "closing") /\ UNCHANGED <<timers, excused>>
  <2>1. job' \in [Thread -> {Idle} \cup Job]
    BY <1>2, Beginning DEF IInv, Step
  <2>2. Types'
    BY <1>1, <1>2, <2>1 DEF IInv, Types
  <2> QED
    BY <1>1, <1>2, <2>2, BeginStep
<1>3. CASE timers' = timers \ {o} /\ Excuse("untimed", o) /\ UNCHANGED job
  <2>1. /\ excused' \in [failed : SUBSET Order, untimed : SUBSET Order,
                         unrefunded : SUBSET Order, overlapped : SUBSET User]
        /\ excused.untimed \subseteq excused'.untimed
        /\ o \in excused'.untimed
    BY <1>3, ExcuseTypes
  <2>2. Types'
    BY <1>1, <1>3, <2>1 DEF IInv, Types
  <2> QED
    BY <1>1, <1>3, <2>1, <2>2, StayingStep
<1> QED
  BY <1>2, <1>3 DEF Timeout

LEMMA RefundStep ==
    ASSUME IInv, NEW t \in Thread, NEW o \in Order, Refund(t, o)
    PROVE  IInv'
<1>1. UNCHANGED <<row, member, queue, creating, timers, callbacks, refunded>>
  BY DEF Refund, orderVars, createVars, gatewayVars
<1>2. CASE Start(t, o, "refund", "checking") /\ UNCHANGED excused
  <2>1. job' \in [Thread -> {Idle} \cup Job]
    BY <1>2, Beginning DEF IInv, Step
  <2>2. Types'
    BY <1>1, <1>2, <2>1 DEF IInv, Types
  <2> QED
    BY <1>1, <1>2, <2>2, BeginStep
<1>3. CASE Excuse("unrefunded", o) /\ UNCHANGED job
  <2>1. /\ excused' \in [failed : SUBSET Order, untimed : SUBSET Order,
                         unrefunded : SUBSET Order, overlapped : SUBSET User]
        /\ excused.untimed \subseteq excused'.untimed
    BY <1>3, ExcuseTypes
  <2>2. Types'
    BY <1>1, <1>3, <2>1 DEF IInv, Types
  <2> QED
    BY <1>1, <1>3, <2>1, <2>2, StayingStep
<1> QED
  BY <1>2, <1>3 DEF Refund

--------------------------------------------------------------------------------
(* Handlers go on without a write to the row. *)

\* A thread that goes on, and may do so where it goes.
LEMMA GoOnStep ==
    ASSUME IInv, NEW t \in Thread, job[t].at \in Step, NEW step \in Step, GoTo(t, step),
           OwnSteps(t)', FoundHolds(t)', TimeoutDone(t)',
           step \in Updating => RowFree(t) \/ job[t].at \in Updating,
           refunded' \subseteq Order,
           \A o \in refunded' \ refunded : callbacks[o] > 0 /\ row[o] \in {"REFUNDING", "REFUNDED"},
           excused' \in [failed : SUBSET Order, untimed : SUBSET Order,
                         unrefunded : SUBSET Order, overlapped : SUBSET User],
           excused.untimed \subseteq excused'.untimed,
           UNCHANGED <<row, member, queue, creating, timers, callbacks>>
    PROVE  IInv'
<1>1. /\ job' \in [Thread -> {Idle} \cup Job]
      /\ job'[t].at = step
      /\ job'[t].doing = job[t].doing
      /\ job'[t].order = job[t].order
      /\ \A u \in Thread \ {t} : job'[u] = job[u]
  BY GoingOn DEF IInv
<1>2. Types'
  BY <1>1 DEF IInv, Types
<1>3. CalledBack(t)'
  BY <1>1 DEF IInv, Handler, CalledBack
<1>4. ASSUME NEW u \in Thread \ {t}, NEW o \in Order, Updates(t, o)'
      PROVE  ~Updates(u, o)
  <2>1. step \in Updating /\ job[t].order = o
    BY <1>1, <1>4 DEF Updates
  <2>2. CASE RowFree(t)
    BY <2>1, <2>2 DEF RowFree, Updates
  <2>3. CASE job[t].at \in Updating
    BY <2>1, <2>3 DEF Updates, IInv, OneUpdater
  <2> QED
    BY <2>1, <2>2, <2>3
<1> QED
  BY <1>1, <1>2, <1>3, <1>4, ThreadMoves DEF Handler

\* Where excuses, refunds and membership are left alone.
LEMMA PlainStep ==
    ASSUME IInv, NEW t \in Thread, job[t].at \in Step, NEW step \in Step, GoTo(t, step),
           OwnSteps(t)', FoundHolds(t)', TimeoutDone(t)',
           step \in Updating => RowFree(t) \/ job[t].at \in Updating,
           UNCHANGED <<row, member, queue, creating, timers, callbacks, refunded, excused>>
    PROVE  IInv'
<1>1. /\ refunded' \subseteq Order
      /\ excused' \in [failed : SUBSET Order, untimed : SUBSET Order,
                       unrefunded : SUBSET Order, overlapped : SUBSET User]
  BY DEF IInv, Types
<1> QED
  BY <1>1, GoOnStep

\* What a thread's move says of the thread itself.
LEMMA Moved ==
    ASSUME IInv, NEW t \in Thread, job[t].at \in Step, NEW step \in Step, GoTo(t, step)
    PROVE  /\ job[t].order \in Order /\ Handler(t)
           /\ job' \in [Thread -> {Idle} \cup Job]
           /\ job'[t].at = step
           /\ job'[t].doing = job[t].doing
           /\ job'[t].order = job[t].order
           /\ \A u \in Thread \ {t} : job'[u] = job[u]
  BY BusyJob, GoingOn DEF IInv

LEMMA ReadOrderStep ==
    ASSUME IInv, NEW t \in Thread, ReadOrder(t)
    PROVE  IInv'
<1>1. /\ job[t].at = "reading"
      /\ UNCHANGED <<row, member, queue, creating, timers, callbacks, refunded, excused>>
  BY DEF ReadOrder, At, orderVars, createVars, messageVars, gatewayVars
<1>2. PICK step \in {"returning", "reconciling", "paying"} : GoTo(t, step)
  BY DEF ReadOrder
<1>3. job[t].at \in Step /\ step \in Step /\ step \notin Updating
  BY <1>1, <1>2 DEF Step, Updating
<1>4. Handler(t) /\ job'[t].at = step /\ job'[t].doing = job[t].doing
  BY <1>2, <1>3, Moved
<1>5. OwnSteps(t)' /\ FoundHolds(t)' /\ TimeoutDone(t)'
  BY <1>1, <1>4 DEF Handler, OwnSteps, FoundHolds, TimeoutDone
<1> QED
  BY <1>1, <1>2, <1>3, <1>5, PlainStep

LEMMA PayAndGrantStep ==
    ASSUME IInv, NEW t \in Thread, PayAndGrant(t)
    PROVE  IInv'
<1> DEFINE step == IF CasHolds(t, "UNPAID") THEN "crediting" ELSE "returning"
<1>1. /\ job[t].at = "paying" /\ RowFree(t) /\ GoTo(t, step)
      /\ UNCHANGED <<row, member, queue, creating, timers, callbacks, refunded, excused>>
  BY DEF PayAndGrant, At, orderVars, createVars, messageVars, gatewayVars
<1>2. /\ step \in {"crediting", "returning"}
      /\ step = "crediting" => row[job[t].order] = "UNPAID"
  BY DEF CasHolds
<1> HIDE DEF step
<1>3. job[t].at \in Step /\ step \in Step
  BY <1>1, <1>2 DEF Step, Updating
<1>4. Handler(t) /\ job'[t].at = step /\ job'[t].doing = job[t].doing /\ job'[t].order = job[t].order
  BY <1>1, <1>3, Moved
<1>5. OwnSteps(t)' /\ FoundHolds(t)' /\ TimeoutDone(t)'
  BY <1>1, <1>2, <1>4 DEF Handler, OwnSteps, FoundHolds, TimeoutDone
<1> QED
  BY <1>1, <1>3, <1>5, PlainStep

LEMMA ReconcileRefundStep ==
    ASSUME IInv, NEW t \in Thread, ReconcileRefund(t)
    PROVE  IInv'
<1> DEFINE step == IF CasHolds(t, "CANCELLED") THEN "sending" ELSE "returning"
<1>1. /\ job[t].at = "reconciling" /\ RowFree(t) /\ GoTo(t, step)
      /\ UNCHANGED <<row, member, queue, creating, timers, callbacks, refunded, excused>>
  BY DEF ReconcileRefund, At, orderVars, createVars, messageVars, gatewayVars
<1>2. /\ step \in {"sending", "returning"}
      /\ step = "sending" => row[job[t].order] = "CANCELLED"
  BY DEF CasHolds
<1> HIDE DEF step
<1>3. job[t].at \in Step /\ step \in Step
  BY <1>1, <1>2 DEF Step, Updating
<1>4. Handler(t) /\ job'[t].at = step /\ job'[t].doing = job[t].doing /\ job'[t].order = job[t].order
  BY <1>1, <1>3, Moved
<1>5. OwnSteps(t)' /\ FoundHolds(t)' /\ TimeoutDone(t)'
  BY <1>1, <1>2, <1>4 DEF Handler, OwnSteps, FoundHolds, TimeoutDone
<1> QED
  BY <1>1, <1>3, <1>5, PlainStep

LEMMA SendRefundStep ==
    ASSUME IInv, NEW t \in Thread, SendRefund(t)
    PROVE  IInv'
<1>1. /\ job[t].at = "sending" /\ GoTo(t, "refunding")
      /\ UNCHANGED <<row, member, queue, creating, timers, callbacks, refunded>>
      /\ UNCHANGED excused \/ Excuse("unrefunded", job[t].order)
  BY DEF SendRefund, At, orderVars, createVars, gatewayVars
<1>2. job[t].at \in Step /\ job[t].at \in Updating /\ "refunding" \in Step
  BY <1>1 DEF Step, Updating
<1>3. /\ job[t].order \in Order /\ Handler(t)
      /\ job'[t].at = "refunding" /\ job'[t].doing = job[t].doing /\ job'[t].order = job[t].order
  BY <1>1, <1>2, Moved
<1>4. OwnSteps(t)' /\ FoundHolds(t)' /\ TimeoutDone(t)'
  BY <1>1, <1>3 DEF Handler, OwnSteps, FoundHolds, TimeoutDone
<1>5. /\ excused' \in [failed : SUBSET Order, untimed : SUBSET Order,
                       unrefunded : SUBSET Order, overlapped : SUBSET User]
      /\ excused.untimed \subseteq excused'.untimed
  <2>1. CASE UNCHANGED excused
    BY <2>1 DEF IInv, Types
  <2>2. CASE Excuse("unrefunded", job[t].order)
    BY <1>3, <2>2, ExcuseTypes
  <2> QED
    BY <1>1, <2>1, <2>2
<1>6. refunded' \subseteq Order
  BY <1>1 DEF IInv, Types
<1> QED
  BY <1>1, <1>2, <1>4, <1>5, <1>6, GoOnStep

LEMMA CheckRefundStep ==
    ASSUME IInv, NEW t \in Thread, CheckRefund(t)
    PROVE  IInv'
<1> DEFINE step == IF CasHolds(t, "REFUNDING") THEN "paying back" ELSE "returning"
<1>1. /\ job[t].at = "checking" /\ GoTo(t, step)
      /\ UNCHANGED <<row, member, queue, creating, timers, callbacks, refunded>>
      /\ UNCHANGED excused \/ Excuse("unrefunded", job[t].order)
  BY DEF CheckRefund, At, orderVars, createVars, messageVars, gatewayVars
<1>2. /\ step \in {"paying back", "returning"}
      /\ step = "paying back" => row[job[t].order] = "REFUNDING"
  BY DEF CasHolds
<1> HIDE DEF step
<1>3. job[t].at \in Step /\ step \in Step /\ step \notin Updating
  BY <1>1, <1>2 DEF Step, Updating
<1>4. /\ job[t].order \in Order /\ Handler(t)
      /\ job'[t].at = step /\ job'[t].doing = job[t].doing /\ job'[t].order = job[t].order
  BY <1>1, <1>3, Moved
<1>5. OwnSteps(t)' /\ FoundHolds(t)' /\ TimeoutDone(t)'
  BY <1>1, <1>2, <1>4 DEF Handler, OwnSteps, FoundHolds, TimeoutDone
<1>6. /\ excused' \in [failed : SUBSET Order, untimed : SUBSET Order,
                       unrefunded : SUBSET Order, overlapped : SUBSET User]
      /\ excused.untimed \subseteq excused'.untimed
  <2>1. CASE UNCHANGED excused
    BY <2>1 DEF IInv, Types
  <2>2. CASE Excuse("unrefunded", job[t].order)
    BY <1>4, <2>2, ExcuseTypes
  <2> QED
    BY <1>1, <2>1, <2>2
<1>7. refunded' \subseteq Order
  BY <1>1 DEF IInv, Types
<1> QED
  BY <1>1, <1>3, <1>5, <1>6, <1>7, GoOnStep

\* The money that goes back is an order's that has been paid for.
LEMMA PayBackStep ==
    ASSUME IInv, NEW t \in Thread, PayBack(t)
    PROVE  IInv'
<1>1. /\ job[t].at = "paying back" /\ GoTo(t, "marking")
      /\ refunded' = refunded \cup {job[t].order}
      /\ UNCHANGED <<row, member, queue, creating, timers, callbacks, excused>>
  BY DEF PayBack, At, orderVars, createVars, messageVars
<1>2. job[t].at \in Step /\ "marking" \in Step /\ "marking" \notin Updating
  BY <1>1 DEF Step, Updating
<1>3. /\ job[t].order \in Order /\ Handler(t)
      /\ job'[t].at = "marking" /\ job'[t].doing = job[t].doing /\ job'[t].order = job[t].order
  BY <1>1, <1>2, Moved
<1>4. OwnSteps(t)' /\ FoundHolds(t)' /\ TimeoutDone(t)'
  BY <1>1, <1>3 DEF Handler, OwnSteps, FoundHolds, TimeoutDone
<1>5. row[job[t].order] \in {"REFUNDING", "REFUNDED"}
  BY <1>1, <1>3 DEF Handler, FoundHolds
<1>6. callbacks[job[t].order] > 0
  BY <1>3, <1>5 DEF IInv, PaidFor
<1>7. refunded' \subseteq Order /\ excused.untimed \subseteq excused'.untimed
      /\ excused' \in [failed : SUBSET Order, untimed : SUBSET Order,
                       unrefunded : SUBSET Order, overlapped : SUBSET User]
  BY <1>1, <1>3 DEF IInv, Types
<1>8. \A o \in refunded' \ refunded : callbacks[o] > 0 /\ row[o] \in {"REFUNDING", "REFUNDED"}
  BY <1>1, <1>5, <1>6
<1> QED
  BY <1>1, <1>2, <1>4, <1>7, <1>8, GoOnStep

\* The membership that is read is kept in the job.
LEMMA ReadMembershipStep ==
    ASSUME IInv, NEW t \in Thread, ReadMembership(t)
    PROVE  IInv'
<1>1. /\ job[t].at = "crediting"
      /\ UNCHANGED <<row, member, queue, creating, timers, callbacks, refunded, excused>>
      /\ job' = [job EXCEPT ![t] = [job[t] EXCEPT !.at = "granting", !.seen = member[OwnerOf(t)]]]
  BY DEF ReadMembership, At, orderVars, createVars, messageVars, gatewayVars
<1>2. job[t].at \in Step
  BY <1>1 DEF Step, Updating
<1>3. job[t] \in Job /\ job[t].order \in Order /\ Handler(t)
  BY <1>2, BusyJob DEF IInv
<1>4. member[OwnerOf(t)] \in Nat
  BY <1>3 DEF OwnerOf, IInv, Types
<1>5. [job[t] EXCEPT !.at = "granting", !.seen = member[OwnerOf(t)]] \in Job
  BY <1>3, <1>4 DEF Job, Step, Updating
<1>6. /\ job' \in [Thread -> {Idle} \cup Job]
      /\ job'[t] = [job[t] EXCEPT !.at = "granting", !.seen = member[OwnerOf(t)]]
      /\ \A u \in Thread \ {t} : job'[u] = job[u]
  BY <1>1, <1>5 DEF IInv, Types
<1>7. job'[t].at = "granting" /\ job'[t].doing = job[t].doing /\ job'[t].order = job[t].order
  BY <1>3, <1>6 DEF Job
<1>8. Types'
  BY <1>1, <1>6 DEF IInv, Types
<1>9. Handler(t)'
  BY <1>1, <1>3, <1>7 DEF Handler, OwnSteps, FoundHolds, CalledBack, TimeoutDone
<1>10. ASSUME NEW u \in Thread \ {t}, NEW o \in Order, Updates(t, o)'
       PROVE  ~Updates(u, o)
  BY <1>1, <1>7, <1>10 DEF Updates, Updating, IInv, OneUpdater
<1> QED
  BY <1>1, <1>6, <1>8, <1>9, <1>10, ThreadMoves

--------------------------------------------------------------------------------
(* Handlers write the row. *)

\* A transaction that updated a row is its only one, and of a payment, if the
\* row is on its way to PAID or REFUNDING.
LEMMA Holding ==
    ASSUME IInv, NEW t \in Thread, job[t].at \in Updating
    PROVE  /\ job[t] \in Job /\ job[t].order \in Order /\ Handler(t)
           /\ callbacks[job[t].order] > 0
           /\ \A u \in Thread \ {t} : ~Updates(u, job[t].order)
<1>1. job[t].at \in Step /\ job[t].at \notin {"closing", "checking", "paying back", "marking", "returning"}
  BY DEF Step, Updating
<1>2. job[t] \in Job /\ job[t].order \in Order /\ Handler(t)
  BY <1>1, BusyJob DEF IInv
<1>3. job[t].doing = "payment"
  BY <1>1, <1>2 DEF Handler, OwnSteps, Job
<1>4. callbacks[job[t].order] > 0
  BY <1>2, <1>3 DEF Handler, CalledBack
<1>5. \A u \in Thread \ {t} : ~Updates(u, job[t].order)
  BY <1>2 DEF IInv, OneUpdater, Updates
<1> QED
  BY <1>2, <1>4, <1>5

\* The membership is written in the same commit.
LEMMA CommitGrantStep ==
    ASSUME IInv, NEW t \in Thread, CommitGrant(t)
    PROVE  IInv'
<1> DEFINE o == job[t].order
<1>1. /\ job[t].at = "granting"
      /\ row' = [row EXCEPT ![o] = "PAID"]
      /\ member' = [member EXCEPT ![Owner[o]] = job[t].seen + Days[o]]
      /\ job' = [job EXCEPT ![t] = [job[t] EXCEPT !.at = "returning", !.seen = 0]]
      /\ UNCHANGED excused \/ Excuse("overlapped", Owner[o])
      /\ UNCHANGED <<queue, creating, timers, callbacks, refunded>>
  BY DEF CommitGrant, At, SetRow, OwnerOf, createVars, messageVars, gatewayVars
<1>2. job[t].at \in Updating
  BY <1>1 DEF Updating
<1>3. /\ job[t] \in Job /\ o \in Order /\ Handler(t) /\ callbacks[o] > 0
      /\ \A u \in Thread \ {t} : ~Updates(u, o)
  BY <1>2, Holding
<1>4. row[o] = "UNPAID"
  BY <1>1, <1>3 DEF Handler, FoundHolds
<1> HIDE DEF o
<1>5. job[t].seen \in Nat /\ Days[o] \in Nat /\ Owner[o] \in User
  BY <1>3 DEF Job
<1>6. [job[t] EXCEPT !.at = "returning", !.seen = 0] \in Job
  BY <1>3 DEF Job, Step
<1>7. /\ job' \in [Thread -> {Idle} \cup Job]
      /\ job'[t] = [job[t] EXCEPT !.at = "returning", !.seen = 0]
      /\ \A u \in Thread \ {t} : job'[u] = job[u]
  BY <1>1, <1>6 DEF IInv, Types
<1>8. job'[t].at = "returning" /\ job'[t].doing = job[t].doing /\ job'[t].order = job[t].order
  BY <1>3, <1>7 DEF Job
<1>9. /\ excused' \in [failed : SUBSET Order, untimed : SUBSET Order,
                       unrefunded : SUBSET Order, overlapped : SUBSET User]
      /\ excused.untimed \subseteq excused'.untimed
  <2>1. CASE UNCHANGED excused
    BY <2>1 DEF IInv, Types
  <2>2. CASE Excuse("overlapped", Owner[o])
    BY <1>5, <2>2 DEF IInv, Types, Excuse
  <2> QED
    BY <1>1, <2>1, <2>2
<1>10. Types'
  <2>1. member' \in [User -> Nat]
    BY <1>1, <1>5 DEF IInv, Types
  <2>2. row' \in [Order -> Status]
    BY <1>1 DEF IInv, Types, Status
  <2> QED
    BY <1>1, <1>7, <1>9, <2>1, <2>2 DEF IInv, Types
<1>11. Handler(t)'
  <2>1. row'[o] = "PAID" /\ job'[t].order = o
    BY <1>1, <1>3, <1>8 DEF IInv, Types, o
  <2>2. OwnSteps(t)' /\ FoundHolds(t)'
    BY <1>8 DEF OwnSteps, FoundHolds
  <2>3. CalledBack(t)'
    BY <1>1, <1>3, <2>1 DEF CalledBack
  <2>4. TimeoutDone(t)'
    BY <2>1 DEF TimeoutDone
  <2> QED
    BY <2>2, <2>3, <2>4 DEF Handler
<1>12. <<row[o], "PAID">> \in LifeCycle \ {<<"none", "UNPAID">>}
  BY <1>4 DEF LifeCycle
<1> QED
  BY <1>1, <1>3, <1>7, <1>8, <1>9, <1>10, <1>11, <1>12, RowMoves

LEMMA CommitRefundingStep ==
    ASSUME IInv, NEW t \in Thread, CommitRefunding(t)
    PROVE  IInv'
<1> DEFINE o == job[t].order
<1>1. /\ job[t].at = "refunding" /\ GoTo(t, "returning")
      /\ row' = [row EXCEPT ![o] = "REFUNDING"]
      /\ UNCHANGED <<member, queue, creating, timers, callbacks, refunded, excused>>
  BY DEF CommitRefunding, At, SetRow, createVars, messageVars, gatewayVars
<1>2. job[t].at \in Updating /\ job[t].at \in Step /\ "returning" \in Step
  BY <1>1 DEF Step, Updating
<1>3. /\ o \in Order /\ Handler(t) /\ callbacks[o] > 0
      /\ \A u \in Thread \ {t} : ~Updates(u, o)
  BY <1>2, Holding
<1>4. row[o] = "CANCELLED"
  BY <1>1, <1>3 DEF Handler, FoundHolds
<1>5. /\ job' \in [Thread -> {Idle} \cup Job]
      /\ job'[t].at = "returning" /\ job'[t].doing = job[t].doing /\ job'[t].order = o
      /\ \A u \in Thread \ {t} : job'[u] = job[u]
  BY <1>1, <1>2, Moved
<1> HIDE DEF o
<1>6. row'[o] = "REFUNDING" /\ row' \in [Order -> Status]
  BY <1>1, <1>3 DEF IInv, Types, Status
<1>7. Types'
  BY <1>1, <1>5, <1>6 DEF IInv, Types
<1>8. Handler(t)'
  BY <1>1, <1>3, <1>5, <1>6 DEF Handler, OwnSteps, FoundHolds, CalledBack, TimeoutDone
<1>9. <<row[o], "REFUNDING">> \in LifeCycle \ {<<"none", "UNPAID">>}
  BY <1>4 DEF LifeCycle
<1> QED
  BY <1>1, <1>3, <1>5, <1>7, <1>8, <1>9, RowMoves

\* Nobody has updated a row that is free.
LEMMA FreeRow ==
    ASSUME IInv, NEW t \in Thread, RowFree(t)
    PROVE  \A u \in Thread \ {t} : ~Updates(u, job[t].order)
  BY DEF RowFree, Updates

\* What is not there to be closed is excused; what is past closing stays.
LEMMA CloseTimeoutOrderStep ==
    ASSUME IInv, NEW t \in Thread, CloseTimeoutOrder(t)
    PROVE  IInv'
<1> DEFINE o == job[t].order
<1>1. /\ job[t].at = "closing" /\ RowFree(t) /\ GoTo(t, "returning")
      /\ IF row[o] = "UNPAID" THEN row' = [row EXCEPT ![o] = "CANCELLED"] ELSE UNCHANGED row
      /\ IF row[o] = "none" THEN Excuse("untimed", o) ELSE UNCHANGED excused
      /\ UNCHANGED <<member, queue, creating, timers, callbacks, refunded>>
  BY DEF CloseTimeoutOrder, At, SetRow, CasHolds, createVars, messageVars, gatewayVars
<1>2. job[t].at \in Step /\ "returning" \in Step /\ "returning" \notin Updating
  BY <1>1 DEF Step, Updating
<1>3. /\ o \in Order /\ Handler(t)
      /\ job' \in [Thread -> {Idle} \cup Job]
      /\ job'[t].at = "returning" /\ job'[t].doing = job[t].doing /\ job'[t].order = o
      /\ \A u \in Thread \ {t} : job'[u] = job[u]
  BY <1>1, <1>2, Moved
<1>4. \A u \in Thread \ {t} : ~Updates(u, o)
  BY <1>1, FreeRow
<1> HIDE DEF o
<1>5. CASE row[o] = "UNPAID"
  <2>0. row' = [row EXCEPT ![o] = "CANCELLED"] /\ UNCHANGED excused
    BY <1>1, <1>5
  <2>1. row'[o] = "CANCELLED" /\ row' \in [Order -> Status]
    BY <1>3, <2>0 DEF IInv, Types, Status
  <2>2. Types'
    BY <1>1, <1>3, <2>0, <2>1 DEF IInv, Types
  <2>3. Handler(t)'
    <3>1. OwnSteps(t)' /\ FoundHolds(t)'
      BY <1>3 DEF OwnSteps, FoundHolds
    <3>2. CalledBack(t)'
      BY <1>1, <1>3 DEF Handler, CalledBack, o
    <3>3. TimeoutDone(t)'
      BY <1>3, <2>1 DEF TimeoutDone
    <3> QED
      BY <3>1, <3>2, <3>3 DEF Handler
  <2>4. <<row[o], "CANCELLED">> \in LifeCycle \ {<<"none", "UNPAID">>}
    BY <1>5 DEF LifeCycle
  <2> QED
    BY <1>1, <1>3, <1>4, <2>0, <2>2, <2>3, <2>4, RowMoves
<1>6. CASE row[o] # "UNPAID"
  <2>1. UNCHANGED row
    BY <1>1, <1>6
  <2>2. /\ excused' \in [failed : SUBSET Order, untimed : SUBSET Order,
                         unrefunded : SUBSET Order, overlapped : SUBSET User]
        /\ excused.untimed \subseteq excused'.untimed
        /\ row[o] = "none" => o \in excused'.untimed
    <3>1. CASE row[o] = "none"
      BY <1>1, <1>3, <3>1, ExcuseTypes
    <3>2. CASE row[o] # "none"
      BY <1>1, <3>2 DEF IInv, Types
    <3> QED
      BY <3>1, <3>2
  <2>3. OwnSteps(t)' /\ FoundHolds(t)' /\ TimeoutDone(t)'
    BY <1>1, <1>3, <1>6, <2>1, <2>2 DEF Handler, OwnSteps, FoundHolds, TimeoutDone
  <2>4. refunded' \subseteq Order
    BY <1>1 DEF IInv, Types
  <2> QED
    BY <1>1, <1>2, <2>1, <2>2, <2>3, <2>4, GoOnStep
<1> QED
  BY <1>5, <1>6

LEMMA MarkRefundedStep ==
    ASSUME IInv, NEW t \in Thread, MarkRefunded(t)
    PROVE  IInv'
<1> DEFINE o == job[t].order
<1>1. /\ job[t].at = "marking" /\ RowFree(t) /\ GoTo(t, "returning")
      /\ IF row[o] = "REFUNDING" THEN row' = [row EXCEPT ![o] = "REFUNDED"] ELSE UNCHANGED row
      /\ UNCHANGED <<member, queue, creating, timers, callbacks, refunded, excused>>
  BY DEF MarkRefunded, At, SetRow, CasHolds, createVars, messageVars, gatewayVars
<1>2. job[t].at \in Step /\ "returning" \in Step /\ "returning" \notin Updating
  BY <1>1 DEF Step, Updating
<1>3. /\ o \in Order /\ Handler(t)
      /\ job' \in [Thread -> {Idle} \cup Job]
      /\ job'[t].at = "returning" /\ job'[t].doing = job[t].doing /\ job'[t].order = o
      /\ \A u \in Thread \ {t} : job'[u] = job[u]
  BY <1>1, <1>2, Moved
<1>4. \A u \in Thread \ {t} : ~Updates(u, o)
  BY <1>1, FreeRow
<1>5. job'[t].doing # "timeout"
  BY <1>1, <1>3 DEF Handler, OwnSteps
<1> HIDE DEF o
<1>6. CASE row[o] = "REFUNDING"
  <2>0. row' = [row EXCEPT ![o] = "REFUNDED"]
    BY <1>1, <1>6
  <2>1. row' \in [Order -> Status]
    BY <2>0 DEF IInv, Types, Status
  <2>2. Types'
    BY <1>1, <1>3, <2>1 DEF IInv, Types
  <2>3. OwnSteps(t)' /\ FoundHolds(t)' /\ TimeoutDone(t)'
    BY <1>3, <1>5 DEF OwnSteps, FoundHolds, TimeoutDone
  <2>4. CalledBack(t)'
    BY <1>1, <1>3 DEF Handler, CalledBack, o
  <2>5. <<row[o], "REFUNDED">> \in LifeCycle \ {<<"none", "UNPAID">>}
    BY <1>6 DEF LifeCycle
  <2>6. callbacks[o] > 0
    BY <1>3, <1>6 DEF IInv, PaidFor
  <2>7. Handler(t)'
    BY <2>3, <2>4 DEF Handler
  <2>8. excused.untimed \subseteq excused'.untimed
    BY <1>1
  <2> QED
    BY <1>1, <1>3, <1>4, <2>0, <2>2, <2>5, <2>6, <2>7, <2>8, RowMoves
<1>7. CASE row[o] # "REFUNDING"
  <2>1. UNCHANGED row
    BY <1>1, <1>7
  <2>2. OwnSteps(t)' /\ FoundHolds(t)' /\ TimeoutDone(t)'
    BY <1>3, <1>5 DEF OwnSteps, FoundHolds, TimeoutDone
  <2> QED
    BY <1>1, <1>2, <2>1, <2>2, PlainStep
<1> QED
  BY <1>6, <1>7

--------------------------------------------------------------------------------
(* The theorems. *)

LEMMA InitStep == Init => IInv
<1> SUFFICES ASSUME Init PROVE IInv
  OBVIOUS
<1>1. Types
  BY DEF Init, Types, Status
<1>2. \A t \in Thread : Handler(t) /\ \A o \in Order : ~Updates(t, o)
  BY DEF Init, Idle, Handler, OwnSteps, FoundHolds, CalledBack, TimeoutDone, Updates, Updating
<1>3. \A o \in Order : row[o] = "none"
  BY DEF Init
<1>4. \A u \in User : Consumer(u)
  BY DEF Init, Consumer
<1>5. refunded = {}
  BY DEF Init
<1> QED
  BY <1>1, <1>2, <1>3, <1>4, <1>5 DEF IInv, OneUpdater, PaidFor, MoneyIsUsedOnce, UnpaidIsTimed

LEMMA InductiveStep == IInv /\ [Next]_vars => IInv'
<1> SUFFICES ASSUME IInv, [Next]_vars PROVE IInv'
  OBVIOUS
<1>1. ASSUME NEW o \in Order, Submit(o) PROVE IInv'
  BY <1>1, SubmitStep
<1>2. ASSUME NEW o \in Order, LeaseExpires(o) \/ Duplicate(o) PROVE IInv'
  BY <1>2, UnspokenStep DEF LeaseExpires, Duplicate, orderVars, createVars, messageVars, gatewayVars
<1>3. ASSUME NEW u \in User, Creates(u) \/ CreationFails(u) PROVE IInv'
  BY <1>3, ReceiveStep, SaveStep, CommitOrderStep, CreatedStep, CreationFailsStep DEF Creates
<1>4. ASSUME NEW t \in Thread, Works(t) PROVE IInv'
  BY <1>4, ReadOrderStep, PayAndGrantStep, ReadMembershipStep, CommitGrantStep,
     ReconcileRefundStep, SendRefundStep, CommitRefundingStep, CloseTimeoutOrderStep,
     CheckRefundStep, PayBackStep, MarkRefundedStep, ReturnStep DEF Works
<1>5. ASSUME NEW t \in Thread, Raise(t) \/ Die(t) PROVE IInv'
  BY <1>5, RaiseDieStep
<1>6. ASSUME NEW t \in Thread, NEW o \in Order, Callback(t, o) \/ Takes(t, o) PROVE IInv'
  BY <1>6, CallbackStep, TimeoutStep, RefundStep DEF Takes
<1>7. CASE UNCHANGED vars
  BY <1>7, UnspokenStep DEF vars, orderVars, createVars, messageVars, gatewayVars
<1> QED
  BY <1>1, <1>2, <1>3, <1>4, <1>5, <1>6, <1>7 DEF Next

\* A row moves along its life cycle, or not at all.
LEMMA ForwardStep ==
    ASSUME IInv, [Next]_vars, NEW o \in Order, row'[o] # row[o]
    PROVE  <<row[o], row'[o]>> \in LifeCycle
<1>1. ASSUME NEW p \in Order, Submit(p) \/ LeaseExpires(p) \/ Duplicate(p) PROVE FALSE
  BY <1>1 DEF Submit, LeaseExpires, Duplicate, orderVars
<1>2. ASSUME NEW u \in User, Receive(u) \/ Save(u) \/ Created(u) \/ CreationFails(u) PROVE FALSE
  BY <1>2 DEF Receive, Save, Created, CreationFails, orderVars
<1>3. ASSUME NEW u \in User, CommitOrder(u) PROVE <<row[o], row'[o]>> \in LifeCycle
  <2>1. row' = [row EXCEPT ![Head(queue[u])] = "UNPAID"] /\ row \in [Order -> Status]
        /\ row[Head(queue[u])] = "none"
    BY <1>3 DEF CommitOrder, IInv, Types, Consumer
  <2> QED
    BY <2>1 DEF LifeCycle
<1>4. ASSUME NEW t \in Thread, CommitGrant(t) \/ CommitRefunding(t) \/ CloseTimeoutOrder(t) \/ MarkRefunded(t)
      PROVE  <<row[o], row'[o]>> \in LifeCycle
  <2>1. Handler(t) /\ row \in [Order -> Status]
    BY DEF IInv, Types
  <2>2. CASE CommitGrant(t)
    BY <2>1, <2>2 DEF CommitGrant, At, SetRow, Handler, FoundHolds, LifeCycle
  <2>3. CASE CommitRefunding(t)
    BY <2>1, <2>3 DEF CommitRefunding, At, SetRow, Handler, FoundHolds, LifeCycle
  <2>4. CASE CloseTimeoutOrder(t)
    BY <2>1, <2>4 DEF CloseTimeoutOrder, CasHolds, SetRow, LifeCycle
  <2>5. CASE MarkRefunded(t)
    BY <2>1, <2>5 DEF MarkRefunded, CasHolds, SetRow, LifeCycle
  <2> QED
    BY <1>4, <2>2, <2>3, <2>4, <2>5
<1>5. ASSUME NEW t \in Thread,
             \/ ReadOrder(t) \/ PayAndGrant(t) \/ ReadMembership(t) \/ ReconcileRefund(t)
             \/ SendRefund(t) \/ CheckRefund(t) \/ PayBack(t) \/ Return(t) \/ Raise(t) \/ Die(t)
      PROVE  FALSE
  BY <1>5 DEF ReadOrder, PayAndGrant, ReadMembership, ReconcileRefund, SendRefund, CheckRefund,
     PayBack, Return, Raise, Die, orderVars
<1>6. ASSUME NEW t \in Thread, NEW p \in Order, Callback(t, p) \/ Takes(t, p) PROVE FALSE
  BY <1>6 DEF Callback, Takes, Timeout, Refund, orderVars
<1>7. CASE UNCHANGED vars
  BY <1>7 DEF vars, orderVars
<1> QED
  BY <1>1, <1>2, <1>3, <1>4, <1>5, <1>6, <1>7 DEF Next, Creates, Works

\* The invariant is the system's, for any orders, users, threads and bounds.
THEOREM InductiveInvariant == Spec => []IInv
  BY InitStep, InductiveStep, PTL DEF Spec

\* Money that was paid in buys membership or is paid back, never both, though a
\* callback and the timeout race and the lock's lease may run out in between.
THEOREM MoneyIsSafe == Spec => []MoneyIsUsedOnce
<1>1. IInv => MoneyIsUsedOnce
  BY DEF IInv
<1> QED
  BY <1>1, InductiveInvariant, PTL

\* An unpaid order has its delayed message to come, or is one whose message was
\* not sent or was dropped at a locked order.
THEOREM TimersAreKept == Spec => []UnpaidIsTimed
<1>1. IInv => UnpaidIsTimed
  BY DEF IInv
<1> QED
  BY <1>1, InductiveInvariant, PTL

\* No step takes an order's status back or past its life cycle.
THEOREM StatusesMoveForward == Spec => OrdersMoveForward
<1>1. IInv /\ [Next]_vars => [\A o \in Order : row'[o] # row[o] => <<row[o], row'[o]>> \in LifeCycle]_vars
  BY ForwardStep
<1> QED
  BY <1>1, InductiveInvariant, PTL DEF Spec, OrdersMoveForward

--------------------------------------------------------------------------------
(* One order for a request.  A request's key is set by the consumer that goes on
   to create the order, and no other message of the request gets past the key: so
   an order that has a row, or is being created, is the only such order of its
   request.  The ids are of the client's making: the theorem is about clients that
   do not use each other's. *)

RequestsAreOneUsers ==
    \A click \in Clicks : \A o, p \in Order : click[o] = click[p] => Owner[o] = Owner[p]

InCreation(o) == creating[Owner[o]] # "idle" /\ Head(queue[Owner[o]]) = o
Exists(o) == row[o] # "none" \/ InCreation(o)
Ended(o) == row[o] # "none" \/ o \in excused.failed

CreatedHasRow == \A u \in User : creating[u] = "created" => row[Head(queue[u])] # "none"
ExistsByKey == \A o \in Order : Exists(o) => requestOf[o] \in keys
OneExists == \A o, p \in Order : Exists(o) /\ Exists(p) /\ requestOf[o] = requestOf[p] => o = p
KeysHaveOrders ==
    \A request \in keys : \E p \in Order :
        requestOf[p] = request /\ (InCreation(p) \/ Ended(p))
AnsweredFor(o) == \E p \in Order : requestOf[p] = requestOf[o] /\ Ended(p)
TakenOrWaiting ==
    \A o \in submitted : Contains(queue[Owner[o]], o) \/ AnsweredFor(o)

RequestInv ==
    /\ requestOf \in Clicks /\ submitted \subseteq Order
    /\ CreatedHasRow /\ ExistsByKey /\ OneExists /\ KeysHaveOrders /\ TakenOrWaiting

\* The order a consumer is at is one of its user's.
LEMMA AtHead ==
    ASSUME IInv, NEW u \in User, queue[u] # <<>>
    PROVE  Head(queue[u]) \in Order /\ Owner[Head(queue[u])] = u
<1>1. queue[u] \in Seq(Order) /\ Consumer(u)
  BY DEF IInv, Types
<1>2. 1 \in 1..Len(queue[u]) /\ Head(queue[u]) = queue[u][1] /\ Head(queue[u]) \in Order
  BY <1>1
<1> QED
  BY <1>1, <1>2 DEF Consumer

\* A step by which no order comes to exist, and none that did is forgotten.
LEMMA NoneIsNew ==
    ASSUME RequestInv, UNCHANGED <<requestOf, keys>>,
           \A o \in Order : Exists(o)' => Exists(o),
           \A o \in Order : InCreation(o) \/ Ended(o) => InCreation(o)' \/ Ended(o)'
    PROVE  ExistsByKey' /\ OneExists' /\ KeysHaveOrders'
<1>1. ExistsByKey' /\ OneExists'
  BY DEF RequestInv, ExistsByKey, OneExists
<1>2. KeysHaveOrders'
  BY DEF RequestInv, KeysHaveOrders
<1> QED
  BY <1>1, <1>2

\* A step that leaves creation alone, and gives no order a row that had none.
LEMMA CreationApart ==
    ASSUME IInv, RequestInv, UNCHANGED createVars,
           \A o \in Order : row'[o] # "none" <=> row[o] # "none",
           excused.failed \subseteq excused'.failed
    PROVE  RequestInv'
<1>1. UNCHANGED <<requestOf, keys, queue, creating, submitted>>
  BY DEF createVars
<1>2. /\ \A o \in Order : Exists(o)' <=> Exists(o)
      /\ \A o \in Order : InCreation(o)' <=> InCreation(o)
      /\ \A o \in Order : Ended(o) => Ended(o)'
  BY <1>1 DEF Exists, InCreation, Ended
<1>3. ExistsByKey' /\ OneExists' /\ KeysHaveOrders'
  BY <1>1, <1>2, NoneIsNew
<1>4. CreatedHasRow'
  <2> SUFFICES ASSUME NEW u \in User, creating[u] = "created"
               PROVE  row'[Head(queue[u])] # "none"
    BY <1>1 DEF CreatedHasRow
  <2>1. Head(queue[u]) \in Order
    BY AtHead DEF IInv, Consumer
  <2> QED
    BY <2>1 DEF RequestInv, CreatedHasRow
<1>5. TakenOrWaiting'
  BY <1>1, <1>2 DEF RequestInv, TakenOrWaiting, AnsweredFor
<1> QED
  BY <1>1, <1>3, <1>4, <1>5 DEF RequestInv

\* A message acknowledged whose request has been answered for.
LEMMA AcknowledgedRequest ==
    ASSUME IInv, RequestInv, NEW u \in User, queue[u] # <<>>, Acknowledge(u),
           UNCHANGED <<row, requestOf, keys, submitted>>,
           creating[u] # "idle" => row[Head(queue[u])] # "none",
           AnsweredFor(Head(queue[u])),
           excused.failed \subseteq excused'.failed
    PROVE  RequestInv'
<1> DEFINE o == Head(queue[u])
<1>1. o \in Order /\ Owner[o] = u /\ queue[u] \in Seq(Order)
  BY AtHead DEF IInv, Types
<1>2. /\ queue'[u] = Tail(queue[u]) /\ creating'[u] = "idle"
      /\ \A v \in User \ {u} : queue'[v] = queue[v] /\ creating'[v] = creating[v]
  BY DEF Acknowledge, IInv, Types
<1>3. \A p \in Order : Ended(p) => Ended(p)'
  BY DEF Ended
<1>4. ASSUME NEW p \in Order
      PROVE  /\ Exists(p)' => Exists(p)
             /\ InCreation(p) => InCreation(p)' \/ Ended(p)
  <2>1. CASE Owner[p] = u
    BY <1>2, <2>1 DEF Exists, InCreation, Ended
  <2>2. CASE Owner[p] # u
    BY <1>2, <2>2 DEF Exists, InCreation
  <2> QED
    BY <2>1, <2>2
<1>5. ExistsByKey' /\ OneExists' /\ KeysHaveOrders'
  BY <1>3, <1>4, NoneIsNew
<1>6. CreatedHasRow'
  BY <1>2 DEF RequestInv, CreatedHasRow
<1>7. TakenOrWaiting'
  <2> SUFFICES ASSUME NEW p \in submitted, ~AnsweredFor(p)'
               PROVE  Contains(queue'[Owner[p]], p)
    BY DEF TakenOrWaiting
  <2>1. p \in Order /\ ~AnsweredFor(p)
    BY <1>3 DEF RequestInv, AnsweredFor
  <2>2. Contains(queue[Owner[p]], p)
    BY <2>1 DEF RequestInv, TakenOrWaiting
  <2>3. CASE Owner[p] # u
    BY <1>2, <2>1, <2>2, <2>3
  <2>4. CASE Owner[p] = u
    <3>1. PICK i \in 1..Len(queue[u]) : queue[u][i] = p
      BY <2>2, <2>4 DEF Contains
    <3>2. p # o
      BY <2>1
    <3>3. i # 1
      BY <1>1, <3>1, <3>2
    <3>4. i - 1 \in 1..Len(Tail(queue[u])) /\ Tail(queue[u])[i - 1] = queue[u][i]
      BY <1>1, <3>1, <3>3
    <3> QED
      BY <1>2, <2>4, <3>1, <3>4 DEF Contains
  <2> QED
    BY <2>3, <2>4
<1> QED
  BY <1>5, <1>6, <1>7 DEF RequestInv

LEMMA SubmitRequest ==
    ASSUME IInv, RequestInv, NEW o \in Order, Submit(o)
    PROVE  RequestInv'
<1> DEFINE u == Owner[o]
<1>1. u \in User /\ queue[u] \in Seq(Order)
  BY DEF IInv, Types
<1>2. /\ queue' = [queue EXCEPT ![u] = Append(queue[u], o)] /\ submitted' = submitted \cup {o}
      /\ UNCHANGED <<row, requestOf, keys, creating, excused>>
  BY DEF Submit, orderVars
<1>3. /\ queue'[u] = Append(queue[u], o)
      /\ \A v \in User \ {u} : queue'[v] = queue[v]
      /\ \A v \in User : queue[v] # <<>> => Head(queue'[v]) = Head(queue[v])
  BY <1>1, <1>2 DEF IInv, Types
<1>4. \A v \in User : creating[v] # "idle" => queue[v] # <<>>
  BY DEF IInv, Consumer
<1>5. \A p \in Order : /\ InCreation(p)' <=> InCreation(p)
                       /\ Exists(p)' <=> Exists(p)
                       /\ Ended(p)' <=> Ended(p)
  BY <1>2, <1>3, <1>4 DEF InCreation, Exists, Ended
<1>6. ExistsByKey' /\ OneExists' /\ KeysHaveOrders'
  BY <1>2, <1>5, NoneIsNew
<1>7. CreatedHasRow'
  BY <1>2, <1>3, <1>4 DEF RequestInv, CreatedHasRow
<1>8. \A p \in Order : Contains(queue[Owner[p]], p) => Contains(queue'[Owner[p]], p)
  <2> SUFFICES ASSUME NEW p \in Order, Owner[p] = u, Contains(queue[u], p)
               PROVE  Contains(queue'[u], p)
    BY <1>3
  <2>1. PICK i \in 1..Len(queue[u]) : queue[u][i] = p
    BY DEF Contains
  <2>2. i \in 1..Len(queue'[u]) /\ queue'[u][i] = p
    BY <1>1, <1>3, <2>1
  <2> QED
    BY <2>2 DEF Contains
<1>9. Contains(queue'[u], o)
  <2>1. Len(queue[u]) + 1 \in 1..Len(queue'[u]) /\ queue'[u][Len(queue[u]) + 1] = o
    BY <1>1, <1>3
  <2> QED
    BY <2>1 DEF Contains
<1>10. TakenOrWaiting'
  BY <1>2, <1>5, <1>8, <1>9 DEF RequestInv, TakenOrWaiting, AnsweredFor
<1> QED
  BY <1>2, <1>6, <1>7, <1>10 DEF RequestInv

\* The key decides: the first message of a request has its order created, any
\* other is skipped.
LEMMA ReceiveRequest ==
    ASSUME RequestsAreOneUsers, IInv, RequestInv, NEW u \in User, Receive(u)
    PROVE  RequestInv'
<1> DEFINE o == Head(queue[u])
<1>1. /\ queue[u] # <<>> /\ creating[u] = "idle"
      /\ UNCHANGED <<row, requestOf, submitted, excused>>
  BY DEF Receive, orderVars
<1>2. o \in Order /\ Owner[o] = u
  BY <1>1, AtHead
<1>3. CASE FirstSeen(o)
  <2>1. /\ keys' = keys \cup {requestOf[o]} /\ creating' = [creating EXCEPT ![u] = "keyed"]
        /\ queue' = queue /\ requestOf[o] \notin keys
    BY <1>3 DEF Receive, FirstSeen
  <2>2. creating'[u] = "keyed" /\ \A v \in User \ {u} : creating'[v] = creating[v]
    BY <2>1 DEF IInv, Types
  <2>3. \A p \in Order : /\ InCreation(p)' <=> InCreation(p) \/ p = o
                         /\ Exists(p)' <=> Exists(p) \/ p = o
                         /\ Ended(p)' <=> Ended(p)
    <3>1. ASSUME NEW p \in Order PROVE InCreation(p)' <=> InCreation(p) \/ p = o
      <4>1. CASE Owner[p] = u
        BY <1>1, <2>1, <2>2, <4>1 DEF InCreation
      <4>2. CASE Owner[p] # u
        BY <1>2, <2>1, <2>2, <4>2 DEF InCreation, IInv, Types
      <4> QED
        BY <4>1, <4>2
    <3> QED
      BY <1>1, <3>1 DEF Exists, Ended
  <2>4. ExistsByKey'
    BY <1>1, <2>1, <2>3 DEF RequestInv, ExistsByKey
  <2>5. OneExists'
    <3>1. \A p \in Order : Exists(p) => requestOf[p] # requestOf[o]
      BY <2>1 DEF RequestInv, ExistsByKey
    <3> QED
      BY <1>1, <2>3, <3>1 DEF RequestInv, OneExists
  <2>6. KeysHaveOrders'
    BY <1>1, <1>2, <2>1, <2>3 DEF RequestInv, KeysHaveOrders
  <2>7. CreatedHasRow'
    BY <1>1, <2>1, <2>2 DEF RequestInv, CreatedHasRow
  <2>8. TakenOrWaiting'
    BY <1>1, <2>1, <2>3 DEF RequestInv, TakenOrWaiting, AnsweredFor
  <2> QED
    BY <1>1, <2>4, <2>5, <2>6, <2>7, <2>8 DEF RequestInv
<1>4. CASE ~FirstSeen(o)
  <2>1. Acknowledge(u) /\ keys' = keys /\ requestOf[o] \in keys
    BY <1>4 DEF Receive, FirstSeen
  <2>2. PICK p \in Order : requestOf[p] = requestOf[o] /\ (InCreation(p) \/ Ended(p))
    BY <2>1 DEF RequestInv, KeysHaveOrders
  <2>3. Owner[p] = u
    BY <1>2, <2>2 DEF RequestsAreOneUsers, RequestInv
  <2>4. AnsweredFor(o)
    BY <1>1, <2>2, <2>3 DEF InCreation, AnsweredFor
  <2> QED
    BY <1>1, <2>1, <2>4, AcknowledgedRequest
<1> QED
  BY <1>3, <1>4

\* The other steps of a user's consumer.
LEMMA CreationRequest ==
    ASSUME IInv, RequestInv, NEW u \in User,
           Save(u) \/ CommitOrder(u) \/ Created(u) \/ CreationFails(u)
    PROVE  RequestInv'
<1> DEFINE o == Head(queue[u])
<1>1. creating[u] # "idle" /\ queue[u] # <<>>
  BY DEF Save, CommitOrder, Created, CreationFails, IInv, Consumer
<1>2. o \in Order /\ Owner[o] = u
  BY <1>1, AtHead
<1>3. CASE row[o] # "none" /\ Acknowledge(u) /\ UNCHANGED <<row, requestOf, keys, submitted>>
           /\ excused.failed \subseteq excused'.failed
  <2>1. AnsweredFor(o)
    BY <1>2, <1>3 DEF AnsweredFor, Ended
  <2> QED
    BY <1>1, <1>3, <2>1, AcknowledgedRequest
<1>4. CASE Save(u)
  <2>1. CASE row[o] # "none"
    BY <1>3, <1>4, <2>1 DEF Save, orderVars
  <2>2. CASE row[o] = "none"
    <3>1. /\ creating' = [creating EXCEPT ![u] = "saved"]
          /\ UNCHANGED <<row, requestOf, keys, submitted, queue>>
      BY <1>4, <2>2 DEF Save, orderVars
    <3>2. excused'.failed = excused.failed
      <4>1. excused' = excused \/ Excuse("untimed", o)
        BY <1>4, <2>2 DEF Save
      <4> QED
        BY <4>1 DEF Excuse, IInv, Types
    <3>3. creating'[u] = "saved" /\ \A v \in User \ {u} : creating'[v] = creating[v]
      BY <3>1 DEF IInv, Types
    <3>4. \A p \in Order : InCreation(p)' <=> InCreation(p)
      BY <1>1, <3>1, <3>3 DEF InCreation, IInv, Types
    <3>5. \A p \in Order : (Exists(p)' <=> Exists(p)) /\ (Ended(p)' <=> Ended(p))
      BY <3>1, <3>2, <3>4 DEF Exists, Ended
    <3>6. ExistsByKey' /\ OneExists' /\ KeysHaveOrders'
      BY <3>1, <3>4, <3>5, NoneIsNew
    <3>7. CreatedHasRow' /\ TakenOrWaiting'
      BY <3>1, <3>3, <3>5 DEF RequestInv, CreatedHasRow, TakenOrWaiting, AnsweredFor
    <3> QED
      BY <3>1, <3>6, <3>7 DEF RequestInv
  <2> QED
    BY <2>1, <2>2
<1>5. CASE CommitOrder(u)
  <2>1. /\ row' = [row EXCEPT ![o] = "UNPAID"] /\ creating' = [creating EXCEPT ![u] = "created"]
        /\ UNCHANGED <<requestOf, keys, submitted, queue, excused>>
    BY <1>5 DEF CommitOrder
  <2>2. /\ creating'[u] = "created" /\ \A v \in User \ {u} : creating'[v] = creating[v]
        /\ row'[o] # "none" /\ \A p \in Order \ {o} : row'[p] = row[p]
    BY <1>2, <2>1 DEF IInv, Types
  <2>3. \A p \in Order : InCreation(p)' <=> InCreation(p)
    BY <1>1, <2>1, <2>2 DEF InCreation, IInv, Types
  <2>4. \A p \in Order : (Exists(p)' <=> Exists(p)) /\ (Ended(p) => Ended(p)')
    BY <1>1, <1>2, <2>1, <2>2, <2>3 DEF Exists, Ended, InCreation
  <2>5. ExistsByKey' /\ OneExists' /\ KeysHaveOrders'
    BY <2>1, <2>3, <2>4, NoneIsNew
  <2>6. CreatedHasRow'
    <3>1. ASSUME NEW v \in User, v # u, creating[v] = "created"
          PROVE  row'[Head(queue[v])] # "none"
      <4>1. Head(queue[v]) \in Order
        BY <3>1, AtHead DEF IInv, Consumer
      <4> QED
        BY <2>2, <3>1, <4>1 DEF RequestInv, CreatedHasRow
    <3> QED
      BY <2>1, <2>2, <3>1 DEF CreatedHasRow
  <2>7. TakenOrWaiting'
    BY <2>1, <2>4 DEF RequestInv, TakenOrWaiting, AnsweredFor
  <2> QED
    BY <2>1, <2>5, <2>6, <2>7 DEF RequestInv
<1>6. CASE Created(u)
  <2>1. row[o] # "none"
    BY <1>6 DEF Created, RequestInv, CreatedHasRow
  <2> QED
    BY <1>3, <1>6, <2>1 DEF Created, orderVars
<1>7. CASE CreationFails(u)
  <2>1. /\ creating' = [creating EXCEPT ![u] = "idle"] /\ Excuse("failed", o)
        /\ UNCHANGED <<row, requestOf, keys, submitted, queue>>
    BY <1>7 DEF CreationFails, orderVars
  <2>2. excused'.failed = excused.failed \cup {o}
    BY <2>1 DEF Excuse, IInv, Types
  <2>3. creating'[u] = "idle" /\ \A v \in User \ {u} : creating'[v] = creating[v]
    BY <2>1 DEF IInv, Types
  <2>4. \A p \in Order : /\ InCreation(p)' => InCreation(p)
                         /\ InCreation(p) => InCreation(p)' \/ p = o
    BY <2>1, <2>3 DEF InCreation, IInv, Types
  <2>5. \A p \in Order : /\ Exists(p)' => Exists(p)
                         /\ InCreation(p) \/ Ended(p) => InCreation(p)' \/ Ended(p)'
                         /\ Ended(p) => Ended(p)'
    BY <2>1, <2>2, <2>4 DEF Exists, Ended
  <2>6. ExistsByKey' /\ OneExists' /\ KeysHaveOrders'
    BY <2>1, <2>5, NoneIsNew
  <2>7. CreatedHasRow' /\ TakenOrWaiting'
    BY <2>1, <2>3, <2>5 DEF RequestInv, CreatedHasRow, TakenOrWaiting, AnsweredFor
  <2> QED
    BY <2>1, <2>6, <2>7 DEF RequestInv
<1> QED
  BY <1>4, <1>5, <1>6, <1>7

\* What handlers write into rows takes none that is not there, and leaves none out.
LEMMA HandlerRequest ==
    ASSUME IInv, RequestInv, NEW t \in Thread, Works(t)
    PROVE  RequestInv'
<1>1. UNCHANGED createVars
  BY DEF Works, ReadOrder, PayAndGrant, ReadMembership, CommitGrant, ReconcileRefund, SendRefund,
     CommitRefunding, CloseTimeoutOrder, CheckRefund, PayBack, MarkRefunded, Return
<1>2. excused'.failed = excused.failed
  <2>1. \/ excused' = excused
        \/ \E why \in {"untimed", "unrefunded", "overlapped"} : \E x : Excuse(why, x)
    BY DEF Works, ReadOrder, PayAndGrant, ReadMembership, CommitGrant, ReconcileRefund, SendRefund,
       CommitRefunding, CloseTimeoutOrder, CheckRefund, PayBack, MarkRefunded, Return
  <2> QED
    BY <2>1 DEF Excuse, IInv, Types
<1>3. \A o \in Order : row'[o] # "none" <=> row[o] # "none"
  <2>1. ASSUME NEW status \in Status \ {"none"}, SetRow(t, status), row[job[t].order] # "none"
        PROVE  \A o \in Order : row'[o] # "none" <=> row[o] # "none"
    BY <2>1 DEF SetRow, IInv, Types
  <2>2. Handler(t)
    BY DEF IInv
  <2>3. CASE CommitGrant(t)
    BY <2>1, <2>2, <2>3 DEF CommitGrant, At, Handler, FoundHolds, Status
  <2>4. CASE CommitRefunding(t)
    BY <2>1, <2>2, <2>4 DEF CommitRefunding, At, Handler, FoundHolds, Status
  <2>5. CASE CloseTimeoutOrder(t)
    BY <2>1, <2>5 DEF CloseTimeoutOrder, CasHolds, Status
  <2>6. CASE MarkRefunded(t)
    BY <2>1, <2>6 DEF MarkRefunded, CasHolds, Status
  <2>7. CASE \/ ReadOrder(t) \/ PayAndGrant(t) \/ ReadMembership(t) \/ ReconcileRefund(t)
             \/ SendRefund(t) \/ CheckRefund(t) \/ PayBack(t) \/ Return(t)
    BY <2>7 DEF ReadOrder, PayAndGrant, ReadMembership, ReconcileRefund, SendRefund, CheckRefund,
       PayBack, Return, orderVars
  <2> QED
    BY <2>3, <2>4, <2>5, <2>6, <2>7 DEF Works
<1> QED
  BY <1>1, <1>2, <1>3, CreationApart

LEMMA RequestStep ==
    ASSUME RequestsAreOneUsers, IInv, RequestInv, [Next]_vars
    PROVE  RequestInv'
<1>1. ASSUME UNCHANGED <<orderVars, createVars>>, excused'.failed = excused.failed
      PROVE  RequestInv'
  BY <1>1, CreationApart DEF orderVars
<1>2. ASSUME NEW o \in Order, Submit(o) \/ LeaseExpires(o) \/ Duplicate(o)
      PROVE  RequestInv'
  BY <1>1, <1>2, SubmitRequest DEF LeaseExpires, Duplicate
<1>3. ASSUME NEW u \in User, Creates(u) \/ CreationFails(u)
      PROVE  RequestInv'
  BY <1>3, ReceiveRequest, CreationRequest DEF Creates
<1>4. ASSUME NEW t \in Thread, Works(t) \/ Raise(t) \/ Die(t)
      PROVE  RequestInv'
  BY <1>1, <1>4, HandlerRequest DEF Raise, Die
<1>5. ASSUME NEW t \in Thread, NEW o \in Order, Callback(t, o) \/ Takes(t, o)
      PROVE  RequestInv'
  <2>1. UNCHANGED <<orderVars, createVars>>
    BY <1>5 DEF Callback, Takes, Timeout, Refund
  <2>2. excused' = excused \/ \E why \in {"untimed", "unrefunded"} : Excuse(why, o)
    BY <1>5 DEF Callback, Takes, Timeout, Refund
  <2>3. excused'.failed = excused.failed
    BY <2>2 DEF Excuse, IInv, Types
  <2> QED
    BY <1>1, <2>1, <2>3
<1>6. CASE UNCHANGED vars
  BY <1>1, <1>6 DEF vars
<1> QED
  BY <1>2, <1>3, <1>4, <1>5, <1>6 DEF Next

\* A request makes one order however often it is clicked and its message comes, if
\* clients do not use each other's request ids; and an id a user was given is of
\* an order to come, of a repeated request, or of one whose creation failed.
THEOREM OneOrderForARequest ==
    ASSUME RequestsAreOneUsers
    PROVE  Spec => []OneOrderPerRequest
<1>1. Init => RequestInv
  BY DEF Init, RequestInv, CreatedHasRow, ExistsByKey, OneExists, KeysHaveOrders, TakenOrWaiting,
         Exists, InCreation
<1>2. IInv /\ RequestInv /\ [Next]_vars => RequestInv'
  BY RequestStep
<1>3. RequestInv => OneOrderPerRequest
  <2> SUFFICES ASSUME RequestInv PROVE OneOrderPerRequest
    OBVIOUS
  <2>1. \A o, p \in Order :
            requestOf[o] = requestOf[p] /\ row[o] # "none" /\ row[p] # "none" => o = p
    BY DEF RequestInv, OneExists, Exists
  <2>2. \A o \in submitted : ~Contains(queue[Owner[o]], o) =>
            \E p \in Order : requestOf[p] = requestOf[o] /\ (row[p] # "none" \/ p \in excused.failed)
    BY DEF RequestInv, TakenOrWaiting, AnsweredFor, Ended
  <2> QED
    BY <2>1, <2>2 DEF OneOrderPerRequest
<1> QED
  BY <1>1, <1>2, <1>3, InductiveInvariant, PTL DEF Spec

--------------------------------------------------------------------------------
(* Membership is what was bought.  Grants of one user may overlap, as the lock is
   per order: what a grant read may be less than the user has by its commit, never
   more than the user's paid orders are worth, as no order leaves PAID. *)

MemberInv ==
    /\ MembershipIsBought
    /\ \A t \in Thread : job[t].at = "granting" => job[t].seen <= Bought(OwnerOf(t))

LEMMA BoughtType ==
    ASSUME NEW u \in User
    PROVE  IsFiniteSet(PaidOrders(u)) /\ Bought(u) \in Nat
<1>1. IsFiniteSet(PaidOrders(u)) /\ PaidOrders(u) \subseteq Order
  BY FS_Subset DEF PaidOrders
<1> QED
  BY <1>1, SumType DEF Bought

\* A granting thread has read a number, of an order's owner.
LEMMA Granting ==
    ASSUME Types, NEW t \in Thread, job[t].at = "granting"
    PROVE  job[t].seen \in Nat /\ job[t].order \in Order /\ OwnerOf(t) \in User
<1>1. job[t].at \in Step
  BY DEF Step, Updating
<1>2. job[t] \in Job /\ job[t].order \in Order
  BY <1>1, BusyJob
<1> QED
  BY <1>2 DEF Job, OwnerOf

\* Steps that neither pay an order nor read or write a membership.
LEMMA MembersApart ==
    ASSUME MemberInv, member' = member, excused'.overlapped = excused.overlapped,
           \A o \in Order : row'[o] = "PAID" <=> row[o] = "PAID",
           \A t \in Thread : job'[t].at = "granting" => job'[t] = job[t]
    PROVE  MemberInv'
<1>1. \A u \in User : Bought(u)' = Bought(u)
  BY DEF Bought, PaidOrders
<1>2. MembershipIsBought'
  BY <1>1 DEF MemberInv, MembershipIsBought
<1>3. ASSUME NEW t \in Thread, job'[t].at = "granting" PROVE job'[t].seen <= Bought(OwnerOf(t))'
  <2>1. job'[t] = job[t] /\ OwnerOf(t)' = OwnerOf(t)
    BY <1>3 DEF OwnerOf
  <2>2. Bought(OwnerOf(t))' = Bought(OwnerOf(t))
    BY <2>1 DEF Bought, PaidOrders
  <2> QED
    BY <1>3, <2>1, <2>2 DEF MemberInv
<1> QED
  BY <1>2, <1>3 DEF MemberInv

\* What is read is what the user has, and so no more than was bought.
LEMMA ReadMembershipMembers ==
    ASSUME IInv, MemberInv, NEW t \in Thread, ReadMembership(t)
    PROVE  MemberInv'
<1>1. /\ job[t].at = "crediting"
      /\ UNCHANGED <<row, member, excused>>
      /\ job' = [job EXCEPT ![t] = [job[t] EXCEPT !.at = "granting", !.seen = member[OwnerOf(t)]]]
  BY DEF ReadMembership, At, orderVars
<1>2. job[t].at \in Step
  BY <1>1 DEF Step, Updating
<1>3. job[t] \in Job /\ job[t].order \in Order
  BY <1>2, BusyJob DEF IInv
<1>4. /\ job'[t] = [job[t] EXCEPT !.at = "granting", !.seen = member[OwnerOf(t)]]
      /\ \A other \in Thread \ {t} : job'[other] = job[other]
  BY <1>1 DEF IInv, Types
<1>5. job'[t].seen = member[OwnerOf(t)] /\ job'[t].order = job[t].order
  BY <1>3, <1>4 DEF Job
<1>6. \A u \in User : Bought(u)' = Bought(u)
  BY <1>1 DEF Bought, PaidOrders
<1>7. MembershipIsBought'
  BY <1>1, <1>6 DEF MemberInv, MembershipIsBought
<1>8. ASSUME NEW other \in Thread, job'[other].at = "granting"
      PROVE  job'[other].seen <= Bought(OwnerOf(other))'
  <2>1. CASE other = t
    <3>1. OwnerOf(t) \in User /\ OwnerOf(t)' = OwnerOf(t)
      BY <1>3, <1>5 DEF OwnerOf
    <3>2. member[OwnerOf(t)] <= Bought(OwnerOf(t))
      BY <3>1 DEF MemberInv, MembershipIsBought
    <3>3. Bought(OwnerOf(t))' = Bought(OwnerOf(t))
      BY <1>1, <3>1 DEF Bought, PaidOrders
    <3> QED
      BY <1>5, <2>1, <3>2, <3>3
  <2>2. CASE other # t
    <3>1. job'[other] = job[other] /\ OwnerOf(other)' = OwnerOf(other)
      BY <1>4, <2>2 DEF OwnerOf
    <3>2. Bought(OwnerOf(other))' = Bought(OwnerOf(other))
      BY <1>1, <3>1 DEF Bought, PaidOrders
    <3> QED
      BY <1>8, <3>1, <3>2 DEF MemberInv
  <2> QED
    BY <2>1, <2>2
<1> QED
  BY <1>7, <1>8 DEF MemberInv

\* The order becomes PAID with the write of its days to what was read.
LEMMA CommitGrantMembers ==
    ASSUME IInv, MemberInv, NEW t \in Thread, CommitGrant(t)
    PROVE  MemberInv'
<1>0. job[t].at = "granting" /\ job[t].seen \in Nat /\ job[t].order \in Order /\ OwnerOf(t) \in User
  BY Granting DEF CommitGrant, At, IInv
<1>1. PICK o \in Order, u \in User, seen \in Nat :
          o = job[t].order /\ u = OwnerOf(t) /\ u = Owner[o] /\ seen = job[t].seen
  BY <1>0 DEF OwnerOf
<1>2. /\ row' = [row EXCEPT ![o] = "PAID"]
      /\ member' = [member EXCEPT ![u] = seen + Days[o]]
      /\ job' = [job EXCEPT ![t] = [job[t] EXCEPT !.at = "returning", !.seen = 0]]
      /\ IF member[u] = seen THEN UNCHANGED excused ELSE Excuse("overlapped", u)
  BY <1>1 DEF CommitGrant, SetRow
<1>3. job[t] \in Job /\ row[o] = "UNPAID" /\ Days[o] \in Nat
  BY <1>0, <1>1, BusyJob DEF IInv, Step, Updating, Handler, FoundHolds
<1>4. seen <= Bought(u) /\ member[u] <= Bought(u) /\ member[u] \in Nat
      /\ (u \notin excused.overlapped => member[u] = Bought(u))
  BY <1>0, <1>1 DEF MemberInv, MembershipIsBought, IInv, Types
<1>5. /\ row'[o] = "PAID" /\ \A p \in Order \ {o} : row'[p] = row[p]
      /\ member'[u] = seen + Days[o] /\ \A v \in User \ {u} : member'[v] = member[v]
  BY <1>2 DEF IInv, Types
<1>6. job'[t].at = "returning" /\ \A other \in Thread \ {t} : job'[other] = job[other]
  BY <1>2, <1>3 DEF IInv, Types, Job
<1>7. Bought(u)' = Bought(u) + Days[o]
  <2>1. o \notin PaidOrders(u) /\ PaidOrders(u)' = PaidOrders(u) \cup {o}
    BY <1>1, <1>3, <1>5 DEF PaidOrders
  <2>2. SumOver(Days, PaidOrders(u) \cup {o}) = SumOver(Days, PaidOrders(u)) + Days[o]
    <3>1. IsFiniteSet(PaidOrders(u)) /\ PaidOrders(u) \subseteq Order
      BY BoughtType DEF PaidOrders
    <3>2. \A p \in PaidOrders(u) \cup {o} : Days[p] \in Nat
      BY <3>1
    <3> QED
      BY <2>1, <3>1, <3>2, SumAdd
  <2> QED
    BY <2>1, <2>2 DEF Bought
<1>8. \A v \in User \ {u} : Bought(v)' = Bought(v)
  <2>1. \A v \in User \ {u} : PaidOrders(v)' = PaidOrders(v)
    BY <1>1, <1>5 DEF PaidOrders
  <2> QED
    BY <2>1 DEF Bought
<1>9. /\ \A v \in User \ {u} : v \in excused.overlapped => v \in excused'.overlapped
      /\ u \notin excused'.overlapped => u \notin excused.overlapped /\ member[u] = seen
  <2>1. CASE member[u] = seen
    BY <1>2, <2>1
  <2>2. CASE member[u] # seen
    <3>1. excused'.overlapped = excused.overlapped \cup {u}
      BY <1>2, <2>2 DEF Excuse, IInv, Types
    <3> QED
      BY <3>1
  <2> QED
    BY <2>1, <2>2
<1>10. MembershipIsBought'
  <2>1. ASSUME NEW v \in User
        PROVE  member'[v] <= Bought(v)' /\ (v \notin excused'.overlapped => member'[v] = Bought(v)')
    <3>1. CASE v = u
      <4>1. Bought(u) \in Nat
        BY BoughtType
      <4>2. /\ member'[u] = seen + Days[o] /\ Bought(u)' = Bought(u) + Days[o]
            /\ seen <= Bought(u) /\ Days[o] \in Nat
            /\ u \notin excused'.overlapped => seen = Bought(u)
        BY <1>3, <1>4, <1>5, <1>7, <1>9
      <4> QED
        BY <3>1, <4>1, <4>2
    <3>2. CASE v # u
      BY <1>5, <1>8, <1>9, <3>2 DEF MemberInv, MembershipIsBought
    <3> QED
      BY <3>1, <3>2
  <2> QED
    BY <2>1 DEF MembershipIsBought
<1>11. ASSUME NEW other \in Thread, job'[other].at = "granting"
       PROVE  job'[other].seen <= Bought(OwnerOf(other))'
  <2>1. other # t /\ job'[other] = job[other]
    BY <1>6, <1>11
  <2>2. job[other].seen \in Nat /\ OwnerOf(other) \in User
    BY <1>11, <2>1, Granting DEF IInv
  <2>3. PICK v \in User : v = OwnerOf(other) /\ v = OwnerOf(other)'
    BY <2>1, <2>2 DEF OwnerOf
  <2>4. job[other].seen <= Bought(v) /\ Bought(v) \in Nat
    BY <1>11, <2>1, <2>3, BoughtType DEF MemberInv
  <2>5. Bought(v)' = Bought(v) \/ Bought(v)' = Bought(v) + Days[o]
    BY <1>7, <1>8
  <2>6. Bought(OwnerOf(other))' = Bought(v)'
    BY <2>3 DEF Bought, PaidOrders
  <2>7. job[other].seen <= Bought(v)'
    BY <1>3, <2>2, <2>4, <2>5
  <2> QED
    BY <2>1, <2>6, <2>7
<1> QED
  BY <1>10, <1>11 DEF MemberInv

\* Every other step of a handler.
LEMMA HandlerMembers ==
    ASSUME IInv, MemberInv, NEW t \in Thread, Works(t)
    PROVE  MemberInv'
<1>1. CASE ReadMembership(t)
  BY <1>1, ReadMembershipMembers
<1>2. CASE CommitGrant(t)
  BY <1>2, CommitGrantMembers
<1>3. CASE ~ReadMembership(t) /\ ~CommitGrant(t)
  <2>1. member' = member
    BY <1>3 DEF Works, ReadOrder, PayAndGrant, ReconcileRefund, SendRefund, CommitRefunding,
       CloseTimeoutOrder, CheckRefund, PayBack, MarkRefunded, Return, orderVars
  <2>2. excused'.overlapped = excused.overlapped
    <3>1. \/ excused' = excused
          \/ \E why \in {"untimed", "unrefunded"} : \E x : Excuse(why, x)
      BY <1>3 DEF Works, ReadOrder, PayAndGrant, ReconcileRefund, SendRefund, CommitRefunding,
         CloseTimeoutOrder, CheckRefund, PayBack, MarkRefunded, Return
    <3> QED
      BY <3>1 DEF Excuse, IInv, Types
  <2>3. \A o \in Order : row'[o] = "PAID" <=> row[o] = "PAID"
    <3>1. ASSUME NEW status \in {"CANCELLED", "REFUNDING", "REFUNDED"}, SetRow(t, status),
                 row[job[t].order] # "PAID"
          PROVE  \A o \in Order : row'[o] = "PAID" <=> row[o] = "PAID"
      BY <3>1 DEF SetRow, IInv, Types
    <3>2. Handler(t)
      BY DEF IInv
    <3>3. CASE CommitRefunding(t)
      BY <3>1, <3>2, <3>3 DEF CommitRefunding, At, Handler, FoundHolds
    <3>4. CASE CloseTimeoutOrder(t)
      BY <3>1, <3>4 DEF CloseTimeoutOrder, CasHolds
    <3>5. CASE MarkRefunded(t)
      BY <3>1, <3>5 DEF MarkRefunded, CasHolds
    <3>6. CASE \/ ReadOrder(t) \/ PayAndGrant(t) \/ ReconcileRefund(t)
               \/ SendRefund(t) \/ CheckRefund(t) \/ PayBack(t) \/ Return(t)
      BY <3>6 DEF ReadOrder, PayAndGrant, ReconcileRefund, SendRefund, CheckRefund,
         PayBack, Return, orderVars
    <3> QED
      BY <1>3, <3>3, <3>4, <3>5, <3>6 DEF Works
  <2>4. /\ \E step \in Step \ {"granting"} : GoTo(t, step) /\ job[t].at \in Step
        \/ job' = [job EXCEPT ![t] = Idle]
    BY <1>3 DEF Works, ReadOrder, PayAndGrant, ReconcileRefund, SendRefund, CommitRefunding,
       CloseTimeoutOrder, CheckRefund, PayBack, MarkRefunded, Return, At, Step, Updating
  <2>5. job'[t].at # "granting" /\ \A other \in Thread \ {t} : job'[other] = job[other]
    BY <2>4, GoingOn, Ending DEF IInv
  <2> QED
    BY <2>1, <2>2, <2>3, <2>5, MembersApart
<1> QED
  BY <1>1, <1>2, <1>3

LEMMA MemberStep ==
    ASSUME IInv, MemberInv, [Next]_vars
    PROVE  MemberInv'
<1>1. ASSUME UNCHANGED <<row, member, job>>, excused'.overlapped = excused.overlapped
      PROVE  MemberInv'
  BY <1>1, MembersApart
<1>2. ASSUME NEW o \in Order, Submit(o) \/ LeaseExpires(o) \/ Duplicate(o)
      PROVE  MemberInv'
  BY <1>1, <1>2 DEF Submit, LeaseExpires, Duplicate, orderVars
<1>3. ASSUME NEW u \in User, Creates(u) \/ CreationFails(u)
      PROVE  MemberInv'
  <2>1. \/ excused' = excused
        \/ \E why \in {"untimed", "failed"} : \E x : Excuse(why, x)
    BY <1>3 DEF Creates, Receive, Save, CommitOrder, Created, CreationFails
  <2>2. excused'.overlapped = excused.overlapped
    BY <2>1 DEF Excuse, IInv, Types
  <2>3. UNCHANGED <<member, job>>
    BY <1>3 DEF Creates, Receive, Save, CommitOrder, Created, CreationFails, orderVars
  <2>4. CASE UNCHANGED row
    BY <1>1, <2>2, <2>3, <2>4
  <2>5. CASE CommitOrder(u)
    <3>1. row' = [row EXCEPT ![Head(queue[u])] = "UNPAID"] /\ row[Head(queue[u])] = "none"
      BY <2>5 DEF CommitOrder, IInv, Consumer
    <3>2. \A o \in Order : row'[o] = "PAID" <=> row[o] = "PAID"
      BY <3>1 DEF IInv, Types
    <3> QED
      BY <2>2, <2>3, <3>2, MembersApart
  <2> QED
    BY <1>3, <2>4, <2>5 DEF Creates, Receive, Save, Created, CreationFails, orderVars
<1>4. ASSUME NEW t \in Thread, Works(t) \/ Raise(t) \/ Die(t)
      PROVE  MemberInv'
  <2>1. CASE Raise(t) \/ Die(t)
    <3>1. UNCHANGED <<row, member, excused>> /\ job' = [job EXCEPT ![t] = Idle]
      BY <2>1 DEF Raise, Die, orderVars
    <3>2. job'[t].at = "idle" /\ \A other \in Thread \ {t} : job'[other] = job[other]
      BY <3>1, Ending DEF IInv
    <3> QED
      BY <3>1, <3>2, MembersApart
  <2> QED
    BY <1>4, <2>1, HandlerMembers
<1>5. ASSUME NEW t \in Thread, NEW o \in Order, Callback(t, o) \/ Takes(t, o)
      PROVE  MemberInv'
  <2>1. UNCHANGED <<row, member>>
    BY <1>5 DEF Callback, Takes, Timeout, Refund, orderVars
  <2>2. excused' = excused \/ \E why \in {"untimed", "unrefunded"} : Excuse(why, o)
    BY <1>5 DEF Callback, Takes, Timeout, Refund
  <2>3. excused'.overlapped = excused.overlapped
    BY <2>2 DEF Excuse, IInv, Types
  <2>4. \/ UNCHANGED job
        \/ \E doing \in {"payment", "timeout", "refund"}, step \in {"reading", "closing", "checking"} :
               Start(t, o, doing, step)
    BY <1>5 DEF Callback, Takes, Timeout, Refund
  <2>5. ASSUME NEW doing \in {"payment", "timeout", "refund"},
               NEW step \in {"reading", "closing", "checking"}, Start(t, o, doing, step)
        PROVE  job'[t].at # "granting" /\ \A other \in Thread \ {t} : job'[other] = job[other]
    <3>1. step \in Step /\ step # "granting"
      BY DEF Step
    <3> QED
      BY <2>5, <3>1, Beginning DEF IInv
  <2> QED
    BY <1>1, <2>1, <2>3, <2>4, <2>5, MembersApart
<1>6. CASE UNCHANGED vars
  BY <1>1, <1>6 DEF vars, orderVars
<1> QED
  BY <1>2, <1>3, <1>4, <1>5, <1>6 DEF Next

\* A user has no day of membership that no order of theirs paid for, and lacks one
\* only where two grants of theirs overlapped.
THEOREM MembersHaveWhatTheyBought == Spec => []MembershipIsBought
<1>1. Init => MemberInv
  <2> SUFFICES ASSUME Init PROVE MemberInv
    OBVIOUS
  <2>1. ASSUME NEW u \in User PROVE member[u] = 0 /\ Bought(u) = 0
    <3>1. PaidOrders(u) = {}
      BY DEF Init, PaidOrders
    <3>2. Bought(u) = 0
      BY <3>1, SumOfNone DEF Bought
    <3> QED
      BY <3>2 DEF Init
  <2>2. \A t \in Thread : job[t].at # "granting"
    BY DEF Init, Idle
  <2> QED
    BY <2>1, <2>2 DEF MemberInv, MembershipIsBought
<1>2. IInv /\ MemberInv /\ [Next]_vars => MemberInv'
  BY MemberStep
<1>3. MemberInv => MembershipIsBought
  BY DEF MemberInv
<1> QED
  BY <1>1, <1>2, <1>3, InductiveInvariant, PTL DEF Spec

--------------------------------------------------------------------------------
(* The analyst service: its two-level cache. *)

-----------------------------------------------------------------------------
(* Types *)

LEMMA MarkedType ==
    ASSUME NEW entry \in Entry \cup {None}, NEW why \in Why
    PROVE  Marked(entry, why) \in Entry \cup {None}
BY DEF Marked, Entry

LEMMA GoType ==
    ASSUME CacheTypeOK, NEW r \in Reader, NEW place,
           place \in {"idle", "gate", "l2", "null", "lock", "recheck", "renull", "load",
                      "fill", "put1", "put2", "unlock"},
           NEW entry \in Entry \cup {None},
           Go(r, place) \/ Take(r, place, entry)
    PROVE  /\ reader' \in [Reader -> [at : {"idle", "gate", "l2", "null", "lock", "recheck",
                                    "renull", "load", "fill", "put1", "put2", "unlock"},
                              hand : Entry \cup {None}]]
           /\ \A q \in Reader \ {r} : reader'[q] = reader[q]
           /\ reader'[r].at = place
           /\ reader'[r].hand \in {None, entry}
BY DEF CacheTypeOK, Go, Take

LEMMA ReaderTypes ==
    ASSUME CacheTypeOK, NEW r \in Reader,
           Miss(r) \/ ReadSteps(r) \/ ReadThrows(r)
    PROVE  CacheTypeOK'
<1> DEFINE Places == {"idle", "gate", "l2", "null", "lock", "recheck", "renull", "load",
                      "fill", "put1", "put2", "unlock"}
           Readers == [Reader -> [at : Places, hand : Entry \cup {None}]]
<1>1. /\ reader \in Readers /\ db \in 0..MaxVersion /\ l2 \in Entry \cup {None}
      /\ reader[r].hand \in Entry \cup {None}
      /\ l1 \in [Node -> Entry \cup {None}]
      /\ mutex \in Reader \cup {"free", "gone"}
      /\ wasted \in Nat /\ mishaps \in 0..MaxMishaps /\ MaxMishaps \in Nat
      /\ MaxVersion \in Nat
  BY CacheAssumption DEF CacheTypeOK
<1>2. \A v \in 0..MaxVersion, why \in Why : [value |-> v, why |-> why] \in Entry
  BY DEF Entry
<1>3. 0 \in 0..MaxVersion /\ "failed" \in Why /\ "loaded" \in Why
  BY <1>1 DEF Why
<1>4. reader' \in Readers
  <2>1. CASE Miss(r) \/ Gate(r) \/ ReadThrows(r) \/ Lock(r) \/ GiveUp(r)
    BY <1>1, <2>1, GoType DEF Miss, Gate, ReadThrows, Lock, GiveUp
  <2>2. CASE ReadShared(r) \/ ReadMarker(r)
    BY <1>1, <2>2, GoType DEF ReadShared, ReadMarker
  <2>3. CASE Load(r)
    BY <1>1, <1>2, <1>3, <2>3, GoType DEF Load
  <2>4. CASE PutLocal(r) \/ PutShared(r) \/ Unlock(r)
    BY <1>1, <2>4, GoType DEF PutLocal, PutShared, Unlock
  <2> QED
    BY <2>1, <2>2, <2>3, <2>4 DEF ReadSteps
<1>5. mishaps' \in 0..MaxMishaps /\ wasted' \in Nat
  BY <1>1 DEF Miss, ReadSteps, Gate, ReadShared, ReadMarker, Lock, GiveUp, Load, PutLocal,
              PutShared, Unlock, ReadThrows, Mishap, NoMishap
<1>6. /\ l1' \in [Node -> Entry \cup {None}] /\ l2' \in Entry \cup {None}
      /\ mutex' \in Reader \cup {"free", "gone"}
  BY <1>1 DEF Miss, ReadSteps, Gate, ReadShared, ReadMarker, Lock, GiveUp, Load, PutLocal,
              PutShared, Unlock, ReadThrows
<1>7. /\ UNCHANGED <<db, bloom, writer, inbox, broadcasts, undone>>
      /\ loads' \in {loads, loads + 1}
  BY DEF Miss, ReadSteps, Gate, ReadShared, ReadMarker, Lock, GiveUp, Load, PutLocal,
         PutShared, Unlock, ReadThrows, NoMishap
<1> QED
  BY <1>4, <1>5, <1>6, <1>7 DEF CacheTypeOK

LEMMA WriterTypes ==
    ASSUME CacheTypeOK, NEW w \in Writer, SaveRating(w) \/ UpdateSteps(w) \/ WriteThrows(w)
    PROVE  CacheTypeOK'
<1>1. /\ db \in 0..MaxVersion /\ MaxVersion \in Nat /\ MaxMishaps \in Nat
      /\ mishaps \in 0..MaxMishaps /\ l1 \in [Node -> Entry \cup {None}]
      /\ writer \in [Writer -> {"idle", "saved", "added", "cleared", "deleted"}]
      /\ inbox \in [Node -> Nat]
  BY CacheAssumption DEF CacheTypeOK
<1>2. writer' \in [Writer -> {"idle", "saved", "added", "cleared", "deleted"}]
  BY <1>1 DEF SaveRating, UpdateSteps, AddToFilter, ClearLocal, DeleteShared, Broadcast, WriteThrows,
              Writes
<1>3. db' \in 0..MaxVersion /\ mishaps' \in 0..MaxMishaps
  BY <1>1 DEF SaveRating, UpdateSteps, AddToFilter, ClearLocal, DeleteShared, Broadcast, WriteThrows,
              Mishap, NoMishap
<1>4. l1' \in [Node -> Entry \cup {None}]
  <2>1. \A n \in Node : Marked(l1[n], "missed") \in Entry \cup {None}
    BY <1>1, MarkedType DEF Why
  <2> QED
    BY <1>1, <2>1 DEF SaveRating, UpdateSteps, AddToFilter, ClearLocal, DeleteShared, Broadcast,
                      WriteThrows
<1>5. inbox' \in [Node -> Nat]
  BY <1>1 DEF SaveRating, UpdateSteps, AddToFilter, ClearLocal, DeleteShared, Broadcast, WriteThrows
<1>6. reader' \in [Reader -> [at : {"idle", "gate", "l2", "null", "lock", "recheck",
                                    "renull", "load", "fill", "put1", "put2", "unlock"},
                              hand : Entry \cup {None}]]
  <2>1. CASE reader' = reader
    BY <2>1 DEF CacheTypeOK
  <2>2. CASE DeleteShared(w)
    <3>1. \A r \in Reader : Marked(reader[r].hand, "late") \in Entry \cup {None}
      BY MarkedType DEF CacheTypeOK, Why
    <3>2. reader' = [r \in Reader |->
                        [reader[r] EXCEPT !.hand = Marked(reader[r].hand, "late")]]
      BY <2>2 DEF DeleteShared
    <3> QED
      BY <3>1, <3>2 DEF CacheTypeOK
  <2> QED
    BY <2>1, <2>2 DEF SaveRating, UpdateSteps, AddToFilter, ClearLocal, Broadcast, WriteThrows
<1>7. /\ bloom' \in BOOLEAN /\ undone' \in BOOLEAN /\ loads' \in {loads, 0}
      /\ l2' \in {l2, None} /\ UNCHANGED <<mutex, broadcasts, wasted>>
  BY DEF CacheTypeOK, SaveRating, UpdateSteps, AddToFilter, ClearLocal, DeleteShared, Broadcast, WriteThrows,
         Mishap, NoMishap
<1> QED
  BY <1>2, <1>3, <1>4, <1>5, <1>6, <1>7 DEF CacheTypeOK

LEMMA LocalsFinite ==
    ASSUME NEW n, NEW S \in SUBSET Locals(n)
    PROVE  IsFiniteSet(S) /\ Cardinality(S) \in Nat
BY CacheAssumption, FS_Subset, FS_CardinalityType DEF Locals

LEMMA RestartTypes ==
    ASSUME CacheTypeOK, NEW n \in Node, Restart(n)
    PROVE  CacheTypeOK'
<1>1. /\ mishaps' \in 0..MaxMishaps /\ wasted' \in Nat
  <2>1. Cardinality({r \in Locals(n) : Loaded(r)}) \in Nat
    BY LocalsFinite
  <2> QED
    BY <2>1, CacheAssumption DEF CacheTypeOK, Restart, Mishap
<1>2. l1' \in [Node -> Entry \cup {None}]
  <2>1. \A m \in Node : Marked(l1[m], "missed") \in Entry \cup {None}
    BY MarkedType DEF CacheTypeOK, Why
  <2> QED
    BY <2>1 DEF CacheTypeOK, Restart
<1>3. /\ reader' \in [Reader -> [at : {"idle", "gate", "l2", "null", "lock", "recheck",
                                    "renull", "load", "fill", "put1", "put2", "unlock"},
                              hand : Entry \cup {None}]]
      /\ writer' \in [Writer -> {"idle", "saved", "added", "cleared", "deleted"}]
  BY DEF CacheTypeOK, Restart, IdleReader
<1>4. /\ inbox' \in [Node -> Nat] /\ mutex' \in Reader \cup {"free", "gone"}
      /\ bloom' \in BOOLEAN /\ undone' \in BOOLEAN
      /\ UNCHANGED <<db, l2, broadcasts, loads>>
  BY DEF CacheTypeOK, Restart
<1> QED
  BY <1>1, <1>2, <1>3, <1>4 DEF CacheTypeOK

LEMMA CacheTypeStep == CacheTypeOK /\ [CacheNext]_cacheVars => CacheTypeOK'
<1> SUFFICES ASSUME CacheTypeOK, [CacheNext]_cacheVars
             PROVE  CacheTypeOK'
  OBVIOUS
<1>1. ASSUME NEW r \in Reader, Miss(r) \/ ReadSteps(r) \/ ReadThrows(r)
      PROVE  CacheTypeOK'
  BY <1>1, ReaderTypes
<1>2. ASSUME NEW w \in Writer, SaveRating(w) \/ UpdateSteps(w) \/ WriteThrows(w)
      PROVE  CacheTypeOK'
  BY <1>2, WriterTypes
<1>3. ASSUME NEW n \in Node, ReceiveInvalidation(n)
      PROVE  CacheTypeOK'
  BY <1>3 DEF CacheTypeOK, ReceiveInvalidation, NoMishap
<1>4. ASSUME NEW n \in Node, ExpireLocal(n)
      PROVE  CacheTypeOK'
  BY <1>4 DEF CacheTypeOK, ExpireLocal, NoMishap
<1>5. ASSUME NEW n \in Node, Restart(n)
      PROVE  CacheTypeOK'
  BY <1>5, RestartTypes
<1>6. CASE ExpireShared
  BY <1>6 DEF CacheTypeOK, ExpireShared, NoMishap
<1>7. CASE Lapse
  BY <1>7, CacheAssumption DEF CacheTypeOK, Lapse, NoMishap, Mishap
<1>8. CASE UNCHANGED cacheVars
  BY <1>8 DEF CacheTypeOK, cacheVars
<1> QED
  BY <1>1, <1>2, <1>3, <1>4, <1>5, <1>6, <1>7, <1>8 DEF CacheNext

LEMMA CacheInitTypes == CacheInit => CacheTypeOK
<1> SUFFICES ASSUME CacheInit
             PROVE  CacheTypeOK
  OBVIOUS
<1>1. db \in 0..MaxVersion /\ 0 \in 0..MaxMishaps
  BY CacheAssumption DEF CacheInit
<1>2. reader \in [Reader -> [at : {"idle", "gate", "l2", "null", "lock", "recheck",
                                    "renull", "load", "fill", "put1", "put2", "unlock"},
                              hand : Entry \cup {None}]]
  BY DEF CacheInit, IdleReader
<1>3. /\ l1 \in [Node -> Entry \cup {None}] /\ inbox \in [Node -> Nat]
      /\ writer \in [Writer -> {"idle", "saved", "added", "cleared", "deleted"}]
  BY DEF CacheInit
<1> QED
  BY <1>1, <1>2, <1>3 DEF CacheInit, CacheTypeOK

\* What every variable holds, in every state of any instance.
THEOREM CacheTypes == CacheSpec => []CacheTypeOK
BY CacheInitTypes, CacheTypeStep, PTL DEF CacheSpec

-----------------------------------------------------------------------------
(* A stale entry has a reason *)

Unfinished == undone \/ Underway({"saved", "added", "cleared"})

\* A hand may hold what the table no longer has only before the deletion, which marks
\* it; and a writer past the filter has told it of the symbol.
HandsAreMarked == \A r \in Reader : Stale(reader[r].hand) => Unfinished
FilterIsTold == Underway({"added", "cleared", "deleted"}) => bloom

\* The inductive invariant.
StaleInv == CacheTypeOK /\ StaleForAReason /\ HandsAreMarked /\ FilterIsTold

LEMMA StaleParts ==
    StaleForAReason <=>
        /\ Stale(l2) => Unfinished
        /\ \A n \in Node :
               Stale(l1[n]) => Unfinished \/ Underway({"deleted"}) \/ inbox[n] > 0
        /\ db > 0 /\ ~bloom => undone \/ Underway({"saved"})
BY DEF StaleForAReason, Unfinished

\* A reader only passes on what it finds, and what it loads is not stale.
LEMMA ReadersPassOn ==
    ASSUME CacheTypeOK, NEW r \in Reader,
           Miss(r) \/ ReadSteps(r) \/ ReadThrows(r)
    PROVE  /\ UNCHANGED <<db, bloom, writer, inbox, undone>>
           /\ l2' \in {l2, reader[r].hand}
           /\ \A n \in Node : l1'[n] \in {l1[n], reader[r].hand}
           /\ \A q \in Reader :
                  ~Stale(reader'[q].hand) \/ reader'[q].hand \in {l2, reader[q].hand}
<1> DEFINE Passed(s) == ~Stale(s) \/ s \in {l2, reader[r].hand}
<1>1. /\ reader[r].hand \in Entry \cup {None} /\ l2 \in Entry \cup {None}
      /\ l1 \in [Node -> Entry \cup {None}] /\ db \in 0..MaxVersion
      /\ ~Stale(None) /\ NodeOf[r] \in Node
  BY CacheAssumption DEF CacheTypeOK, Stale
<1>2. UNCHANGED <<db, bloom, writer, inbox, undone>>
  BY DEF Miss, ReadSteps, Gate, ReadShared, ReadMarker, Lock, GiveUp, Load, PutLocal,
         PutShared, Unlock, ReadThrows, NoMishap
<1>3. l2' \in {l2, reader[r].hand} /\ \A n \in Node : l1'[n] \in {l1[n], reader[r].hand}
  BY <1>1 DEF Miss, ReadSteps, Gate, ReadShared, ReadMarker, Lock, GiveUp, Load, PutLocal,
              PutShared, Unlock, ReadThrows
<1>4. \A q \in Reader \ {r} : reader'[q] = reader[q]
  BY DEF CacheTypeOK, Miss, ReadSteps, Gate, ReadShared, ReadMarker, Lock, GiveUp, Load,
         PutLocal, PutShared, Unlock, ReadThrows, Go, Take
<1>5. Passed(reader'[r].hand)
  <2>1. CASE Miss(r) \/ Gate(r) \/ Lock(r) \/ GiveUp(r) \/ PutShared(r) \/ Unlock(r)
             \/ ReadThrows(r)
    BY <1>1, <2>1 DEF CacheTypeOK, Miss, Gate, Lock, GiveUp, PutShared, Unlock, ReadThrows,
                      Go
  <2>2. CASE ReadShared(r) \/ ReadMarker(r) \/ PutLocal(r)
    <3>1. \/ \E place : Go(r, place)
          \/ \E place, entry : entry \in {l2, reader[r].hand} /\ Take(r, place, entry)
      BY <2>2 DEF ReadShared, ReadMarker, PutLocal
    <3> QED
      BY <1>1, <3>1 DEF CacheTypeOK, Go, Take
  <2>3. CASE Load(r)
    <3>1. ~Stale([value |-> db, why |-> "loaded"]) /\ ~Stale([value |-> 0, why |-> "failed"])
      BY DEF Stale
    <3> QED
      BY <2>3, <3>1 DEF CacheTypeOK, Load, Take
  <2> QED
    BY <2>1, <2>2, <2>3 DEF ReadSteps
<1> QED
  BY <1>2, <1>3, <1>4, <1>5

LEMMA ReadersKeepStale ==
    ASSUME StaleInv, NEW r \in Reader,
           Miss(r) \/ ReadSteps(r) \/ ReadThrows(r)
    PROVE  StaleForAReason' /\ HandsAreMarked' /\ FilterIsTold'
<1>1. /\ UNCHANGED <<db, bloom, writer, inbox, undone>>
      /\ l2' \in {l2, reader[r].hand}
      /\ \A n \in Node : l1'[n] \in {l1[n], reader[r].hand}
      /\ \A q \in Reader :
             ~Stale(reader'[q].hand) \/ reader'[q].hand \in {l2, reader[q].hand}
  BY ReadersPassOn DEF StaleInv
<1>2. /\ Unfinished' <=> Unfinished
      /\ Underway({"deleted"})' <=> Underway({"deleted"})
      /\ Underway({"saved"})' <=> Underway({"saved"})
      /\ FilterIsTold'
  BY <1>1 DEF StaleInv, Stale, Unfinished, Underway, FilterIsTold
<1>3. Stale(l2)' => Unfinished'
  BY <1>1, <1>2, StaleParts DEF StaleInv, HandsAreMarked, Stale
<1>4. ASSUME NEW n \in Node, Stale(l1[n])'
      PROVE  Unfinished' \/ Underway({"deleted"})' \/ inbox'[n] > 0
  BY <1>1, <1>2, <1>4, StaleParts DEF StaleInv, HandsAreMarked, Stale
<1>5. HandsAreMarked'
  BY <1>1, <1>2, StaleParts DEF StaleInv, HandsAreMarked, Stale
<1>6. (db > 0 /\ ~bloom)' => (undone \/ Underway({"saved"}))'
  BY <1>1, <1>2, StaleParts DEF StaleInv
<1> QED
  BY <1>2, <1>3, <1>4, <1>5, <1>6 DEF StaleForAReason, Unfinished

LEMMA WritersKeepStale ==
    ASSUME StaleInv, NEW w \in Writer,
           SaveRating(w) \/ UpdateSteps(w) \/ WriteThrows(w)
    PROVE  StaleForAReason' /\ HandsAreMarked' /\ FilterIsTold'
<1> USE DEF Writes
<1>1. /\ writer \in [Writer -> {"idle", "saved", "added", "cleared", "deleted"}]
      /\ l1 \in [Node -> Entry \cup {None}] /\ inbox \in [Node -> Nat]
      /\ \A r \in Reader : reader[r].hand \in Entry \cup {None}
      /\ None \notin Entry
  BY NoneAssumption DEF StaleInv, CacheTypeOK
<1>2. CASE SaveRating(w)
  <2>1. Unfinished' /\ Underway({"saved"})'
    BY <1>1, <1>2 DEF SaveRating, Unfinished, Underway
  <2>2. FilterIsTold'
    BY <1>1, <1>2 DEF SaveRating, StaleInv, FilterIsTold, Underway
  <2> QED
    BY <2>1, <2>2 DEF StaleForAReason, Unfinished, HandsAreMarked
<1>3. CASE AddToFilter(w)
  <2>1. Unfinished' /\ bloom'
    BY <1>1, <1>3 DEF AddToFilter, Unfinished, Underway
  <2> QED
    BY <2>1 DEF StaleForAReason, Unfinished, HandsAreMarked, FilterIsTold
<1>4. CASE ClearLocal(w)
  <2>1. Unfinished' /\ bloom'
    BY <1>1, <1>4 DEF ClearLocal, StaleInv, FilterIsTold, Unfinished, Underway
  <2> QED
    BY <2>1 DEF StaleForAReason, Unfinished, HandsAreMarked, FilterIsTold
<1>5. CASE DeleteShared(w)
  <2>1. bloom' /\ Underway({"deleted"})' /\ ~Stale(l2)' /\ db' = db
    BY <1>1, <1>5 DEF DeleteShared, StaleInv, FilterIsTold, Underway, Stale
  <2>2. ASSUME NEW r \in Reader
        PROVE  ~Stale(reader[r].hand)'
    <3>1. reader'[r].hand = Marked(reader[r].hand, "late")
      BY <1>5 DEF DeleteShared, StaleInv, CacheTypeOK
    <3> QED
      BY <1>1, <2>1, <3>1 DEF Marked, Stale, Entry
  <2> QED
    BY <2>1, <2>2 DEF StaleForAReason, HandsAreMarked, FilterIsTold
<1>6. CASE Broadcast(w)
  <2>1. bloom' /\ UNCHANGED <<db, l2, reader, undone>>
    BY <1>6 DEF Broadcast, StaleInv, FilterIsTold, Underway, NoMishap
  <2>2. Unfinished' <=> Unfinished
    BY <1>1, <1>6, <2>1 DEF Broadcast, Unfinished, Underway
  <2>3. ASSUME NEW n \in Node
        PROVE  ~Stale(l1[n])' \/ inbox'[n] > 0
    <3>1. CASE inbox' = [m \in Node |-> inbox[m] + 1]
      BY <1>1, <3>1
    <3>2. CASE l1' = [m \in Node |-> Marked(l1[m], "missed")]
      <4>1. l1'[n] = Marked(l1[n], "missed") /\ l1[n] \in Entry \cup {None}
        BY <1>1, <3>2
      <4> QED
        BY <1>1, <2>1, <4>1 DEF Marked, Stale, Entry
    <3> QED
      BY <1>6, <3>1, <3>2 DEF Broadcast
  <2> QED
    BY <2>1, <2>2, <2>3, StaleParts DEF StaleInv, StaleForAReason, Unfinished,
                                        HandsAreMarked, FilterIsTold, Stale
<1>7. CASE WriteThrows(w)
  <2>1. undone' /\ UNCHANGED bloom
    BY <1>7 DEF WriteThrows
  <2>2. FilterIsTold'
    BY <1>1, <1>7 DEF WriteThrows, StaleInv, FilterIsTold, Underway
  <2> QED
    BY <2>1, <2>2 DEF StaleForAReason, HandsAreMarked, Unfinished
<1> QED
  BY <1>2, <1>3, <1>4, <1>5, <1>6, <1>7 DEF UpdateSteps

LEMMA RestartsKeepStale ==
    ASSUME StaleInv, NEW n \in Node, Restart(n)
    PROVE  StaleForAReason' /\ HandsAreMarked' /\ FilterIsTold'
<1>1. /\ db \in 0..MaxVersion /\ UNCHANGED <<db, l2>>
      /\ bloom' = (bloom \/ db > 0)
      /\ writer \in [Writer -> {"idle", "saved", "added", "cleared", "deleted"}]
      /\ writer' = [w \in Writer |-> IF NodeOf[w] = n THEN "idle" ELSE writer[w]]
      /\ l1 \in [Node -> Entry \cup {None}] /\ inbox \in [Node -> Nat]
      /\ None \notin Entry
  BY NoneAssumption DEF Restart, StaleInv, CacheTypeOK
<1>2. Unfinished => Unfinished'
  BY <1>1 DEF Restart, Unfinished, Underway
<1>3. \A places \in SUBSET {"saved", "added", "cleared", "deleted"} :
          Underway(places)' => Underway(places)
  BY <1>1 DEF Underway
<1>4. FilterIsTold'
  BY <1>1, <1>3 DEF StaleInv, FilterIsTold
<1>5. ASSUME NEW r \in Reader, Stale(reader[r].hand)'
      PROVE  Unfinished'
  <2>1. reader'[r].hand \in {None, reader[r].hand}
    BY DEF Restart, IdleReader, StaleInv, CacheTypeOK
  <2> QED
    BY <1>1, <1>2, <1>5, <2>1 DEF StaleInv, HandsAreMarked, Stale
<1>6. ASSUME NEW m \in Node, Stale(l1[m])'
      PROVE  Unfinished' \/ Underway({"deleted"})' \/ inbox'[m] > 0
  <2>1. m # n
    BY <1>1, <1>6 DEF Restart, Stale
  <2>2. l1[m] \in Entry \cup {None} /\ inbox'[m] = inbox[m]
    BY <1>1, <2>1 DEF Restart
  <2>3. CASE \E w \in Writer : NodeOf[w] = n /\ writer[w] = "deleted"
    <3>1. l1'[m] = Marked(l1[m], "missed")
      BY <2>1, <2>3 DEF Restart
    <3> QED
      BY <1>1, <1>6, <2>2, <3>1 DEF Marked, Stale, Entry
  <2>4. CASE ~ \E w \in Writer : NodeOf[w] = n /\ writer[w] = "deleted"
    <3>1. l1'[m] = l1[m]
      BY <2>1, <2>4 DEF Restart
    <3>2. Unfinished \/ Underway({"deleted"}) \/ inbox[m] > 0
      BY <1>1, <1>6, <3>1, StaleParts DEF StaleInv, Stale
    <3>3. Underway({"deleted"}) => Underway({"deleted"})'
      BY <1>1, <2>4 DEF Underway
    <3> QED
      BY <1>2, <2>2, <3>2, <3>3
  <2> QED
    BY <2>3, <2>4
<1>7. Stale(l2)' => Unfinished'
  BY <1>1, <1>2, StaleParts DEF StaleInv, Stale
<1>8. db' > 0 => bloom'
  BY <1>1
<1> QED
  BY <1>4, <1>5, <1>6, <1>7, <1>8 DEF StaleForAReason, Unfinished, HandsAreMarked

LEMMA StaleStep == StaleInv /\ [CacheNext]_cacheVars => StaleInv'
<1> SUFFICES ASSUME StaleInv, [CacheNext]_cacheVars
             PROVE  StaleForAReason' /\ HandsAreMarked' /\ FilterIsTold'
  BY CacheTypeStep DEF StaleInv
<1>1. ASSUME NEW r \in Reader, Miss(r) \/ ReadSteps(r) \/ ReadThrows(r)
      PROVE  StaleForAReason' /\ HandsAreMarked' /\ FilterIsTold'
  BY <1>1, ReadersKeepStale
<1>2. ASSUME NEW w \in Writer, SaveRating(w) \/ UpdateSteps(w) \/ WriteThrows(w)
      PROVE  StaleForAReason' /\ HandsAreMarked' /\ FilterIsTold'
  BY <1>2, WritersKeepStale
<1>3. ASSUME NEW n \in Node, Restart(n)
      PROVE  StaleForAReason' /\ HandsAreMarked' /\ FilterIsTold'
  BY <1>3, RestartsKeepStale
<1>4. CASE \/ \E n \in Node : ReceiveInvalidation(n) \/ ExpireLocal(n)
           \/ ExpireShared \/ Lapse \/ UNCHANGED cacheVars
  <2>1. /\ UNCHANGED <<db, bloom, reader, writer, undone>> /\ l2' \in {l2, None}
    BY <1>4 DEF ReceiveInvalidation, ExpireLocal, ExpireShared, Lapse, NoMishap, cacheVars
  <2>2. \A n \in Node : l1'[n] # None => l1'[n] = l1[n] /\ inbox'[n] = inbox[n]
    <3>1. l1 \in [Node -> Entry \cup {None}] /\ inbox \in [Node -> Nat]
      BY DEF StaleInv, CacheTypeOK
    <3>2. CASE \E n \in Node : ReceiveInvalidation(n)
      BY <3>1, <3>2 DEF ReceiveInvalidation
    <3>3. CASE \E n \in Node : ExpireLocal(n)
      BY <3>1, <3>3 DEF ExpireLocal
    <3> QED
      BY <1>4, <3>2, <3>3 DEF ExpireShared, Lapse, cacheVars
  <2> QED
    BY <2>1, <2>2, StaleParts DEF StaleInv, StaleForAReason, Unfinished, HandsAreMarked,
                                  FilterIsTold, Underway, Stale
<1> QED
  BY <1>1, <1>2, <1>3, <1>4 DEF CacheNext

\* Whatever the interleaving of readers, writers, broadcasts, expiry and restarts: an
\* entry that is not the table's has an update on its way, a mishap or a mark to
\* explain it, and a rating the filter does not have an update that never told it.
THEOREM StaleHasAReason == CacheSpec => []StaleForAReason
<1>1. CacheInit => StaleInv
  BY CacheInitTypes, CacheAssumption DEF CacheInit, StaleInv, StaleForAReason, HandsAreMarked,
     FilterIsTold, Stale, Underway, IdleReader
<1>2. StaleInv => StaleForAReason
  BY DEF StaleInv
<1> QED
  BY <1>1, <1>2, StaleStep, PTL DEF CacheSpec

-----------------------------------------------------------------------------
(* One load per absence *)

\* Readers between the double-check and the SET that do not have the lock (any more):
\* each has lost its lease, and so has been counted as wasted.
Orphans == {r \in Reader : Refilling(r) /\ mutex # r}
MayLoad == {r \in Orphans : ~Loaded(r)}

\* The holder of the lock is past seeing that L2 has what the table was read for ...
Overlooks(r) ==
    /\ mutex = r
    /\ \/ InPlace(r, {"load"})
       \/ InPlace(r, {"renull"}) /\ l2 # None /\ l2.value > 0

\* ... or not: then L2 has it, unless the holder has read the table and is to fill it.
Excused ==
    \/ \E r \in Reader : mutex = r /\ Loaded(r)
    \/ l2 # None /\ \A r \in Reader : ~Overlooks(r)

LoadsCounted ==
    /\ Cardinality(Orphans) <= wasted
    /\ loads + Cardinality(MayLoad) <= wasted + (IF Excused THEN 1 ELSE 0)
LoadsAreInHand == \A r \in Reader : Loaded(r) => reader[r].hand # None

\* The inductive invariant.
LoadInv == CacheTypeOK /\ LoadsCounted /\ LoadsAreInHand

LEMMA OrphansCounted ==
    /\ IsFiniteSet(Orphans) /\ Cardinality(Orphans) \in Nat
    /\ IsFiniteSet(MayLoad) /\ Cardinality(MayLoad) \in Nat
    /\ Cardinality(MayLoad) <= Cardinality(Orphans)
<1>1. IsFiniteSet(Orphans) /\ Orphans \in SUBSET Reader
  BY CacheAssumption, FS_Subset DEF Orphans
<1>2. MayLoad \in SUBSET Orphans
  BY DEF MayLoad
<1> QED
  BY <1>1, <1>2, FS_Subset, FS_CardinalityType

\* A step that orphans nobody and loads nothing, and that ends no excuse or counts it.
LEMMA LoadsKept ==
    ASSUME LoadInv, Orphans' \subseteq Orphans, MayLoad' \subseteq MayLoad,
           loads' = loads, wasted' \in Nat, wasted' >= wasted,
           Excused => Excused' \/ wasted' > wasted
    PROVE  LoadsCounted'
<1>1. /\ Cardinality(Orphans') \in Nat /\ Cardinality(Orphans') <= Cardinality(Orphans)
      /\ Cardinality(MayLoad') \in Nat /\ Cardinality(MayLoad') <= Cardinality(MayLoad)
  BY OrphansCounted, FS_Subset, FS_CardinalityType
<1>2. loads \in Nat /\ wasted \in Nat
  BY DEF LoadInv, CacheTypeOK
<1>3. Cardinality(Orphans) \in Nat /\ Cardinality(MayLoad) \in Nat
  BY OrphansCounted
<1>4. /\ Cardinality(Orphans) <= wasted
      /\ loads + Cardinality(MayLoad) <= wasted + (IF Excused THEN 1 ELSE 0)
  BY DEF LoadInv, LoadsCounted
<1>5. Cardinality(Orphans') <= wasted'
  BY <1>1, <1>2, <1>3, <1>4
<1>6. loads' + Cardinality(MayLoad') <= wasted' + (IF Excused' THEN 1 ELSE 0)
  <2>1. CASE Excused /\ ~Excused'
    BY <1>1, <1>2, <1>3, <1>4, <2>1
  <2>2. CASE ~Excused \/ Excused'
    BY <1>1, <1>2, <1>3, <1>4, <2>2
  <2> QED
    BY <2>1, <2>2
<1> QED
  BY <1>5, <1>6 DEF LoadsCounted

\* L2 is emptied: what may still be loaded is orphans' work.
LEMMA LoadsReset ==
    ASSUME LoadInv, Orphans' = Orphans, MayLoad' = MayLoad, loads' = 0, wasted' = wasted
    PROVE  LoadsCounted'
<1>1. wasted \in Nat
  BY DEF LoadInv, CacheTypeOK
<1> QED
  BY <1>1, OrphansCounted DEF LoadInv, LoadsCounted

\* A reader that does not start to refill, nor goes back to before its load, is in the
\* counted sets only if it was.
LEMMA ReaderMoves ==
    ASSUME NEW r \in Reader, mutex' = mutex,
           \A q \in Reader \ {r} : reader'[q] = reader[q],
           Refilling(r)' => Refilling(r),
           Loaded(r) => Loaded(r)' \/ ~Refilling(r)'
    PROVE  Orphans' \subseteq Orphans /\ MayLoad' \subseteq MayLoad
BY DEF Orphans, MayLoad, Refilling, Loaded, InPlace

\* ... and if it has not read the table, and does not overlook L2 now, no excuse ends.
LEMMA ExcuseStays ==
    ASSUME NEW r \in Reader, UNCHANGED <<mutex, l2>>,
           \A q \in Reader \ {r} : reader'[q] = reader[q],
           ~Loaded(r), ~Overlooks(r)', Excused
    PROVE  Excused'
BY DEF Excused, Overlooks, Loaded, InPlace

\* A reader's steps other than the four below.
LEMMA QuietReads ==
    ASSUME LoadInv, NEW r \in Reader,
           \/ Miss(r) \/ Gate(r) \/ ReadShared(r) \/ ReadMarker(r) \/ GiveUp(r)
           \/ PutLocal(r) \/ ReadThrows(r)
    PROVE  LoadsCounted' /\ LoadsAreInHand'
<1>1. /\ UNCHANGED <<mutex, l2, loads, wasted>> /\ wasted \in Nat
      /\ \A q \in Reader \ {r} : reader'[q] = reader[q]
  BY DEF LoadInv, CacheTypeOK, Miss, Gate, ReadShared, ReadMarker, GiveUp, PutLocal,
         ReadThrows, NoMishap, Go, Take
<1>2. CASE \/ Miss(r) \/ Gate(r) \/ GiveUp(r) \/ ReadThrows(r)
           \/ PutLocal(r) /\ InPlace(r, {"fill"})
  <2>1. ~Loaded(r) /\ ~Loaded(r)' /\ ~Refilling(r)' /\ ~Overlooks(r)'
    BY <1>2 DEF LoadInv, CacheTypeOK, Miss, Gate, GiveUp, PutLocal, ReadThrows, Go, Take,
                InPlace, Loaded, Refilling, Overlooks
  <2>2. Orphans' \subseteq Orphans /\ MayLoad' \subseteq MayLoad
    BY <1>1, <2>1, ReaderMoves
  <2>3. Excused => Excused'
    BY <1>1, <2>1, ExcuseStays
  <2>4. LoadsAreInHand'
    BY <1>1, <2>1 DEF LoadInv, LoadsAreInHand, Loaded, InPlace
  <2> QED
    BY <1>1, <2>2, <2>3, <2>4, LoadsKept
<1>3. CASE ReadShared(r)
  <2>1. /\ ~Loaded(r) /\ ~Loaded(r)'
        /\ Refilling(r)' => Refilling(r)
        /\ ~Overlooks(r)'
    BY <1>3 DEF LoadInv, CacheTypeOK, ReadShared, Go, Take, InPlace, Loaded, Refilling,
                Overlooks
  <2> QED
    BY <1>1, <2>1, ReaderMoves, ExcuseStays, LoadsKept
       DEF LoadInv, LoadsAreInHand, Loaded, InPlace
<1>4. CASE ReadMarker(r)
  <2>1. ~Loaded(r) /\ ~Loaded(r)'
    BY <1>4 DEF LoadInv, CacheTypeOK, ReadMarker, Go, Take, InPlace, Loaded
  <2>2. Refilling(r)' => Refilling(r)
    BY <1>4 DEF LoadInv, CacheTypeOK, ReadMarker, Go, Take, InPlace, Refilling
  <2>3. Overlooks(r)' => ~Excused
    <3>1. SUFFICES ASSUME Overlooks(r)'
                   PROVE  ~Excused
      OBVIOUS
    <3>2. mutex = r /\ InPlace(r, {"renull"}) /\ ~(l2 # None /\ l2.value = 0)
      BY <1>1, <1>4, <3>1 DEF LoadInv, CacheTypeOK, ReadMarker, Go, Take, InPlace, Overlooks
    <3>3. l2 = None \/ l2.value > 0
      BY <3>2 DEF LoadInv, CacheTypeOK, Entry
    <3> QED
      BY <2>1, <3>2, <3>3 DEF Excused, Overlooks
  <2> QED
    BY <1>1, <2>1, <2>2, <2>3, ReaderMoves, ExcuseStays, LoadsKept
       DEF LoadInv, LoadsAreInHand, Loaded, InPlace
<1>5. CASE PutLocal(r) /\ ~InPlace(r, {"fill"})
  <2>1. /\ Loaded(r) /\ Loaded(r)' /\ reader'[r].hand = reader[r].hand
        /\ Refilling(r)
    BY <1>5 DEF LoadInv, CacheTypeOK, PutLocal, Take, InPlace, Loaded, Refilling
  <2>2. Excused => Excused'
    BY <1>1, <2>1 DEF Excused, Overlooks, Loaded, InPlace
  <2> QED
    BY <1>1, <2>1, <2>2, ReaderMoves, LoadsKept
       DEF LoadInv, LoadsAreInHand, Loaded, InPlace
<1> QED
  BY <1>2, <1>3, <1>4, <1>5

LEMMA LockCounted ==
    ASSUME LoadInv, NEW r \in Reader, Lock(r)
    PROVE  LoadsCounted' /\ LoadsAreInHand'
<1>1. /\ UNCHANGED <<l2, loads, wasted>> /\ wasted \in Nat
      /\ \A q \in Reader \ {r} : reader'[q] = reader[q]
      /\ mutex = "free" /\ "free" \notin Reader /\ mutex' = r
      /\ InPlace(r, {"recheck"})'
  BY CacheAssumption DEF LoadInv, CacheTypeOK, Lock, NoMishap, Go, InPlace
<1>2. Orphans' \subseteq Orphans /\ MayLoad' \subseteq MayLoad
  BY <1>1 DEF Orphans, MayLoad, Refilling, Loaded, InPlace
<1>3. Excused => Excused'
  BY <1>1 DEF Excused, Overlooks, Loaded, InPlace
<1> QED
  BY <1>1, <1>2, <1>3, LoadsKept DEF LoadInv, LoadsAreInHand, Loaded, InPlace

LEMMA UnlockCounted ==
    ASSUME LoadInv, NEW r \in Reader, Unlock(r)
    PROVE  LoadsCounted' /\ LoadsAreInHand'
<1>1. /\ UNCHANGED <<l2, loads, wasted>> /\ wasted \in Nat
      /\ \A q \in Reader \ {r} : reader'[q] = reader[q]
      /\ {"free", "gone"} \cap Reader = {}
      /\ mutex' = mutex \/ (mutex = r /\ mutex' \in {"free", "gone"})
      /\ InPlace(r, {"unlock"}) /\ InPlace(r, {"idle"})'
  BY CacheAssumption DEF LoadInv, CacheTypeOK, Unlock, NoMishap, Go, InPlace
<1>2. Orphans' \subseteq Orphans /\ MayLoad' \subseteq MayLoad
  BY <1>1 DEF Orphans, MayLoad, Refilling, Loaded, InPlace
<1>3. Excused => Excused'
  BY <1>1 DEF Excused, Overlooks, Loaded, InPlace
<1> QED
  BY <1>1, <1>2, <1>3, LoadsKept DEF LoadInv, LoadsAreInHand, Loaded, InPlace

LEMMA LoadCounted ==
    ASSUME LoadInv, NEW r \in Reader, Load(r)
    PROVE  LoadsCounted' /\ LoadsAreInHand'
<1>1. /\ UNCHANGED <<mutex, l2, wasted>> /\ loads' = loads + 1
      /\ wasted \in Nat /\ loads \in Nat
      /\ \A q \in Reader \ {r} : reader'[q] = reader[q]
      /\ InPlace(r, {"load"}) /\ InPlace(r, {"put1"})' /\ reader'[r].hand # None
  <2>1. \A why \in Why : [value |-> db, why |-> why] \in Entry
                         /\ [value |-> 0, why |-> why] \in Entry
    BY CacheAssumption DEF LoadInv, CacheTypeOK, Entry
  <2> QED
    BY <2>1, NoneAssumption DEF LoadInv, CacheTypeOK, Load, NoMishap, Take, InPlace, Why
<1>2. LoadsAreInHand'
  BY <1>1 DEF LoadInv, LoadsAreInHand, Loaded, InPlace
<1>3. Orphans' = Orphans
  BY <1>1 DEF Orphans, Refilling, InPlace
<1>4. /\ Cardinality(Orphans) <= wasted
      /\ loads + Cardinality(MayLoad) <= wasted + (IF Excused THEN 1 ELSE 0)
  BY DEF LoadInv, LoadsCounted
<1>5. loads' + Cardinality(MayLoad') <= wasted' + (IF Excused' THEN 1 ELSE 0)
  <2>1. CASE mutex = r
    <3>1. ~Excused /\ Excused'
      BY <1>1, <2>1 DEF Excused, Overlooks, Loaded, InPlace
    <3>2. MayLoad' = MayLoad
      BY <1>1, <1>3, <2>1 DEF MayLoad, Orphans, Loaded, InPlace
    <3> QED
      BY <1>1, <1>4, <3>1, <3>2, OrphansCounted
  <2>2. CASE mutex # r
    <3>1. r \in MayLoad /\ MayLoad' = MayLoad \ {r}
      BY <1>1, <1>3, <2>2 DEF MayLoad, Orphans, Refilling, Loaded, InPlace
    <3>2. Cardinality(MayLoad') = Cardinality(MayLoad) - 1
      BY <3>1, OrphansCounted, FS_RemoveElement
    <3>3. Excused => Excused'
      BY <1>1, <2>2 DEF Excused, Overlooks, Loaded, InPlace
    <3> QED
      BY <1>1, <1>4, <3>2, <3>3, OrphansCounted
  <2> QED
    BY <2>1, <2>2
<1> QED
  BY <1>1, <1>2, <1>3, <1>4, <1>5 DEF LoadsCounted

\* The SET of a holder is what its load was for; an orphan's is on top of an entry, and
\* counted, or leaves the excuse there is to the holder.
LEMMA PutSharedCounted ==
    ASSUME LoadInv, NEW r \in Reader, PutShared(r)
    PROVE  LoadsCounted' /\ LoadsAreInHand'
<1>1. /\ UNCHANGED <<mutex, loads>> /\ wasted \in Nat
      /\ \A q \in Reader \ {r} : reader'[q] = reader[q]
      /\ InPlace(r, {"put2"}) /\ InPlace(r, {"unlock"})' /\ reader[r].hand # None
  BY DEF LoadInv, CacheTypeOK, LoadsAreInHand, PutShared, Go, InPlace, Loaded
<1>2. /\ wasted' \in {wasted, wasted + 1}
      /\ wasted' = wasted => l2 = None /\ l2' = reader[r].hand
  BY <1>1 DEF PutShared
<1>3. Orphans' \subseteq Orphans /\ MayLoad' \subseteq MayLoad
  BY <1>1, ReaderMoves DEF Refilling, Loaded, InPlace
<1>4. Excused => Excused' \/ wasted' > wasted
  <2>1. SUFFICES ASSUME Excused, wasted' = wasted
                 PROVE  Excused'
    BY <1>1, <1>2
  <2>2. CASE mutex = r
    BY <1>1, <1>2, <2>1, <2>2 DEF Excused, Overlooks, Loaded, InPlace
  <2>3. CASE mutex # r
    BY <1>1, <1>2, <2>1, <2>3 DEF Excused, Overlooks, Loaded, InPlace
  <2> QED
    BY <2>2, <2>3
<1>5. wasted' \in Nat /\ wasted' >= wasted
  BY <1>1, <1>2
<1> QED
  BY <1>1, <1>3, <1>4, <1>5, LoadsKept DEF LoadInv, LoadsAreInHand, Loaded, InPlace

\* The lease that ends under a refill makes one orphan, and counts one waste.
LEMMA LapseCounted ==
    ASSUME LoadInv, Lapse
    PROVE  LoadsCounted' /\ LoadsAreInHand'
<1>1. /\ UNCHANGED <<l2, reader, loads>> /\ mutex' = "free"
      /\ wasted \in Nat /\ loads \in Nat
      /\ mutex \in Reader \cup {"gone"} /\ {"free", "gone"} \cap Reader = {}
  BY CacheAssumption DEF LoadInv, CacheTypeOK, Lapse
<1>2. LoadsAreInHand'
  BY <1>1 DEF LoadInv, LoadsAreInHand, Loaded, InPlace
<1>3. CASE mutex \in Reader /\ Refilling(mutex)
  <2>1. wasted' = wasted + 1
    BY <1>1, <1>3 DEF Lapse
  <2>2. Orphans' = Orphans \cup {mutex} /\ mutex \notin Orphans
    BY <1>1, <1>3 DEF Orphans, Refilling, InPlace
  <2>3. Cardinality(Orphans') = Cardinality(Orphans) + 1
    BY <2>2, OrphansCounted, FS_AddElement
  <2>4. /\ Cardinality(Orphans) <= wasted
        /\ loads + Cardinality(MayLoad) <= wasted + (IF Excused THEN 1 ELSE 0)
    BY DEF LoadInv, LoadsCounted
  <2>5. loads' + Cardinality(MayLoad') <= wasted' + (IF Excused' THEN 1 ELSE 0)
    <3>1. CASE Loaded(mutex)
      <4>1. MayLoad' = MayLoad
        BY <1>1, <2>2, <3>1 DEF MayLoad, Loaded, InPlace
      <4> QED
        BY <1>1, <2>1, <2>4, <4>1, OrphansCounted
    <3>2. CASE ~Loaded(mutex)
      <4>1. MayLoad' = MayLoad \cup {mutex} /\ mutex \notin MayLoad
        BY <1>1, <2>2, <3>2 DEF MayLoad, Loaded, InPlace
      <4>2. Cardinality(MayLoad') = Cardinality(MayLoad) + 1
        BY <4>1, OrphansCounted, FS_AddElement
      <4>3. Excused => Excused'
        BY <1>1, <1>3, <3>2 DEF Excused, Overlooks, Loaded, InPlace
      <4> QED
        BY <1>1, <2>1, <2>4, <4>2, <4>3, OrphansCounted
    <3> QED
      BY <3>1, <3>2
  <2> QED
    BY <1>1, <1>2, <2>1, <2>3, <2>4, <2>5, OrphansCounted DEF LoadsCounted
<1>4. CASE ~(mutex \in Reader /\ Refilling(mutex))
  <2>1. wasted' = wasted
    BY <1>1, <1>4 DEF Lapse, NoMishap
  <2>2. Orphans' \subseteq Orphans /\ MayLoad' \subseteq MayLoad
    BY <1>1, <1>4 DEF Orphans, MayLoad, Refilling, Loaded, InPlace
  <2>3. Excused => Excused'
    BY <1>1, <1>4 DEF Excused, Overlooks, Refilling, Loaded, InPlace
  <2> QED
    BY <1>1, <1>2, <2>1, <2>2, <2>3, LoadsKept
<1> QED
  BY <1>3, <1>4

LEMMA RestartCounted ==
    ASSUME LoadInv, NEW n \in Node, Restart(n)
    PROVE  LoadsCounted' /\ LoadsAreInHand'
<1> DEFINE Lost == {r \in Locals(n) : Loaded(r)}
<1>1. /\ UNCHANGED <<l2, loads>> /\ wasted \in Nat /\ loads \in Nat
      /\ \A r \in Reader :
             \/ r \in Locals(n) /\ InPlace(r, {"idle"})'
             \/ r \notin Locals(n) /\ reader'[r] = reader[r]
      /\ mutex' = (IF mutex \in Locals(n) THEN "gone" ELSE mutex)
      /\ wasted' = wasted + Cardinality(Lost)
      /\ {"free", "gone"} \cap Reader = {} /\ Locals(n) \subseteq Reader
  BY CacheAssumption DEF LoadInv, CacheTypeOK, Restart, Locals, IdleReader, InPlace
<1>2. LoadsAreInHand'
  BY <1>1 DEF LoadInv, LoadsAreInHand, Loaded, InPlace
<1>3. Cardinality(Lost) \in Nat /\ IsFiniteSet(Lost)
  BY LocalsFinite
<1>4. Orphans' \subseteq Orphans /\ MayLoad' \subseteq MayLoad
  BY <1>1 DEF Orphans, MayLoad, Refilling, Loaded, InPlace
<1>5. Excused => Excused' \/ wasted' > wasted
  <2>1. SUFFICES ASSUME Excused, ~Excused'
                 PROVE  wasted' > wasted
    BY <1>1, <1>3
  <2>2. PICK r \in Reader : mutex = r /\ Loaded(r)
    BY <1>1, <2>1 DEF Excused, Overlooks, InPlace
  <2>3. r \in Lost
    BY <1>1, <2>1, <2>2 DEF Excused, Loaded, InPlace
  <2>4. Cardinality(Lost) # 0
    BY <1>3, <2>3, FS_EmptySet
  <2> QED
    BY <1>1, <1>3, <2>4
<1>6. wasted' \in Nat /\ wasted' >= wasted
  BY <1>1, <1>3
<1> QED
  BY <1>1, <1>2, <1>4, <1>5, <1>6, LoadsKept

LEMMA WritersCounted ==
    ASSUME LoadInv, NEW w \in Writer,
           SaveRating(w) \/ UpdateSteps(w) \/ WriteThrows(w)
    PROVE  LoadsCounted' /\ LoadsAreInHand'
<1>1. CASE DeleteShared(w)
  <2>1. /\ UNCHANGED <<mutex, wasted>> /\ loads' = 0
        /\ \A r \in Reader : /\ reader'[r].at = reader[r].at
                             /\ reader'[r].hand = Marked(reader[r].hand, "late")
    BY <1>1 DEF LoadInv, CacheTypeOK, DeleteShared
  <2>2. \A r \in Reader : reader[r].hand # None => reader'[r].hand # None
    <3>1. ASSUME NEW s \in Entry
          PROVE  Marked(s, "late") \in Entry
      BY DEF Marked, Entry, Why
    <3> QED
      BY <2>1, <3>1, NoneAssumption DEF LoadInv, CacheTypeOK
  <2>3. Orphans' = Orphans /\ MayLoad' = MayLoad
    BY <2>1 DEF Orphans, MayLoad, Refilling, Loaded, InPlace
  <2>4. LoadsAreInHand'
    BY <2>1, <2>2 DEF LoadInv, LoadsAreInHand, Loaded, InPlace
  <2> QED
    BY <2>1, <2>3, <2>4, LoadsReset
<1>2. CASE ~DeleteShared(w)
  <2>1. UNCHANGED <<mutex, wasted, loads, reader, l2>>
    BY <1>2 DEF SaveRating, UpdateSteps, AddToFilter, ClearLocal, Broadcast, WriteThrows,
                NoMishap
  <2> QED
    BY <2>1 DEF LoadInv, LoadsCounted, LoadsAreInHand, Orphans, MayLoad, Excused, Overlooks,
                Refilling, Loaded, InPlace
<1> QED
  BY <1>1, <1>2

LEMMA LoadStep == LoadInv /\ [CacheNext]_cacheVars => LoadInv'
<1> SUFFICES ASSUME LoadInv, [CacheNext]_cacheVars
             PROVE  LoadsCounted' /\ LoadsAreInHand'
  BY CacheTypeStep DEF LoadInv
<1>1. ASSUME NEW r \in Reader, Miss(r) \/ ReadSteps(r) \/ ReadThrows(r)
      PROVE  LoadsCounted' /\ LoadsAreInHand'
  BY <1>1, QuietReads, LockCounted, UnlockCounted, LoadCounted, PutSharedCounted
     DEF ReadSteps
<1>2. ASSUME NEW w \in Writer, SaveRating(w) \/ UpdateSteps(w) \/ WriteThrows(w)
      PROVE  LoadsCounted' /\ LoadsAreInHand'
  BY <1>2, WritersCounted
<1>3. ASSUME NEW n \in Node, Restart(n)
      PROVE  LoadsCounted' /\ LoadsAreInHand'
  BY <1>3, RestartCounted
<1>4. CASE Lapse
  BY <1>4, LapseCounted
<1>5. CASE ExpireShared
  <2>1. UNCHANGED <<mutex, wasted, reader>> /\ loads' = 0
    BY <1>5 DEF ExpireShared, NoMishap
  <2>2. /\ Orphans' = Orphans /\ MayLoad' = MayLoad
        /\ LoadsAreInHand'
    BY <2>1 DEF LoadInv, LoadsAreInHand, Orphans, MayLoad, Refilling, Loaded, InPlace
  <2> QED
    BY <2>1, <2>2, LoadsReset
<1>6. CASE UNCHANGED cacheVars \/ \E n \in Node : ReceiveInvalidation(n) \/ ExpireLocal(n)
  <2>1. UNCHANGED <<mutex, wasted, loads, reader, l2>>
    BY <1>6 DEF cacheVars, ReceiveInvalidation, ExpireLocal, NoMishap
  <2> QED
    BY <2>1 DEF LoadInv, LoadsCounted, LoadsAreInHand, Orphans, MayLoad, Excused, Overlooks,
                Refilling, Loaded, InPlace
<1> QED
  BY <1>1, <1>2, <1>3, <1>4, <1>5, <1>6 DEF CacheNext

\* However many readers on however many nodes find L2 empty, and whatever goes wrong:
\* the table is read once for the absence, and once more only for each load that was
\* lost, that began beside another, or that replaced another's entry.
THEOREM LoadsAreAccounted == CacheSpec => []OneLoadPerAbsence
<1>1. CacheInit => LoadInv
  <2> SUFFICES ASSUME CacheInit
               PROVE  LoadsCounted /\ LoadsAreInHand
    BY CacheInitTypes DEF LoadInv
  <2>1. Orphans = {} /\ MayLoad = {} /\ LoadsAreInHand
    BY DEF CacheInit, IdleReader, Orphans, MayLoad, Refilling, Loaded, InPlace, LoadsAreInHand
  <2> QED
    BY <2>1, FS_EmptySet DEF CacheInit, LoadsCounted
<1>2. LoadInv => OneLoadPerAbsence
  <2> SUFFICES ASSUME LoadInv
               PROVE  loads <= 1 + wasted
    BY DEF OneLoadPerAbsence
  <2> QED
    BY OrphansCounted DEF LoadInv, CacheTypeOK, LoadsCounted
<1> QED
  BY <1>1, <1>2, LoadStep, PTL DEF CacheSpec
================================================================================
