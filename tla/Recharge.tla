-------------------------------- MODULE Recharge --------------------------------
(* The recharge service: an order for a membership plan is queued, created, paid
   by the payment gateway's callback or closed by its timeout, and refunded if
   it was paid and closed. Redis holds the idempotency keys and one lock per
   order, with a lease; MySQL the orders and memberships; RocketMQ the rest. *)
EXTENDS Integers, Sequences, FiniteSetsExt

CONSTANTS
    Order, User, Request,
    Thread,                 \* threads of the service's instances
    Owner, Days,            \* of an order: its user, its plan's days
    Clicks,                 \* the ways requestIds may be given to orders
    MaxCallbacks,           \* bound: callbacks of the gateway
    MaxFaults               \* bound: exceptions, crashes, failed sends, slow holders

ASSUME RechargeAssumption ==
    /\ IsFiniteSet(Order)
    /\ Owner \in [Order -> User]
    /\ Clicks \subseteq [Order -> Request]
    /\ Days \in [Order -> Nat \ {0}]
    /\ MaxCallbacks \in Nat
    /\ MaxFaults \in Nat

VARIABLES
    row,       \* the committed status of an order, "none" before it is created
    member,    \* days of membership a user has; plans outlast the run
    requestOf, \* the requestId an order was submitted with: a repeated click repeats it
    keys,      \* requestIds seen; keys outlive the messages they guard
    queue,     \* submissions of a user, in order; the head is being consumed
    creating,  \* what the consumer of a user's queue is at
    timers,    \* orders whose delayed message is to come
    refunds,   \* refund messages of an order not acknowledged
    lock,      \* who holds an order's lock: a thread, "gone" if it died, or "free"
    job,       \* what a thread is doing
    callbacks, \* callbacks the gateway has made for an order; it is paid from the first
    refunded,  \* orders whose money the gateway returned, under the key orderId
    submitted, \* orders the user was given the id of
    faults,    \* faults so far
    excused    \* history: [failed, untimed, unrefunded : orders], [overlapped : users]

orderVars == <<row, member>>
createVars == <<requestOf, keys, queue, creating, submitted>>
messageVars == <<timers, refunds>>
gatewayVars == <<callbacks, refunded>>
vars == <<orderVars, createVars, messageVars, gatewayVars, lock, job, faults, excused>>

Status == {"none", "UNPAID", "PAID", "CANCELLED", "REFUNDING", "REFUNDED"}
Idle == [doing |-> "idle", order |-> "none", at |-> "idle", seen |-> 0]

Init ==
    /\ row = [o \in Order |-> "none"]
    /\ member = [u \in User |-> 0]
    /\ requestOf \in Clicks
    /\ keys = {}
    /\ queue = [u \in User |-> <<>>]
    /\ creating = [u \in User |-> "idle"]
    /\ timers = {}
    /\ refunds = [o \in Order |-> 0]
    /\ lock = [o \in Order |-> "free"]
    /\ job = [t \in Thread |-> Idle]
    /\ callbacks = [o \in Order |-> 0]
    /\ refunded = {}
    /\ submitted = {}
    /\ faults = 0
    /\ excused = [failed |-> {}, untimed |-> {}, unrefunded |-> {}, overlapped |-> {}]

Fault == faults < MaxFaults /\ faults' = faults + 1
Excuse(why, x) == excused' = [excused EXCEPT ![why] = @ \cup {x}]

--------------------------------------------------------------------------------
(* Submission, and the ordered consumer that creates the order. *)

\* The user is given the order's id once the message is sent.
Submit(o) ==
    /\ o \notin submitted
    /\ submitted' = submitted \cup {o}
    /\ queue' = [queue EXCEPT ![Owner[o]] = Append(@, o)]
    /\ UNCHANGED <<orderVars, requestOf, keys, creating, messageVars, gatewayVars, lock, job, faults, excused>>

Acknowledge(u) ==
    /\ queue' = [queue EXCEPT ![u] = Tail(@)]
    /\ creating' = [creating EXCEPT ![u] = "idle"]

\* (mutant) the key is not looked at.
FirstSeenAlways(o) == TRUE

FirstSeen(o) == requestOf[o] \notin keys

\* firstSeen: the key is set, or the message skipped.
Receive(u) ==
    /\ queue[u] # <<>> /\ creating[u] = "idle"
    /\ LET o == Head(queue[u]) IN
        IF FirstSeen(o)
        THEN /\ keys' = keys \cup {requestOf[o]}
             /\ creating' = [creating EXCEPT ![u] = "keyed"]
             /\ UNCHANGED queue
        ELSE Acknowledge(u) /\ UNCHANGED keys
    /\ UNCHANGED <<orderVars, requestOf, submitted, messageVars, gatewayVars, lock, job, faults, excused>>

\* save, uncommitted, and the delayed message, whose failure is only logged.
Save(u) ==
    /\ creating[u] = "keyed"
    /\ LET o == Head(queue[u]) IN
        IF row[o] # "none"
        THEN Acknowledge(u) /\ UNCHANGED <<timers, faults, excused>>
        ELSE /\ creating' = [creating EXCEPT ![u] = "saved"]
             /\ \/ timers' = timers \cup {o} /\ UNCHANGED <<faults, excused>>
                \/ Fault /\ Excuse("untimed", o) /\ UNCHANGED timers
             /\ UNCHANGED queue
    /\ UNCHANGED <<orderVars, requestOf, keys, submitted, refunds, gatewayVars, lock, job>>

CommitOrder(u) ==
    /\ creating[u] = "saved"
    /\ row' = [row EXCEPT ![Head(queue[u])] = "UNPAID"]
    /\ creating' = [creating EXCEPT ![u] = "created"]
    /\ UNCHANGED <<member, requestOf, keys, queue, submitted, messageVars, gatewayVars, lock, job, faults, excused>>

Created(u) ==
    /\ creating[u] = "created"
    /\ Acknowledge(u)
    /\ UNCHANGED <<orderVars, requestOf, keys, submitted, messageVars, gatewayVars, lock, job, faults, excused>>

\* An exception or a crash: the transaction is rolled back, the key stays, and
\* the message is delivered again.
CreationFails(u) ==
    /\ creating[u] # "idle"
    /\ Fault
    /\ creating' = [creating EXCEPT ![u] = "idle"]
    /\ Excuse("failed", Head(queue[u]))
    /\ UNCHANGED <<orderVars, requestOf, keys, queue, submitted, messageVars, gatewayVars, lock, job>>

--------------------------------------------------------------------------------
(* What the handlers share: the lock, the thread, the row. *)

Start(t, o, doing, at) ==
    job' = [job EXCEPT ![t] = [doing |-> doing, order |-> o, at |-> at, seen |-> 0]]
TryLock(t, o) == lock[o] = "free" /\ lock' = [lock EXCEPT ![o] = t]

At(t, step) == job[t].at = step
GoTo(t, step) == job' = [job EXCEPT ![t].at = step]
CasHolds(t, status) == row[job[t].order] = status

\* A transaction that updated the row keeps other updates of it waiting.
Updating == {"crediting", "granting", "sending", "refunding"}
RowFree(t) == \A other \in Thread \ {t} :
    ~(job[other].order = job[t].order /\ job[other].at \in Updating)

SetRow(t, status) == row' = [row EXCEPT ![job[t].order] = status]
Released(t) == [o \in Order |-> IF lock[o] = t THEN "free" ELSE lock[o]]

\* The refund messages once a thread's own, if it has one, is acknowledged.
Acknowledged(t) ==
    IF job[t].doing = "refund" THEN [refunds EXCEPT ![job[t].order] = @ - 1] ELSE refunds

\* The end of a handler: unlock if the lease has not run out, acknowledge.
Return(t) ==
    /\ At(t, "returning")
    /\ lock' = Released(t)
    /\ job' = [job EXCEPT ![t] = Idle]
    /\ timers' = IF job[t].doing = "timeout" THEN timers \ {job[t].order} ELSE timers
    /\ refunds' = Acknowledged(t)
    /\ UNCHANGED <<orderVars, createVars, gatewayVars, faults, excused>>

\* (mutant) an exception is swallowed: the message is acknowledged.
RaiseSwallowed(t) ==
    /\ job[t].at \notin {"idle", "returning"}
    /\ Fault
    /\ lock' = Released(t)
    /\ job' = [job EXCEPT ![t] = Idle]
    /\ timers' = timers \ {job[t].order}
    /\ refunds' = Acknowledged(t)
    /\ UNCHANGED <<orderVars, createVars, gatewayVars, excused>>

\* An exception rolls back and unlocks; a message is delivered again, a callback
\* is answered as failed.
Raise(t) ==
    /\ job[t].at \notin {"idle", "returning"}
    /\ Fault
    /\ lock' = Released(t)
    /\ job' = [job EXCEPT ![t] = Idle]
    /\ UNCHANGED <<orderVars, createVars, messageVars, gatewayVars, excused>>

\* A crash rolls back and leaves the lock to its lease.
Die(t) ==
    /\ job[t] # Idle
    /\ Fault
    /\ lock' = [o \in Order |-> IF lock[o] = t THEN "gone" ELSE lock[o]]
    /\ job' = [job EXCEPT ![t] = Idle]
    /\ UNCHANGED <<orderVars, createVars, messageVars, gatewayVars, excused>>

\* The lease runs out, after the holder is gone or while it is still at work.
LeaseExpires(o) ==
    /\ lock[o] # "free"
    /\ lock' = [lock EXCEPT ![o] = "free"]
    /\ IF lock[o] = "gone" THEN UNCHANGED faults ELSE Fault
    /\ UNCHANGED <<orderVars, createVars, messageVars, gatewayVars, job, excused>>

--------------------------------------------------------------------------------
(* handlePaymentCallback *)

\* A lock miss is answered "try later", and changes nothing.
Callback(t, o) ==
    /\ job[t] = Idle
    /\ o \in submitted
    /\ MapThenSumSet(LAMBDA p : callbacks[p], Order) < MaxCallbacks
    /\ callbacks' = [callbacks EXCEPT ![o] = @ + 1]
    /\ \/ TryLock(t, o) /\ Start(t, o, "payment", "reading")
       \/ lock[o] # "free" /\ UNCHANGED <<lock, job>>
    /\ UNCHANGED <<orderVars, createVars, messageVars, refunded, faults, excused>>

ReadOrder(t) ==
    /\ At(t, "reading")
    /\ \/ CasHolds(t, "none") /\ GoTo(t, "returning")
       \/ CasHolds(t, "CANCELLED") /\ GoTo(t, "reconciling")
       \/ ~CasHolds(t, "none") /\ ~CasHolds(t, "CANCELLED") /\ GoTo(t, "paying")
    /\ UNCHANGED <<orderVars, createVars, messageVars, gatewayVars, lock, faults, excused>>

\* (mutant) the compare-and-set became a plain update.
PayAndGrantBlindly(t) ==
    /\ At(t, "paying") /\ RowFree(t)
    /\ GoTo(t, "crediting")
    /\ UNCHANGED <<orderVars, createVars, messageVars, gatewayVars, lock, faults, excused>>

\* payAndGrant, to the compare-and-set from UNPAID to PAID.
PayAndGrant(t) ==
    /\ At(t, "paying") /\ RowFree(t)
    /\ GoTo(t, IF CasHolds(t, "UNPAID") THEN "crediting" ELSE "returning")
    /\ UNCHANGED <<orderVars, createVars, messageVars, gatewayVars, lock, faults, excused>>

OwnerOf(t) == Owner[job[t].order]

ReadMembership(t) ==
    /\ At(t, "crediting")
    /\ job' = [job EXCEPT ![t].at = "granting", ![t].seen = member[OwnerOf(t)]]
    /\ UNCHANGED <<orderVars, createVars, messageVars, gatewayVars, lock, faults, excused>>

\* grant writes what it read plus the plan's days; the commit makes both visible.
CommitGrant(t) ==
    /\ At(t, "granting")
    /\ SetRow(t, "PAID")
    /\ member' = [member EXCEPT ![OwnerOf(t)] = job[t].seen + Days[job[t].order]]
    /\ job' = [job EXCEPT ![t].at = "returning", ![t].seen = 0]
    /\ IF member[OwnerOf(t)] = job[t].seen THEN UNCHANGED excused ELSE Excuse("overlapped", OwnerOf(t))
    /\ UNCHANGED <<createVars, messageVars, gatewayVars, lock, faults>>

\* reconcileRefund, to the compare-and-set from CANCELLED to REFUNDING.
ReconcileRefund(t) ==
    /\ At(t, "reconciling") /\ RowFree(t)
    /\ GoTo(t, IF CasHolds(t, "CANCELLED") THEN "sending" ELSE "returning")
    /\ UNCHANGED <<orderVars, createVars, messageVars, gatewayVars, lock, faults, excused>>

\* (mutant) the refund message is forgotten.
SendRefundForgotten(t) ==
    /\ At(t, "sending")
    /\ GoTo(t, "refunding")
    /\ UNCHANGED <<orderVars, createVars, messageVars, gatewayVars, lock, faults, excused>>

\* The refund message is sent before the commit; a failure is only logged.
SendRefund(t) ==
    /\ At(t, "sending")
    /\ GoTo(t, "refunding")
    /\ \/ refunds' = [refunds EXCEPT ![job[t].order] = @ + 1] /\ UNCHANGED <<faults, excused>>
       \/ Fault /\ Excuse("unrefunded", job[t].order) /\ UNCHANGED refunds
    /\ UNCHANGED <<orderVars, createVars, timers, gatewayVars, lock>>

CommitRefunding(t) ==
    /\ At(t, "refunding")
    /\ SetRow(t, "REFUNDING")
    /\ GoTo(t, "returning")
    /\ UNCHANGED <<member, createVars, messageVars, gatewayVars, lock, faults, excused>>

--------------------------------------------------------------------------------
(* RechargeTimeoutListener *)

\* A lock miss drops the message.
Timeout(t, o) ==
    /\ job[t] = Idle
    /\ o \in timers
    /\ \A other \in Thread : ~(job[other].doing = "timeout" /\ job[other].order = o)
    /\ \/ TryLock(t, o) /\ Start(t, o, "timeout", "closing") /\ UNCHANGED <<timers, excused>>
       \/ /\ lock[o] # "free"
          /\ timers' = timers \ {o}
          /\ Excuse("untimed", o)
          /\ UNCHANGED <<lock, job>>
    /\ UNCHANGED <<orderVars, createVars, refunds, gatewayVars, faults>>

\* (mutant) the compare-and-set became a plain update.
CloseBlindly(t) ==
    /\ At(t, "closing") /\ RowFree(t)
    /\ GoTo(t, "returning")
    /\ SetRow(t, "CANCELLED")
    /\ UNCHANGED <<member, createVars, messageVars, gatewayVars, lock, faults, excused>>

\* closeTimeoutOrder: the compare-and-set from UNPAID to CANCELLED, if there is
\* an order to close by now.
CloseTimeoutOrder(t) ==
    /\ At(t, "closing") /\ RowFree(t)
    /\ GoTo(t, "returning")
    /\ IF CasHolds(t, "UNPAID") THEN SetRow(t, "CANCELLED") ELSE UNCHANGED row
    /\ IF CasHolds(t, "none") THEN Excuse("untimed", job[t].order) ELSE UNCHANGED excused
    /\ UNCHANGED <<member, createVars, messageVars, gatewayVars, lock, faults>>

--------------------------------------------------------------------------------
(* RefundConsumer *)

InHand(o) == {t \in Thread : job[t].doing = "refund" /\ job[t].order = o}

\* A lock miss drops the message, in the belief that another consumer has it.
Refund(t, o) ==
    /\ job[t] = Idle
    /\ Cardinality(InHand(o)) < refunds[o]
    /\ \/ TryLock(t, o) /\ Start(t, o, "refund", "checking") /\ UNCHANGED <<refunds, excused>>
       \/ /\ lock[o] # "free"
          /\ refunds' = [refunds EXCEPT ![o] = @ - 1]
          /\ Excuse("unrefunded", o)
          /\ UNCHANGED <<lock, job>>
    /\ UNCHANGED <<orderVars, createVars, timers, gatewayVars, faults>>

\* (mutant) the gateway is called whatever the order says.
CheckRefundUnchecked(t) ==
    /\ At(t, "checking")
    /\ GoTo(t, "paying back")
    /\ UNCHANGED <<orderVars, createVars, messageVars, gatewayVars, lock, faults, excused>>

\* doRefund goes on only from REFUNDING, so that a redelivery gets this far again.
CheckRefund(t) ==
    /\ At(t, "checking")
    /\ GoTo(t, IF CasHolds(t, "REFUNDING") THEN "paying back" ELSE "returning")
    /\ IF CasHolds(t, "REFUNDING") \/ CasHolds(t, "REFUNDED")
       THEN UNCHANGED excused ELSE Excuse("unrefunded", job[t].order)
    /\ UNCHANGED <<orderVars, createVars, messageVars, gatewayVars, lock, faults>>

\* The gateway returns the money once per refund number.
PayBack(t) ==
    /\ At(t, "paying back")
    /\ refunded' = refunded \cup {job[t].order}
    /\ GoTo(t, "marking")
    /\ UNCHANGED <<orderVars, createVars, messageVars, callbacks, lock, faults, excused>>

MarkRefunded(t) ==
    /\ At(t, "marking") /\ RowFree(t)
    /\ GoTo(t, "returning")
    /\ IF CasHolds(t, "REFUNDING") THEN SetRow(t, "REFUNDED") ELSE UNCHANGED row
    /\ UNCHANGED <<member, createVars, messageVars, gatewayVars, lock, faults, excused>>

\* RocketMQ delivers at least once.
Duplicate(o) ==
    /\ refunds[o] > 0
    /\ Fault
    /\ refunds' = [refunds EXCEPT ![o] = @ + 1]
    /\ UNCHANGED <<orderVars, createVars, timers, gatewayVars, lock, job, excused>>

--------------------------------------------------------------------------------
Creates(u) == Receive(u) \/ Save(u) \/ CommitOrder(u) \/ Created(u)
Works(t) ==
    \/ ReadOrder(t) \/ PayAndGrant(t) \/ ReadMembership(t) \/ CommitGrant(t)
    \/ ReconcileRefund(t) \/ SendRefund(t) \/ CommitRefunding(t)
    \/ CloseTimeoutOrder(t)
    \/ CheckRefund(t) \/ PayBack(t) \/ MarkRefunded(t)
    \/ Return(t)
Takes(t, o) == Timeout(t, o) \/ Refund(t, o)

Next ==
    \/ \E o \in Order : Submit(o) \/ LeaseExpires(o) \/ Duplicate(o)
    \/ \E u \in User : Creates(u) \/ CreationFails(u)
    \/ \E t \in Thread : Works(t) \/ Raise(t) \/ Die(t)
    \/ \E t \in Thread, o \in Order : Callback(t, o) \/ Takes(t, o)

Spec == Init /\ [][Next]_vars

\* Consumers consume, handlers go on, messages are delivered, and the lock of a
\* dead holder expires. Nobody has to pay, and the gateway need not repeat itself.
Fairness ==
    /\ \A u \in User : WF_vars(Creates(u))
    /\ \A t \in Thread : WF_vars(Works(t))
    /\ \A o \in Order :
        /\ WF_vars(\E t \in Thread : Timeout(t, o))
        /\ WF_vars(\E t \in Thread : Refund(t, o))
        /\ WF_vars(lock[o] = "gone" /\ LeaseExpires(o))

FairSpec == Spec /\ Fairness

================================================================================
