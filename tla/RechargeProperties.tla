--------------------------- MODULE RechargeProperties ---------------------------
(* What becomes of the money. *)
EXTENDS Recharge, SequencesExt, FiniteSums

\* Every variable holds a value of its kind.
TypeOK ==
    /\ row \in [Order -> Status]
    /\ member \in [User -> Nat]
    /\ requestOf \in [Order -> Request]
    /\ keys \subseteq Request
    /\ queue \in [User -> Seq(Order)]
    /\ creating \in [User -> {"idle", "keyed", "saved", "created"}]
    /\ timers \subseteq Order
    /\ refunds \in [Order -> Nat]
    /\ lock \in [Order -> Thread \cup {"free", "gone"}]
    /\ job \in [Thread -> {Idle} \cup
        [doing : {"payment", "timeout", "refund"}, order : Order, seen : Nat,
         at : {"reading", "paying", "reconciling", "closing", "checking",
               "paying back", "marking", "returning"} \cup Updating]]
    /\ callbacks \in [Order -> 0..MaxCallbacks]
    /\ refunded \subseteq Order
    /\ submitted \subseteq Order
    /\ faults \in 0..MaxFaults
    /\ excused \in [failed : SUBSET Order, untimed : SUBSET Order,
                    unrefunded : SUBSET Order, overlapped : SUBSET User]

\* An order is paid for once, whichever of callback and timeout comes first and
\* whatever lock ran out: its money buys membership or is returned, not both.
MoneyIsUsedOnce ==
    \A o \in refunded : callbacks[o] > 0 /\ row[o] \in {"REFUNDING", "REFUNDED"}

\* A user has no day of membership that is not of a paid order, and lacks one
\* only where two grants of theirs overlapped: the lock is per order, the
\* membership is read and written back per user.
PaidOrders(u) == {o \in Order : Owner[o] = u /\ row[o] = "PAID"}
Bought(u) == SumOver(Days, PaidOrders(u))
MembershipIsBought ==
    \A u \in User :
        /\ member[u] <= Bought(u)
        /\ u \notin excused.overlapped => member[u] = Bought(u)

\* PAID and REFUNDED are final, and every other step is one of the life cycle:
\* created, then paid or closed, closed then refunding, then refunded.
LifeCycle == {<<"none", "UNPAID">>, <<"UNPAID", "PAID">>, <<"UNPAID", "CANCELLED">>,
              <<"CANCELLED", "REFUNDING">>, <<"REFUNDING", "REFUNDED">>}
OrdersMoveForward ==
    [][\A o \in Order : row'[o] # row[o] => <<row[o], row'[o]>> \in LifeCycle]_vars

\* A request makes one order, however often its message comes; the id the user
\* was given may be of an order that is never created, if the request is a
\* repeated one or its creation failed after the key was set.
OneOrderPerRequest ==
    /\ \A o, p \in Order : requestOf[o] = requestOf[p] /\ row[o] # "none" /\ row[p] # "none" => o = p
    /\ \A o \in submitted : ~Contains(queue[Owner[o]], o) =>
        \E p \in Order : requestOf[p] = requestOf[o] /\ (row[p] # "none" \/ p \in excused.failed)

\* An unpaid order has its delayed message to come, unless sending it failed or
\* it came while the order was locked.
UnpaidIsTimed ==
    \A o \in Order : row[o] = "UNPAID" => o \in timers \cup excused.untimed

\* Refunds are made, unless their message was not sent or was dropped.
RefundsAreMade ==
    \A o \in Order : row[o] = "REFUNDING" ~> row[o] = "REFUNDED" \/ o \in excused.unrefunded
================================================================================
