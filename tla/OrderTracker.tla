---------------------------- MODULE OrderTracker ----------------------------
(***************************************************************************)
(* service/OrderTracker.java over repository/OrderRepository.java: the     *)
(* broker's status reports, arriving on callback threads, are folded into  *)
(* the rows of execution.orders by read, judge, compare-and-set, with a    *)
(* bounded number of retries.                                              *)
(***************************************************************************)
EXTENDS OrderStateMachine, Integers

CONSTANTS
    Order,        \* broker_order_id values
    Thread,       \* threads that call onStatus
    MaxCasRetry   \* OrderTracker.MAX_CAS_RETRY

ASSUME TrackerAssumption == MaxCasRetry \in Nat \ {0}

VARIABLES
    statusOf,      \* execution.orders.status of each order, "absent" without a row
    call,     \* per thread, the locals of the onStatus call it is in
    settled,  \* per order, the targets whose report was folded in or judged moot
    refusals, \* orders the broker did refuse: a Rejected, or Inactive with no locate
    located   \* orders it told inactive while they were held for a locate

trackerVars == <<statusOf, call, settled, refusals, located>>

\* beaten counts, up to MaxCasRetry, the changes other threads made to the row
\* during the call.
Call ==
    [pc : {"find", "cas"}, order : Order, target : Reportable,
     seen : OrderStatus \cup {"absent"}, attempt : 1..MaxCasRetry,
     beaten : 0..MaxCasRetry]

NoCall == [pc |-> "idle"]

Busy(t) == call[t].pc # "idle"

-----------------------------------------------------------------------------
TrackerInit ==
    /\ statusOf = [o \in Order |-> "absent"]
    /\ call = [t \in Thread |-> NoCall]
    /\ settled = [o \in Order |-> {}]
    /\ refusals = {}
    /\ located = {}

-----------------------------------------------------------------------------
\* OrderTracker.register: the row starts as SUBMITTED; the primary key refuses
\* a second insert.
Register(o) ==
    /\ statusOf[o] = "absent"
    /\ statusOf' = [statusOf EXCEPT ![o] = "SUBMITTED"]
    /\ UNCHANGED <<call, settled, refusals, located>>

\* onStatus is entered with a word the mapper knows.  The adapter does not hand
\* the reason an order is held to the callback, and the mapper is called with
\* an empty one.  A word it does not know is logged and changes nothing.
OnStatus(t, o) ==
    \E ib \in IbStatus, whyHeld \in WhyHeld :
        /\ ~Busy(t)
        /\ MapStatus(ib, "") # "none"
        /\ call' = [call EXCEPT ![t] =
               [pc |-> "find", order |-> o, target |-> MapStatus(ib, ""),
                seen |-> "absent", attempt |-> 1, beaten |-> 0]]
        /\ refusals' = IF MapStatus(ib, whyHeld) = "REJECTED"
                       THEN refusals \cup {o} ELSE refusals
        /\ located' = IF ib = "Inactive" /\ whyHeld = "locate"
                      THEN located \cup {o} ELSE located
        /\ UNCHANGED <<statusOf, settled>>

\* findStatus: the row is read and the call goes on to the compare-and-set.
FindAndJudge(t) ==
    LET o == call[t].order IN
    /\ call[t].pc = "find"
    /\ CanTransition(statusOf[o], call[t].target)
    /\ statusOf[o] # call[t].target
    /\ call' = [call EXCEPT ![t].pc = "cas", ![t].seen = statusOf[o]]
    /\ UNCHANGED <<statusOf, settled, refusals, located>>

\* findStatus found no row: "untracked order", and the report is gone.
FindUntracked(t) ==
    /\ call[t].pc = "find"
    /\ statusOf[call[t].order] = "absent"
    /\ call' = [call EXCEPT ![t] = NoCall]
    /\ UNCHANGED <<statusOf, settled, refusals, located>>

\* The row already says so, or may not come to say so: the report is moot.
FindMoot(t) ==
    LET o == call[t].order IN
    /\ call[t].pc = "find"
    /\ statusOf[o] # "absent"
    /\ statusOf[o] = call[t].target \/ ~CanTransition(statusOf[o], call[t].target)
    /\ settled' = [settled EXCEPT ![o] = @ \cup {call[t].target}]
    /\ call' = [call EXCEPT ![t] = NoCall]
    /\ UNCHANGED <<statusOf, refusals, located>>

\* The other calls on this row have been overtaken once more.
Overtake(t, o) ==
    [u \in Thread |->
        IF u # t /\ Busy(u) /\ call[u].order = o /\ call[u].beaten < MaxCasRetry
        THEN [call[u] EXCEPT !.beaten = @ + 1]
        ELSE call[u]]

\* (mutant) UPDATE without "AND status = ?".
CasBlind(t) ==
    LET o == call[t].order IN
    /\ call[t].pc = "cas"
    /\ statusOf' = [statusOf EXCEPT ![o] = call[t].target]
    /\ settled' = [settled EXCEPT ![o] = @ \cup {call[t].target}]
    /\ call' = [Overtake(t, o) EXCEPT ![t] = NoCall]
    /\ UNCHANGED <<refusals, located>>

\* casUpdateStatus changed one row.
CasWins(t) ==
    LET o == call[t].order IN
    /\ call[t].pc = "cas"
    /\ statusOf[o] = call[t].seen
    /\ statusOf' = [statusOf EXCEPT ![o] = call[t].target]
    /\ settled' = [settled EXCEPT ![o] = @ \cup {call[t].target}]
    /\ call' = [Overtake(t, o) EXCEPT ![t] = NoCall]
    /\ UNCHANGED <<refusals, located>>

\* (mutant) a lost attempt counts for all.
CasLosesTwice(t) ==
    /\ call[t].pc = "cas"
    /\ statusOf[call[t].order] # call[t].seen
    /\ call[t].attempt < MaxCasRetry
    /\ call' = [call EXCEPT ![t].pc = "find", ![t].attempt = MaxCasRetry]
    /\ UNCHANGED <<statusOf, settled, refusals, located>>

\* No row changed: read again and judge again.
CasLoses(t) ==
    /\ call[t].pc = "cas"
    /\ statusOf[call[t].order] # call[t].seen
    /\ call[t].attempt < MaxCasRetry
    /\ call' = [call EXCEPT ![t].pc = "find", ![t].attempt = @ + 1]
    /\ UNCHANGED <<statusOf, settled, refusals, located>>

\* The last retry lost too: the report is given up.
GiveUp(t) ==
    /\ call[t].pc = "cas"
    /\ statusOf[call[t].order] # call[t].seen
    /\ call[t].attempt = MaxCasRetry
    /\ call' = [call EXCEPT ![t] = NoCall]
    /\ UNCHANGED <<statusOf, settled, refusals, located>>

-----------------------------------------------------------------------------
Work(t) ==
    \/ FindAndJudge(t) \/ FindUntracked(t) \/ FindMoot(t)
    \/ CasWins(t) \/ CasLoses(t) \/ GiveUp(t)

TrackerNext ==
    \/ \E o \in Order : Register(o)
    \/ \E t \in Thread : (\E o \in Order : OnStatus(t, o)) \/ Work(t)

TrackerSpec == TrackerInit /\ [][TrackerNext]_trackerVars

-----------------------------------------------------------------------------
(* What a row goes through, as the platform that reads the table sees it. *)

Ledger == INSTANCE OrderLedger WITH row <- statusOf
=============================================================================
