----------------------------- MODULE OrderLedger -----------------------------
(***************************************************************************)
(* What the table execution.orders promises its readers: a row appears as  *)
(* SUBMITTED, and from then on takes one legal step at a time.             *)
(***************************************************************************)
EXTENDS OrderStateMachine

CONSTANT Order

VARIABLE row

Init == row = [o \in Order |-> "absent"]

\* OrderRepository.insert, as OrderTracker.register calls it.
Appear(o) ==
    /\ row[o] = "absent"
    /\ row' = [row EXCEPT ![o] = "SUBMITTED"]

\* One transition of OrderStateMachine.TABLE that a report can ask for.
Advance(o) ==
    \E target \in Reportable :
        /\ CanTransition(row[o], target)
        /\ row' = [row EXCEPT ![o] = target]

Next == \E o \in Order : Appear(o) \/ Advance(o)

Spec == Init /\ [][Next]_row
=============================================================================
