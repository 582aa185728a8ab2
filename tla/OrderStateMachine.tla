------------------------- MODULE OrderStateMachine -------------------------
(***************************************************************************)
(* The life of an order in the execution worker                            *)
(* (domain/OrderStatus.java, OrderStateMachine.java, IbStatusMapper.java): *)
(* the statuses a row of execution.orders may hold, the transitions the    *)
(* table allows, and what the broker's words are taken to mean.            *)
(***************************************************************************)

OrderStatus ==
    {"INITIALIZED", "SUBMITTED", "ACCEPTED", "PENDING_UPDATE", "PENDING_CANCEL",
     "TRIGGERED", "PARTIALLY_FILLED", "FILLED", "CANCELED", "EXPIRED",
     "REJECTED", "DENIED"}

\* OrderStatus.isTerminal
Terminal == {"FILLED", "CANCELED", "EXPIRED", "REJECTED", "DENIED"}

\* (mutant) the table without the rows "a cancel may collide with a fill" and
\* "a failed cancel request".
TableCancelIsFinal ==
    {"SUBMITTED", "ACCEPTED", "PENDING_CANCEL"} \X
        {"ACCEPTED", "PENDING_CANCEL", "REJECTED", "CANCELED", "FILLED"}

\* OrderStateMachine.TABLE, as the set of its <<from, to>> pairs.
TABLE ==
    ({"INITIALIZED"} \X {"DENIED", "SUBMITTED", "REJECTED", "ACCEPTED",
                         "CANCELED", "EXPIRED", "TRIGGERED"})
    \cup ({"SUBMITTED"} \X {"PENDING_UPDATE", "PENDING_CANCEL", "REJECTED",
                            "CANCELED", "ACCEPTED", "PARTIALLY_FILLED", "FILLED"})
    \cup ({"ACCEPTED"} \X {"REJECTED", "PENDING_UPDATE", "PENDING_CANCEL",
                           "CANCELED", "TRIGGERED", "EXPIRED",
                           "PARTIALLY_FILLED", "FILLED"})
    \cup ({"CANCELED"} \X {"PARTIALLY_FILLED", "FILLED"})
    \cup ({"PENDING_UPDATE"} \X {"REJECTED", "ACCEPTED", "CANCELED", "EXPIRED",
                                 "TRIGGERED", "PENDING_UPDATE", "PENDING_CANCEL",
                                 "PARTIALLY_FILLED", "FILLED"})
    \cup ({"PENDING_CANCEL"} \X {"REJECTED", "PENDING_CANCEL", "CANCELED",
                                 "EXPIRED", "ACCEPTED", "PARTIALLY_FILLED", "FILLED"})
    \cup ({"TRIGGERED"} \X {"REJECTED", "PENDING_UPDATE", "PENDING_CANCEL",
                            "CANCELED", "EXPIRED", "PARTIALLY_FILLED", "FILLED"})
    \cup ({"PARTIALLY_FILLED"} \X {"PENDING_UPDATE", "PENDING_CANCEL", "CANCELED",
                                   "EXPIRED", "PARTIALLY_FILLED", "FILLED"})

CanTransition(from, to) == <<from, to>> \in TABLE

-----------------------------------------------------------------------------
(* IbStatusMapper *)

\* com.ib.client.OrderStatus, and the "Rejected" the mapper also knows.
IbStatus ==
    {"ApiPending", "ApiCancelled", "PreSubmitted", "PendingCancel", "Cancelled",
     "Submitted", "Filled", "Inactive", "PendingSubmit", "Unknown", "Rejected"}

WhyHeld == {"", "locate"}

\* What MappingResult.status says, "none" where it is null: an unknown word, or
\* a short sale waiting for a locate.
MapStatus(ib, whyHeld) ==
    IF ib \in {"ApiCancelled", "Cancelled"} THEN "CANCELED"
    ELSE IF ib = "PendingCancel" THEN "PENDING_CANCEL"
    ELSE IF ib = "Filled" THEN "FILLED"
    ELSE IF ib = "Rejected" \/ (ib = "Inactive" /\ whyHeld # "locate") THEN "REJECTED"
    ELSE IF ib \in {"PendingSubmit", "PreSubmitted", "Submitted"} THEN "ACCEPTED"
    ELSE "none"

\* The statuses a report can lead to: five of the twelve.
Reportable == {"ACCEPTED", "PENDING_CANCEL", "CANCELED", "REJECTED", "FILLED"}
=============================================================================
