----------------------- MODULE OrderTrackerProperties -----------------------
(* What OrderTracker guarantees, and one thing IbStatusMapper says it does. *)
EXTENDS OrderTracker

\* Every variable holds a value of its kind.
TrackerTypeOK ==
    /\ statusOf \in [Order -> OrderStatus \cup {"absent"}]
    /\ call \in [Thread -> Call \cup {NoCall}]
    /\ settled \in [Order -> SUBSET Reportable]
    /\ refusals \subseteq Order /\ located \subseteq Order

\* A fill is never lost to the cancel that was reported before it, nor overwritten by
\* what is reported after it: once its report has been dealt with, the row is FILLED
\* (OrderStateMachine's CANCELED -> FILLED, and the compare-and-set).  What hides it
\* is a REJECTED that was there first: the broker had refused the order, or had held
\* it for a locate, which the tracker takes for a refusal.
FillsStick ==
    \A o \in Order : "FILLED" \in settled[o] =>
        statusOf[o] = "FILLED" \/ (statusOf[o] = "REJECTED" /\ o \in refusals \cup located)

\* A report that ends an order's life is not undone by a late "Submitted" or
\* "PendingCancel" whose thread had read the row before: the timeout listener and
\* the platform never see a closed order working again.
ClosingReportsStick ==
    \A o \in Order : settled[o] \cap Terminal # {} => statusOf[o] \in Terminal

\* Each attempt beyond the first was lost to a change another thread made during
\* the call, so a report is only given up after MaxCasRetry such changes.
LostAttemptsAreOthersWins ==
    \A t \in Thread : Busy(t) =>
        /\ call[t].beaten >= call[t].attempt - 1
        /\ (call[t].pc = "cas" /\ statusOf[call[t].order] # call[t].seen)
              => call[t].beaten >= call[t].attempt

\* The table only ever shows its readers legal histories.
ImplementsLedger == Ledger!Spec

\* IbStatusMapper.java:44: a short sale waiting for a locate "is still active and
\* must not be taken for a rejection".
RejectedOnlyIfRefused == \A o \in Order : statusOf[o] = "REJECTED" => o \in refusals
=============================================================================
