-------------------------- MODULE OutboxProperties --------------------------
(***************************************************************************)
(* What the outbox owes: nothing accepted is lost, nothing is sent that    *)
(* was not committed, a row has one owner and one ending, and a message is *)
(* duplicated only by a failure that explains it.                          *)
(***************************************************************************)
EXTENDS Outbox

\* Every variable holds a value of its kind.
TypeOK ==
    /\ status \in [Key -> RowStatus]
    /\ attempts \in [Key -> Nat]
    /\ createdAt \in [Key -> Nat]
    /\ clock \in Nat
    /\ inserted \in [Session -> SUBSET Key]
    /\ accepted \in SUBSET Key
    /\ sweep \in [Relay -> [Key -> SweepMark]]
    /\ relay \in [Relay -> {"up", "stopping", "down"}]
    /\ published \in [Key -> Nat]
    /\ refused \in [Key -> Nat]
    /\ abandoned \in SUBSET Key
    /\ lost \in Nat

\* A request that was told its order is queued has a row for it, whichever of
\* several concurrent requests inserted the row (_enqueue's savepoint).
AcceptedIsRecorded == \A k \in accepted : Exists(k)

\* Nothing reaches the broker whose row is not committed: the relay never
\* publishes an order whose request rolled back (outbox.py's opening comment).
PublishedWasCommitted == \A k \in Key : published[k] > 0 => Exists(k)

\* Two relays never work on the same row, and only pending rows are worked on
\* (FOR UPDATE SKIP LOCKED in _pending).
OneClaimPerRow ==
    \A k \in Key : \A r1, r2 \in Relay :
        sweep[r1][k] # "no" =>
            /\ status[k] = "pending"
            /\ sweep[r2][k] # "no" => r1 = r2

\* A row says SENT only if its message left at least once.
SentWasPublished == \A k \in Key : status[k] = "sent" => published[k] > 0

\* One publish of k is accounted for: its row says SENT, or a sweep under way
\* will write that.
AccountedFor(k) == status[k] = "sent" \/ \E r \in Relay : sweep[r][k] = "sent"

\* The copies of a message beyond the one its row accounts for are each
\* explained by a publish that raised or by a sweep that was lost; relays that
\* stop, start and overlap add none.
DuplicatesAreExplained ==
    \A k \in Key : published[k] <= refused[k] + lost
                       + (IF AccountedFor(k) THEN 1 ELSE 0)

\* A row is given up only after max_attempts publishes of it raised, or by an
\* explicit abandon; failures a lost sweep forgot do not count against it.
GivenUpAfterMaxAttempts ==
    \A k \in Key : status[k] = "failed" /\ k \notin abandoned
                       => attempts[k] >= MaxAttempts /\ refused[k] >= MaxAttempts

\* The failures written on a row never exceed the ones that happened, and the
\* ones that happened exceed them only by sweeps lost.
AttemptsCountFailures ==
    \A k \in Key : attempts[k] <= refused[k] /\ attempts[k] <= MaxAttempts

\* SENT and FAILED are endings: no relay, abandon or duplicate request moves a
\* closed row, nor sends its message again.
KeepsClosedRows ==
    \A k \in Key : status[k] \in {"sent", "failed"} =>
        /\ status'[k] = status[k]
        /\ published'[k] = published[k]

ClosedRowsStayClosed == [][KeepsClosedRows]_vars

\* Every row is eventually closed, whatever the relays go through: the queue
\* drains (relay.py's "bounded").
EveryRowIsClosed ==
    \A k \in Key : status[k] = "pending" ~> status[k] \in {"sent", "failed"}

\* The outbox implements the promise of AtLeastOnceHandoff.
Handoff == INSTANCE AtLeastOnceHandoff
             WITH Item <- Key, fate <- status,
                  delivered <- {k \in Key : published[k] > 0}
ImplementsHandoff == Handoff!Spec
=============================================================================
