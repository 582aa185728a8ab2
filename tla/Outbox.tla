------------------------------- MODULE Outbox -------------------------------
(***************************************************************************)
(* The transactional outbox that carries a trade proposal, or a cancel,    *)
(* out of the platform (server/kairos/adapters/trading/outbox.py and       *)
(* server/kairos/runtime/relay.py).                                        *)
(*                                                                         *)
(* Request sessions insert rows and commit or roll back.  Relay processes  *)
(* claim pending rows with SELECT ... FOR UPDATE SKIP LOCKED, publish them *)
(* oldest first, and write the outcomes in one commit at the end of the    *)
(* sweep.  A relay can lose a sweep (its process dies, the database        *)
(* refuses the commit), can be asked to stop, and is started again.        *)
(*                                                                         *)
(* A Key is the pair (tenant_id, proposal_id) the table holds unique: the  *)
(* proposal's own id for a submission, the uuid5 of the broker's order id  *)
(* for a cancel.                                                           *)
(***************************************************************************)
EXTENDS Integers, FiniteSets

CONSTANTS
    Key,          \* idempotency keys (tenant, proposal)
    Account,      \* what a row's ordering_key column may hold
    OrderingKey,  \* the ordering_key of each key's row
    Session,      \* request sessions
    Relay,        \* relay processes
    BatchSize,    \* RelayPolicy.batch_size
    MaxAttempts,  \* RelayPolicy.max_attempts
    MaxClock,     \* bound: distinct created_at values
    MaxLost       \* bound: sweeps lost over a behaviour

ASSUME OutboxAssumption ==
    /\ IsFiniteSet(Key)
    /\ OrderingKey \in [Key -> Account]
    /\ BatchSize \in Nat \ {0}
    /\ MaxAttempts \in Nat \ {0}
    /\ MaxClock \in Nat
    /\ MaxLost \in Nat

VARIABLES
    status,     \* order_outbox.status of each committed row, "absent" if none
    attempts,   \* order_outbox.attempts
    createdAt,  \* order_outbox.created_at as a logical time
    clock,      \* the database's now(), which two inserts may share
    inserted,   \* rows a session has inserted and not committed
    accepted,   \* keys whose submit or cancel returned to a committed request
    sweep,      \* per relay and key: "no" | "todo" | "sent" | "error"
    relay,      \* per relay: "up" | "stopping" | "down"
    published,  \* how many times each key's message reached the broker
    refused,    \* how many publishes of each key raised
    abandoned,  \* keys closed by OutboxRelay.abandon
    lost        \* sweeps that ended without their commit

rowVars == <<status, attempts, createdAt, clock>>
requestVars == <<inserted, accepted>>
wireVars == <<published, refused>>
vars == <<status, attempts, createdAt, clock, inserted, accepted, sweep,
          relay, published, refused, abandoned, lost>>

RowStatus == {"absent", "pending", "sent", "failed"}
SweepMark == {"no", "todo", "sent", "error"}

-----------------------------------------------------------------------------
(* State predicates *)

Exists(k) == status[k] # "absent"

\* (mutant) _pending without FOR UPDATE SKIP LOCKED.
ReadsOnly(k) == FALSE

\* A row some relay's open transaction holds FOR UPDATE.
Locked(k) == \E r \in Relay : sweep[r][k] # "no"

Claimed(r) == {k \in Key : sweep[r][k] # "no"}
Unpublished(r) == {k \in Key : sweep[r][k] = "todo"}

\* Between sweeps: RelayService has no session open.
Idle(r) == Claimed(r) = {}

\* (mutant) _pending passes over rows that have failed before.
ClaimableUntried == {k \in Key : status[k] = "pending" /\ ~Locked(k) /\ attempts[k] = 0}

Claimable == {k \in Key : status[k] = "pending" /\ ~Locked(k)}

Older(j, k) == createdAt[j] < createdAt[k]

\* ORDER BY created_at LIMIT batch_size over the rows the query may lock; the
\* database picks among rows of the same created_at.
IsBatch(B) ==
    /\ \/ B = Claimable /\ Cardinality(B) <= BatchSize
       \/ Cardinality(B) = BatchSize
    /\ \A k \in B, j \in Claimable \ B : ~Older(j, k)

NoMarks == [k \in Key |-> "no"]

-----------------------------------------------------------------------------
Init ==
    /\ status = [k \in Key |-> "absent"]
    /\ attempts = [k \in Key |-> 0]
    /\ createdAt = [k \in Key |-> 0]
    /\ clock = 0
    /\ inserted = [s \in Session |-> {}]
    /\ accepted = {}
    /\ sweep = [r \in Relay |-> NoMarks]
    /\ relay = [r \in Relay |-> "up"]
    /\ published = [k \in Key |-> 0]
    /\ refused = [k \in Key |-> 0]
    /\ abandoned = {}
    /\ lost = 0

-----------------------------------------------------------------------------
(* The request: OutboxGateway.submit and cancel, then the transaction's end *)

\* _enqueue finds no row with this key: the flush inserts one inside its
\* savepoint.  The unique index makes the insert wait while another open
\* transaction holds the same key.
Enqueue(s, k) ==
    /\ ~Exists(k)
    /\ \A t \in Session : k \notin inserted[t]
    /\ clock' \in {clock, clock + 1} \cap 0..MaxClock
    /\ createdAt' = [createdAt EXCEPT ![k] = clock']
    /\ inserted' = [inserted EXCEPT ![s] = @ \cup {k}]
    /\ UNCHANGED <<status, attempts, accepted, sweep, relay, published,
                   refused, abandoned, lost>>

\* (mutant) the duplicate is detected on a row not yet committed.
EnqueueDuplicateEarly(k) ==
    /\ Exists(k) \/ \E s \in Session : k \in inserted[s]
    /\ k \notin accepted
    /\ accepted' = accepted \cup {k}
    /\ UNCHANGED <<status, attempts, createdAt, clock, inserted, sweep, relay,
                   published, refused, abandoned, lost>>

\* _enqueue hits the unique index on a committed row: the savepoint is rolled
\* back, the call returns as if it had inserted, and the request succeeds.
EnqueueDuplicate(k) ==
    /\ Exists(k)
    /\ k \notin accepted
    /\ accepted' = accepted \cup {k}
    /\ UNCHANGED <<status, attempts, createdAt, clock, inserted, sweep, relay,
                   published, refused, abandoned, lost>>

\* The request's transaction commits: its rows become visible together.  The
\* answer may be lost on the way, and the caller then asks again.
Commit(s) ==
    /\ inserted[s] # {}
    /\ status' = [k \in Key |-> IF k \in inserted[s] THEN "pending" ELSE status[k]]
    /\ accepted' \in {accepted \cup inserted[s], accepted}
    /\ inserted' = [inserted EXCEPT ![s] = {}]
    /\ UNCHANGED <<attempts, createdAt, clock, sweep, relay, published,
                   refused, abandoned, lost>>

\* The handler raised after the enqueue: nothing the request wrote survives.
Rollback(s) ==
    /\ inserted[s] # {}
    /\ createdAt' = [k \in Key |-> IF k \in inserted[s] THEN 0 ELSE createdAt[k]]
    /\ inserted' = [inserted EXCEPT ![s] = {}]
    /\ UNCHANGED <<status, attempts, clock, accepted, sweep, relay, published,
                   refused, abandoned, lost>>

-----------------------------------------------------------------------------
(* The relay: one sweep is one transaction *)

\* OutboxRelay._pending at the head of the loop.  A sweep that claims nothing
\* writes nothing and is a stuttering step here.
Claim(r) ==
    /\ relay[r] = "up"
    /\ Idle(r)
    /\ \E B \in SUBSET Claimable :
         /\ B # {} /\ IsBatch(B)
         /\ sweep' = [sweep EXCEPT ![r] = [k \in Key |-> IF k \in B THEN "todo" ELSE "no"]]
    /\ UNCHANGED <<status, attempts, createdAt, clock, inserted, accepted,
                   relay, published, refused, abandoned, lost>>

\* sweep() walks the batch in created_at order.
IsNext(r, k) ==
    /\ k \in Unpublished(r)
    /\ \A j \in Unpublished(r) : ~Older(j, k)

\* The publish returned; the row object is marked SENT in memory.
Publish(r, k) ==
    /\ IsNext(r, k)
    /\ published' = [published EXCEPT ![k] = @ + 1]
    /\ sweep' = [sweep EXCEPT ![r][k] = "sent"]
    /\ UNCHANGED <<status, attempts, createdAt, clock, inserted, accepted,
                   relay, refused, abandoned, lost>>

\* The publish raised, before or after the broker took the message; the loop
\* records the failure on the row object and goes on with the next row.
PublishRaises(r, k) ==
    /\ IsNext(r, k)
    /\ \E reached \in {0, 1} :
         published' = [published EXCEPT ![k] = @ + reached]
    /\ refused' = [refused EXCEPT ![k] = @ + 1]
    /\ sweep' = [sweep EXCEPT ![r][k] = "error"]
    /\ UNCHANGED <<status, attempts, createdAt, clock, inserted, accepted,
                   relay, abandoned, lost>>

\* (mutant) `continue` missing after a failure.
OutcomeAlwaysSent(mark, k) == IF mark = "no" THEN status[k] ELSE "sent"

\* The status a swept row is written with: SENT, PENDING again, or FAILED on
\* the max_attempts-th recorded failure (_record_failure).
Outcome(mark, k) ==
    IF mark = "sent" THEN "sent"
    ELSE IF mark = "error" /\ attempts[k] + 1 >= MaxAttempts THEN "failed"
    ELSE status[k]

\* sweep_once flushes and commits: every row of the batch at once.
CommitSweep(r) ==
    /\ ~Idle(r)
    /\ Unpublished(r) = {}
    /\ status' = [k \in Key |-> Outcome(sweep[r][k], k)]
    /\ attempts' = [k \in Key |-> IF sweep[r][k] = "error" THEN attempts[k] + 1
                                                           ELSE attempts[k]]
    /\ sweep' = [sweep EXCEPT ![r] = NoMarks]
    /\ UNCHANGED <<createdAt, clock, inserted, accepted, relay, published,
                   refused, abandoned, lost>>

\* The sweep ends without its commit: run() logs the exception and goes on,
\* or the process is gone.  The locks go, the marks go, the messages do not.
LoseSweep(r) ==
    /\ ~Idle(r)
    /\ lost < MaxLost
    /\ lost' = lost + 1
    /\ sweep' = [sweep EXCEPT ![r] = NoMarks]
    /\ \E state \in {relay[r], "down"} : relay' = [relay EXCEPT ![r] = state]
    /\ UNCHANGED <<status, attempts, createdAt, clock, inserted, accepted,
                   published, refused, abandoned>>

\* RelayService.stop, from a signal handler: the sweep under way finishes.
Stop(r) ==
    /\ relay[r] = "up"
    /\ relay' = [relay EXCEPT ![r] = "stopping"]
    /\ UNCHANGED <<rowVars, requestVars, sweep, wireVars, abandoned, lost>>

\* The loop of run() sees the event between sweeps and returns.
LeaveLoop(r) ==
    /\ relay[r] = "stopping"
    /\ Idle(r)
    /\ relay' = [relay EXCEPT ![r] = "down"]
    /\ UNCHANGED <<rowVars, requestVars, sweep, wireVars, abandoned, lost>>

\* The deployment runs scripts/relay.py again.
Start(r) ==
    /\ relay[r] = "down"
    /\ relay' = [relay EXCEPT ![r] = "up"]
    /\ UNCHANGED <<rowVars, requestVars, sweep, wireVars, abandoned, lost>>

\* OutboxRelay.abandon: UPDATE ... WHERE status = 'pending', which waits for a
\* row lock and then looks at the committed status again.
Abandon(k) ==
    /\ status[k] = "pending"
    /\ ~Locked(k)
    /\ status' = [status EXCEPT ![k] = "failed"]
    /\ abandoned' = abandoned \cup {k}
    /\ UNCHANGED <<attempts, createdAt, clock, requestVars, sweep, relay,
                   wireVars, lost>>

-----------------------------------------------------------------------------
Next ==
    \/ \E s \in Session : \/ \E k \in Key : Enqueue(s, k)
                          \/ Commit(s)
                          \/ Rollback(s)
    \/ \E k \in Key : EnqueueDuplicate(k) \/ Abandon(k)
    \/ \E r \in Relay : \/ Claim(r)
                        \/ \E k \in Key : Publish(r, k) \/ PublishRaises(r, k)
                        \/ CommitSweep(r)
                        \/ LoseSweep(r)
                        \/ Stop(r)
                        \/ LeaveLoop(r)
                        \/ Start(r)

Spec == Init /\ [][Next]_vars

\* A relay process keeps executing and is restarted when it is down.  Claim is
\* strongly fair: run() opens every iteration with a sweep, so only a stop
\* requested in each and every start could keep a relay from sweeping.
RelayFairness(r) ==
    /\ SF_vars(Claim(r))
    /\ WF_vars(\E k \in Key : Publish(r, k) \/ PublishRaises(r, k))
    /\ WF_vars(CommitSweep(r))
    /\ WF_vars(LeaveLoop(r))
    /\ WF_vars(Start(r))

FairSpec == Spec /\ \A r \in Relay : RelayFairness(r)
=============================================================================
