---------------------------- MODULE OutboxProofs ----------------------------
(***************************************************************************)
(* The safety of the outbox for any number of rows, request sessions and   *)
(* relays, any batch size and any bound on attempts.                       *)
(***************************************************************************)
EXTENDS OutboxProperties, TLAPS

\* A key is in the open transaction of one session at most, and has no
\* committed row while it is: the unique index.
UncommittedIsUnique ==
    \A k \in Key : \A s, t \in Session :
        k \in inserted[s] => /\ status[k] = "absent"
                             /\ k \in inserted[t] => s = t

\* A publish marked as done in a sweep has reached the broker.
MarkedSentWasPublished ==
    \A k \in Key, r \in Relay : sweep[r][k] = "sent" => published[k] > 0

\* A failure marked in a sweep is one the row does not count yet.
MarkedErrorIsNew ==
    \A k \in Key, r \in Relay : sweep[r][k] = "error" => attempts[k] + 1 <= refused[k]

\* A row still pending has attempts left.
PendingHasAttemptsLeft ==
    \A k \in Key : status[k] \in {"absent", "pending"} => attempts[k] < MaxAttempts

\* What every step of the outbox preserves.
IInv ==
    /\ TypeOK
    /\ OneClaimPerRow
    /\ UncommittedIsUnique
    /\ AcceptedIsRecorded
    /\ PublishedWasCommitted
    /\ SentWasPublished
    /\ MarkedSentWasPublished
    /\ DuplicatesAreExplained
    /\ AttemptsCountFailures
    /\ MarkedErrorIsNew
    /\ PendingHasAttemptsLeft
    /\ GivenUpAfterMaxAttempts

USE OutboxAssumption

-----------------------------------------------------------------------------
\* The variables keep their types from any state in which they have them.
LEMMA TypeStep == TypeOK /\ [Next]_vars => TypeOK'
<1> SUFFICES ASSUME TypeOK, [Next]_vars PROVE TypeOK'
  OBVIOUS
<1> USE DEF TypeOK, RowStatus, SweepMark, rowVars, requestVars, wireVars
<1>1. ASSUME NEW s \in Session, NEW k \in Key, Enqueue(s, k) PROVE TypeOK'
  BY <1>1 DEF Enqueue, Exists
<1>2. ASSUME NEW s \in Session, Commit(s) PROVE TypeOK'
  BY <1>2 DEF Commit
<1>3. ASSUME NEW s \in Session, Rollback(s) PROVE TypeOK'
  BY <1>3 DEF Rollback
<1>4. ASSUME NEW k \in Key, EnqueueDuplicate(k) PROVE TypeOK'
  BY <1>4 DEF EnqueueDuplicate
<1>5. ASSUME NEW k \in Key, Abandon(k) PROVE TypeOK'
  BY <1>5 DEF Abandon
<1>6. ASSUME NEW r \in Relay, Claim(r) PROVE TypeOK'
  BY <1>6 DEF Claim
<1>7. ASSUME NEW r \in Relay, NEW k \in Key, Publish(r, k) PROVE TypeOK'
  BY <1>7 DEF Publish
<1>8. ASSUME NEW r \in Relay, NEW k \in Key, PublishRaises(r, k) PROVE TypeOK'
  BY <1>8 DEF PublishRaises
<1>9. ASSUME NEW r \in Relay, CommitSweep(r) PROVE TypeOK'
  BY <1>9 DEF CommitSweep, Outcome, NoMarks
<1>10. ASSUME NEW r \in Relay, LoseSweep(r) PROVE TypeOK'
  BY <1>10 DEF LoseSweep, NoMarks
<1>11. ASSUME NEW r \in Relay, Stop(r) \/ LeaveLoop(r) \/ Start(r) PROVE TypeOK'
  BY <1>11 DEF Stop, LeaveLoop, Start
<1>12. CASE UNCHANGED vars
  BY <1>12 DEF vars
<1> QED
  BY <1>1, <1>2, <1>3, <1>4, <1>5, <1>6, <1>7, <1>8, <1>9, <1>10, <1>11, <1>12 DEF Next

\* Type correctness of the outbox.
THEOREM TypeCorrect == Spec => []TypeOK
<1>1. Init => TypeOK
  BY DEF Init, TypeOK, RowStatus, SweepMark, NoMarks
<1> QED
  BY <1>1, TypeStep, PTL DEF Spec

-----------------------------------------------------------------------------
(* The inductive step, one lemma per group of actions. *)

\* The requests: a row is absent or a single session's while it is inserted.
LEMMA RequestStep ==
    ASSUME IInv, NEW s \in Session,
           \/ \E k \in Key : Enqueue(s, k)
           \/ Commit(s)
           \/ Rollback(s)
    PROVE  IInv'
<1> USE DEF IInv
<1>0. TypeOK' 
  BY TypeStep DEF Next
<1>1. ASSUME NEW k \in Key, Enqueue(s, k) PROVE IInv'
  <2>1. UncommittedIsUnique'
    BY <1>1 DEF Enqueue, UncommittedIsUnique, Exists, TypeOK
  <2>2. UNCHANGED <<status, attempts, accepted, sweep, published, refused, abandoned, lost>>
    BY <1>1 DEF Enqueue
  <2> QED
    BY <1>0, <2>1, <2>2 DEF OneClaimPerRow, AcceptedIsRecorded, PublishedWasCommitted,
         SentWasPublished, MarkedSentWasPublished, DuplicatesAreExplained, AccountedFor,
         AttemptsCountFailures, MarkedErrorIsNew, PendingHasAttemptsLeft,
         GivenUpAfterMaxAttempts, Exists
<1>2. ASSUME Commit(s) PROVE IInv'
  <2>1. \A k \in Key : \/ status'[k] = status[k] /\ k \notin inserted[s]
                       \/ status[k] = "absent" /\ status'[k] = "pending" /\ k \in inserted[s]
    BY <1>2 DEF Commit, UncommittedIsUnique
  <2>2. UNCHANGED <<attempts, sweep, published, refused, abandoned, lost>>
    BY <1>2 DEF Commit
  <2>3. UncommittedIsUnique'
    BY <1>2, <2>1 DEF Commit, UncommittedIsUnique, TypeOK
  <2>4. AcceptedIsRecorded'
    BY <1>2, <2>1 DEF Commit, AcceptedIsRecorded, Exists, TypeOK
  <2>5. OneClaimPerRow'
    BY <2>1, <2>2 DEF OneClaimPerRow
  <2> QED
    BY <1>0, <2>1, <2>2, <2>3, <2>4, <2>5 DEF PublishedWasCommitted,
         SentWasPublished, MarkedSentWasPublished, DuplicatesAreExplained, AccountedFor,
         AttemptsCountFailures, MarkedErrorIsNew, PendingHasAttemptsLeft,
         GivenUpAfterMaxAttempts, Exists
<1>3. ASSUME Rollback(s) PROVE IInv'
  <2>1. UncommittedIsUnique'
    BY <1>3 DEF Rollback, UncommittedIsUnique, TypeOK
  <2>2. UNCHANGED <<status, attempts, accepted, sweep, published, refused, abandoned, lost>>
    BY <1>3 DEF Rollback
  <2> QED
    BY <1>0, <2>1, <2>2 DEF OneClaimPerRow, AcceptedIsRecorded, PublishedWasCommitted,
         SentWasPublished, MarkedSentWasPublished, DuplicatesAreExplained, AccountedFor,
         AttemptsCountFailures, MarkedErrorIsNew, PendingHasAttemptsLeft,
         GivenUpAfterMaxAttempts, Exists
<1> QED
  BY <1>1, <1>2, <1>3

\* A duplicate submission only adds an answer, for a row that is there.
LEMMA DuplicateStep ==
    ASSUME IInv, NEW k \in Key, EnqueueDuplicate(k)
    PROVE  IInv'
<1> USE DEF IInv
<1>0. TypeOK'
  BY TypeStep DEF Next
<1>1. AcceptedIsRecorded'
  BY DEF EnqueueDuplicate, AcceptedIsRecorded, Exists
<1>2. UNCHANGED <<status, attempts, inserted, sweep, published, refused, abandoned, lost>>
  BY DEF EnqueueDuplicate
<1> QED
  BY <1>0, <1>1, <1>2 DEF OneClaimPerRow, UncommittedIsUnique, PublishedWasCommitted,
       SentWasPublished, MarkedSentWasPublished, DuplicatesAreExplained, AccountedFor,
       AttemptsCountFailures, MarkedErrorIsNew, PendingHasAttemptsLeft,
       GivenUpAfterMaxAttempts, Exists

\* Claiming: only unlocked pending rows are taken.
LEMMA ClaimStep ==
    ASSUME IInv, NEW r \in Relay, Claim(r)
    PROVE  IInv'
<1> USE DEF IInv
<1>0. TypeOK'
  BY TypeStep DEF Next
<1>1. PICK B \in SUBSET Claimable :
        sweep' = [sweep EXCEPT ![r] = [k \in Key |-> IF k \in B THEN "todo" ELSE "no"]]
  BY DEF Claim
<1>2. \A q \in Relay : q # r => sweep'[q] = sweep[q]
  BY <1>1 DEF TypeOK
<1>3. \A k \in Key : sweep[r][k] = "no"
  BY DEF Claim, Idle, Claimed
<1>4. \A k \in Key : sweep'[r][k] = IF k \in B THEN "todo" ELSE "no"
  BY <1>1 DEF TypeOK
<1>5. \A k \in B : k \in Key /\ status[k] = "pending" /\ \A q \in Relay : sweep[q][k] = "no"
  BY <1>1 DEF Claimable, Locked
<1>6. UNCHANGED <<status, attempts, inserted, accepted, published, refused, abandoned, lost>>
  BY DEF Claim
<1>7. OneClaimPerRow'
  BY <1>2, <1>4, <1>5, <1>6 DEF OneClaimPerRow
<1>8. \A k \in Key, q \in Relay, mark \in {"sent", "error"} :
        sweep'[q][k] = mark <=> sweep[q][k] = mark
  BY <1>2, <1>3, <1>4
<1>9. \A k \in Key : AccountedFor(k)' <=> AccountedFor(k)
  BY <1>6, <1>8 DEF AccountedFor
<1>10. DuplicatesAreExplained'
  BY <1>6, <1>9 DEF DuplicatesAreExplained
<1> QED
  BY <1>0, <1>6, <1>7, <1>8, <1>10 DEF UncommittedIsUnique, AcceptedIsRecorded,
       PublishedWasCommitted, SentWasPublished, MarkedSentWasPublished,
       AttemptsCountFailures, MarkedErrorIsNew, PendingHasAttemptsLeft,
       GivenUpAfterMaxAttempts, Exists

\* Publishing: the row leaves the "todo" mark, its counters move, and no other
\* key or relay is touched.
LEMMA PublishStep ==
    ASSUME IInv, NEW r \in Relay, NEW k \in Key,
           Publish(r, k) \/ PublishRaises(r, k)
    PROVE  IInv'
<1> USE DEF IInv
<1>0. TypeOK'
  BY TypeStep DEF Next
<1>1. sweep[r][k] = "todo" /\ k \in Key
  BY DEF Publish, PublishRaises, IsNext, Unpublished
<1>2. UNCHANGED <<status, attempts, inserted, accepted, abandoned, lost>>
  BY DEF Publish, PublishRaises
<1>3. \A q \in Relay, j \in Key : q # r \/ j # k => sweep'[q][j] = sweep[q][j]
  BY DEF Publish, PublishRaises, TypeOK
<1>4. \A j \in Key : j # k => published'[j] = published[j] /\ refused'[j] = refused[j]
  BY DEF Publish, PublishRaises, TypeOK
<1>5. \/ /\ sweep'[r][k] = "sent"
         /\ published'[k] = published[k] + 1 /\ refused'[k] = refused[k]
      \/ /\ sweep'[r][k] = "error" /\ refused'[k] = refused[k] + 1
         /\ published'[k] \in {published[k], published[k] + 1}
  BY DEF Publish, PublishRaises, TypeOK
<1>6. status[k] = "pending" /\ \A q \in Relay : q # r => sweep[q][k] = "no"
  BY <1>1 DEF OneClaimPerRow
<1>7. OneClaimPerRow'
  BY <1>1, <1>2, <1>3, <1>6 DEF OneClaimPerRow
<1>8. PublishedWasCommitted' /\ SentWasPublished'
  BY <1>2, <1>4, <1>6 DEF PublishedWasCommitted, SentWasPublished, Exists
<1>9. MarkedSentWasPublished'
  BY <1>0, <1>3, <1>4, <1>5 DEF MarkedSentWasPublished, TypeOK
<1>10. MarkedErrorIsNew' /\ AttemptsCountFailures'
  <2>1. \A j \in Key : /\ refused[j] \in Nat /\ refused'[j] \in Nat /\ attempts[j] \in Nat
                       /\ refused[j] <= refused'[j] /\ attempts[j] <= refused[j]
    BY <1>0, <1>4, <1>5, SMTT(30) DEF TypeOK, AttemptsCountFailures
  <2>2. AttemptsCountFailures'
    BY <1>2, <2>1 DEF AttemptsCountFailures
  <2>3. ASSUME NEW q \in Relay, NEW j \in Key, sweep'[q][j] = "error"
        PROVE  attempts[j] + 1 <= refused'[j]
    <3>1. CASE q = r /\ j = k
      BY <1>5, <2>1, <2>3, <3>1
    <3>2. CASE q # r \/ j # k
      BY <1>3, <2>1, <2>3, <3>2 DEF MarkedErrorIsNew
    <3> QED
      BY <3>1, <3>2
  <2> QED
    BY <1>2, <2>2, <2>3 DEF MarkedErrorIsNew
<1>11. DuplicatesAreExplained'
  <2>1. ~AccountedFor(k)
    BY <1>1, <1>6 DEF AccountedFor
  <2>2. sweep'[r][k] = "sent" => AccountedFor(k)'
    BY DEF AccountedFor
  <2>3. published[k] <= refused[k] + lost
    BY <2>1 DEF DuplicatesAreExplained, TypeOK
  <2>4. published'[k] <= refused'[k] + lost' + (IF AccountedFor(k)' THEN 1 ELSE 0)
    BY <1>0, <1>2, <1>5, <2>2, <2>3 DEF TypeOK
  <2>5. \A j \in Key : j # k => (AccountedFor(j)' <=> AccountedFor(j))
    BY <1>2, <1>3 DEF AccountedFor
  <2> QED
    BY <1>2, <1>4, <2>4, <2>5 DEF DuplicatesAreExplained
<1>12. GivenUpAfterMaxAttempts'
  BY <1>0, <1>2, <1>4, <1>5 DEF GivenUpAfterMaxAttempts, TypeOK
<1> QED
  BY <1>0, <1>2, <1>7, <1>8, <1>9, <1>10, <1>11, <1>12 DEF UncommittedIsUnique,
     AcceptedIsRecorded, PendingHasAttemptsLeft, Exists

\* The commit that ends a sweep: every mark of the relay becomes the row's.
LEMMA CommitSweepStep ==
    ASSUME IInv, NEW r \in Relay, CommitSweep(r)
    PROVE  IInv'
<1> USE DEF IInv
<1>0. TypeOK'
  BY TypeStep DEF Next
<1>1. UNCHANGED <<inserted, accepted, published, refused, abandoned, lost>>
  BY DEF CommitSweep
<1>2. /\ \A k \in Key : sweep'[r][k] = "no"
      /\ \A q \in Relay, k \in Key : q # r => sweep'[q][k] = sweep[q][k]
  BY DEF CommitSweep, NoMarks, TypeOK
<1>3. \A k \in Key : sweep[r][k] \in {"no", "sent", "error"}
  BY DEF CommitSweep, Unpublished, TypeOK, SweepMark
<1>4. \A k \in Key :
        \/ sweep[r][k] = "no" /\ status'[k] = status[k] /\ attempts'[k] = attempts[k]
        \/ sweep[r][k] = "sent" /\ status'[k] = "sent" /\ attempts'[k] = attempts[k]
        \/ /\ sweep[r][k] = "error" /\ attempts'[k] = attempts[k] + 1
           /\ IF attempts[k] + 1 >= MaxAttempts THEN status'[k] = "failed"
                                                ELSE status'[k] = status[k]
  BY <1>3 DEF CommitSweep, Outcome
<1>5. \A k \in Key : sweep[r][k] # "no" =>
        status[k] = "pending" /\ \A q \in Relay : q # r => sweep[q][k] = "no"
  BY DEF OneClaimPerRow
<1>6. \A k \in Key : status[k] # "pending" => status'[k] = status[k] /\ attempts'[k] = attempts[k]
  BY <1>4, <1>5
<1>7. \A k \in Key : status[k] = "pending" => status'[k] \in {"pending", "sent", "failed"}
  BY <1>4
<1>8. OneClaimPerRow'
  BY <1>2, <1>4, <1>5 DEF OneClaimPerRow
<1>9. UncommittedIsUnique' /\ AcceptedIsRecorded' /\ PublishedWasCommitted'
  <2>1. \A k \in Key : status'[k] = "absent" <=> status[k] = "absent"
    BY <1>6, <1>7
  <2>2. UncommittedIsUnique'
    BY <1>1, <2>1 DEF UncommittedIsUnique
  <2>3. AcceptedIsRecorded' /\ PublishedWasCommitted'
    BY <1>1, <2>1 DEF AcceptedIsRecorded, PublishedWasCommitted, Exists, TypeOK
  <2> QED
    BY <2>2, <2>3
<1>10. SentWasPublished' /\ MarkedSentWasPublished'
  BY <1>1, <1>2, <1>4, <1>5 DEF SentWasPublished, MarkedSentWasPublished
<1>11. DuplicatesAreExplained'
  <2>1. \A k \in Key : AccountedFor(k) => AccountedFor(k)'
    BY <1>2, <1>4, <1>5 DEF AccountedFor
  <2> QED
    BY <1>1, <2>1 DEF DuplicatesAreExplained, TypeOK
<1>12. AttemptsCountFailures' /\ MarkedErrorIsNew' /\ PendingHasAttemptsLeft'
  <2>1. \A k \in Key : attempts[k] \in Nat /\ (status[k] = "pending" => attempts[k] < MaxAttempts)
    BY DEF TypeOK, PendingHasAttemptsLeft
  <2>2. ASSUME NEW k \in Key
        PROVE  /\ attempts'[k] <= refused[k] /\ attempts'[k] <= MaxAttempts
               /\ status'[k] \in {"absent", "pending"} => attempts'[k] < MaxAttempts
    <3>1. CASE sweep[r][k] = "error"
      BY <1>4, <1>5, <2>1, <3>1 DEF MarkedErrorIsNew
    <3>2. CASE sweep[r][k] # "error"
      BY <1>4, <3>2 DEF AttemptsCountFailures, PendingHasAttemptsLeft
    <3> QED
      BY <3>1, <3>2
  <2>3. ASSUME NEW q \in Relay, NEW k \in Key, sweep'[q][k] = "error"
        PROVE  attempts'[k] + 1 <= refused[k]
    <3>1. q # r /\ sweep[q][k] = "error"
      BY <1>2, <2>3
    <3>2. attempts'[k] = attempts[k]
      BY <1>4, <1>5, <3>1
    <3> QED
      BY <3>1, <3>2 DEF MarkedErrorIsNew
  <2> QED
    BY <1>1, <2>2, <2>3 DEF AttemptsCountFailures, MarkedErrorIsNew, PendingHasAttemptsLeft
<1>13. GivenUpAfterMaxAttempts'
  BY <1>0, <1>1, <1>4, <1>5, SMTT(30) DEF GivenUpAfterMaxAttempts, MarkedErrorIsNew, TypeOK
<1> QED
  BY <1>0, <1>8, <1>9, <1>10, <1>11, <1>12, <1>13

\* A lost sweep releases its rows as they were and is counted.
LEMMA LoseSweepStep ==
    ASSUME IInv, NEW r \in Relay, LoseSweep(r)
    PROVE  IInv'
<1> USE DEF IInv
<1>0. TypeOK'
  BY TypeStep DEF Next
<1>1. UNCHANGED <<status, attempts, inserted, accepted, published, refused, abandoned>> /\ lost' = lost + 1
  BY DEF LoseSweep
<1>2. /\ \A k \in Key : sweep'[r][k] = "no"
      /\ \A q \in Relay, k \in Key : q # r => sweep'[q][k] = sweep[q][k]
  BY DEF LoseSweep, NoMarks, TypeOK
<1>3. OneClaimPerRow' /\ MarkedSentWasPublished' /\ MarkedErrorIsNew'
  BY <1>1, <1>2 DEF OneClaimPerRow, MarkedSentWasPublished, MarkedErrorIsNew
<1>4. DuplicatesAreExplained'
  <2> SUFFICES ASSUME NEW k \in Key
               PROVE  published[k] <= refused[k] + (lost + 1) + (IF AccountedFor(k)' THEN 1 ELSE 0)
    BY <1>1 DEF DuplicatesAreExplained
  <2>1. published[k] <= refused[k] + lost + (IF AccountedFor(k) THEN 1 ELSE 0)
    BY DEF DuplicatesAreExplained
  <2>2. published[k] \in Nat /\ refused[k] \in Nat /\ lost \in Nat
    BY DEF TypeOK
  <2> QED
    BY <2>1, <2>2
<1> QED
  BY <1>0, <1>1, <1>3, <1>4 DEF UncommittedIsUnique, AcceptedIsRecorded, PublishedWasCommitted,
     SentWasPublished, AttemptsCountFailures, PendingHasAttemptsLeft, GivenUpAfterMaxAttempts, Exists

\* Abandoning closes one unlocked pending row.
LEMMA AbandonStep ==
    ASSUME IInv, NEW k \in Key, Abandon(k)
    PROVE  IInv'
<1> USE DEF IInv
<1>0. TypeOK'
  BY TypeStep DEF Next
<1>1. UNCHANGED <<attempts, inserted, accepted, sweep, published, refused, lost>>
  BY DEF Abandon, requestVars, wireVars
<1>2. /\ status[k] = "pending" /\ status'[k] = "failed" /\ k \in abandoned'
      /\ \A j \in Key : j # k => status'[j] = status[j] /\ (j \in abandoned' <=> j \in abandoned)
      /\ \A q \in Relay : sweep[q][k] = "no"
  BY DEF Abandon, Locked, TypeOK
<1>3. \A j \in Key : AccountedFor(j)' <=> AccountedFor(j)
  BY <1>1, <1>2 DEF AccountedFor
<1>4. OneClaimPerRow' /\ MarkedSentWasPublished' /\ MarkedErrorIsNew'
  BY <1>1, <1>2 DEF OneClaimPerRow, MarkedSentWasPublished, MarkedErrorIsNew
<1>5. UncommittedIsUnique' /\ AcceptedIsRecorded' /\ PublishedWasCommitted' /\ SentWasPublished'
  <2>1. \A j \in Key : /\ status'[j] = "absent" <=> status[j] = "absent"
                       /\ status'[j] = "sent" <=> status[j] = "sent"
    BY <1>2
  <2>2. UncommittedIsUnique'
    BY <1>1, <2>1 DEF UncommittedIsUnique
  <2> QED
    BY <1>1, <2>1, <2>2 DEF AcceptedIsRecorded, PublishedWasCommitted, SentWasPublished, Exists, TypeOK
<1>6. DuplicatesAreExplained' /\ AttemptsCountFailures'
  BY <1>1, <1>3 DEF DuplicatesAreExplained, AttemptsCountFailures
<1>7. PendingHasAttemptsLeft' /\ GivenUpAfterMaxAttempts'
  BY <1>1, <1>2 DEF PendingHasAttemptsLeft, GivenUpAfterMaxAttempts
<1> QED
  BY <1>0, <1>4, <1>5, <1>6, <1>7

\* Stopping and starting relays, and steps of the environment, change nothing
\* the invariant reads.
LEMMA IdleStep ==
    ASSUME IInv,
           UNCHANGED vars \/ \E r \in Relay : Stop(r) \/ LeaveLoop(r) \/ Start(r)
    PROVE  IInv'
<1> USE DEF IInv
<1>0. TypeOK'
  BY TypeStep DEF Next
<1>1. UNCHANGED <<status, attempts, inserted, accepted, sweep, published, refused, abandoned, lost>>
  BY DEF vars, Stop, LeaveLoop, Start, rowVars, requestVars, wireVars
<1> QED
  BY <1>0, <1>1 DEF OneClaimPerRow, UncommittedIsUnique, AcceptedIsRecorded,
     PublishedWasCommitted, SentWasPublished, MarkedSentWasPublished, DuplicatesAreExplained,
     AccountedFor, AttemptsCountFailures, MarkedErrorIsNew, PendingHasAttemptsLeft,
     GivenUpAfterMaxAttempts, Exists

LEMMA InductiveStep == IInv /\ [Next]_vars => IInv'
<1> SUFFICES ASSUME IInv, [Next]_vars PROVE IInv'
  OBVIOUS
<1>1. ASSUME NEW s \in Session,
             (\E k \in Key : Enqueue(s, k)) \/ Commit(s) \/ Rollback(s)
      PROVE  IInv'
  BY <1>1, RequestStep
<1>2. ASSUME NEW k \in Key, EnqueueDuplicate(k) PROVE IInv'
  BY <1>2, DuplicateStep
<1>3. ASSUME NEW k \in Key, Abandon(k) PROVE IInv'
  BY <1>3, AbandonStep
<1>4. ASSUME NEW r \in Relay, Claim(r) PROVE IInv'
  BY <1>4, ClaimStep
<1>5. ASSUME NEW r \in Relay, NEW k \in Key, Publish(r, k) \/ PublishRaises(r, k) PROVE IInv'
  BY <1>5, PublishStep
<1>6. ASSUME NEW r \in Relay, CommitSweep(r) PROVE IInv'
  BY <1>6, CommitSweepStep
<1>7. ASSUME NEW r \in Relay, LoseSweep(r) PROVE IInv'
  BY <1>7, LoseSweepStep
<1>8. ASSUME NEW r \in Relay, Stop(r) \/ LeaveLoop(r) \/ Start(r) PROVE IInv'
  BY <1>8, IdleStep
<1>9. CASE UNCHANGED vars
  BY <1>9, IdleStep
<1> QED
  BY <1>1, <1>2, <1>3, <1>4, <1>5, <1>6, <1>7, <1>8, <1>9 DEF Next

LEMMA InitStep == Init => IInv
BY DEF Init, IInv, TypeOK, RowStatus, SweepMark, NoMarks, OneClaimPerRow, UncommittedIsUnique,
   AcceptedIsRecorded, PublishedWasCommitted, SentWasPublished, MarkedSentWasPublished,
   DuplicatesAreExplained, AttemptsCountFailures, MarkedErrorIsNew, PendingHasAttemptsLeft,
   GivenUpAfterMaxAttempts, Exists

\* The inductive invariant holds throughout every behaviour of the outbox.
THEOREM InductiveInvariant == Spec => []IInv
BY InitStep, InductiveStep, PTL DEF Spec

-----------------------------------------------------------------------------
(* What a reader should take from the invariant *)

\* A request answered "queued" has its row, whatever the relays do.
THEOREM NothingAcceptedIsLost == Spec => []AcceptedIsRecorded
BY InductiveInvariant, PTL DEF IInv

\* No message leaves whose row is not committed.
THEOREM OnlyCommittedIsPublished == Spec => []PublishedWasCommitted
BY InductiveInvariant, PTL DEF IInv

\* SKIP LOCKED gives each row to one relay at a time.
THEOREM RowsHaveOneRelay == Spec => []OneClaimPerRow
BY InductiveInvariant, PTL DEF IInv

\* Copies of a message are paid for by failures and lost sweeps.
THEOREM DuplicatesAreBounded == Spec => []DuplicatesAreExplained
BY InductiveInvariant, PTL DEF IInv

\* A row reaches FAILED by max_attempts failures or by abandon, never earlier.
THEOREM NoEarlyGiveUp == Spec => []GivenUpAfterMaxAttempts
BY InductiveInvariant, PTL DEF IInv

\* One step leaves a closed row, and the count of its messages, alone.
LEMMA ClosedStep ==
    ASSUME IInv, [Next]_vars, NEW k \in Key, status[k] \in {"sent", "failed"}
    PROVE  status'[k] = status[k] /\ published'[k] = published[k]
<1> USE DEF IInv
<1>0. /\ \A r \in Relay : sweep[r][k] = "no"
      /\ \A s \in Session : k \notin inserted[s]
  BY DEF OneClaimPerRow, UncommittedIsUnique
<1>1. ASSUME NEW s \in Session, (\E j \in Key : Enqueue(s, j)) \/ Commit(s) \/ Rollback(s)
      PROVE  status'[k] = status[k] /\ published'[k] = published[k]
  BY <1>0, <1>1 DEF Enqueue, Commit, Rollback
<1>2. ASSUME NEW j \in Key, EnqueueDuplicate(j) \/ Abandon(j)
      PROVE  status'[k] = status[k] /\ published'[k] = published[k]
  BY <1>2 DEF EnqueueDuplicate, Abandon, TypeOK, wireVars
<1>3. ASSUME NEW r \in Relay, NEW j \in Key, Publish(r, j) \/ PublishRaises(r, j)
      PROVE  status'[k] = status[k] /\ published'[k] = published[k]
  <2>1. j # k
    BY <1>0, <1>3 DEF Publish, PublishRaises, IsNext, Unpublished
  <2> QED
    BY <1>3, <2>1 DEF Publish, PublishRaises, TypeOK
<1>4. ASSUME NEW r \in Relay, CommitSweep(r)
      PROVE  status'[k] = status[k] /\ published'[k] = published[k]
  BY <1>0, <1>4 DEF CommitSweep, Outcome
<1>5. ASSUME NEW r \in Relay,
             Claim(r) \/ LoseSweep(r) \/ Stop(r) \/ LeaveLoop(r) \/ Start(r)
      PROVE  status'[k] = status[k] /\ published'[k] = published[k]
  BY <1>5 DEF Claim, LoseSweep, Stop, LeaveLoop, Start, rowVars, wireVars
<1>6. CASE UNCHANGED vars
  BY <1>6 DEF vars
<1> QED
  BY <1>1, <1>2, <1>3, <1>4, <1>5, <1>6 DEF Next

\* SENT and FAILED are final, and a closed row is never sent again.
THEOREM ClosedRowsAreFinal == Spec => ClosedRowsStayClosed
<1>1. IInv /\ [Next]_vars => [KeepsClosedRows]_vars
  BY ClosedStep DEF KeepsClosedRows
<1> QED
  BY <1>1, InductiveInvariant, PTL DEF Spec, ClosedRowsStayClosed

-----------------------------------------------------------------------------
(* The refinement *)

\* A step of the outbox is a step of the promise, or nothing to it.
LEMMA HandoffStep == IInv /\ [Next]_vars => [Handoff!Next]_(Handoff!vars)
<1> SUFFICES ASSUME IInv, [Next]_vars PROVE [Handoff!Next]_(Handoff!vars)
  OBVIOUS
<1> USE DEF IInv
<1>1. ASSUME UNCHANGED <<status, published>> PROVE UNCHANGED Handoff!vars
  BY <1>1 DEF Handoff!vars
<1>2. ASSUME NEW s \in Session, Commit(s) PROVE Handoff!Record(inserted[s])
  <2>1. UNCHANGED {k \in Key : published[k] > 0}
    BY <1>2 DEF Commit
  <2>2. \A k \in inserted[s] : status[k] = "absent"
    BY DEF UncommittedIsUnique, TypeOK
  <2> QED
    BY <1>2, <2>1, <2>2 DEF Commit, Handoff!Record
<1>3. ASSUME NEW s \in Session, Commit(s) PROVE Handoff!Next
  <2>1. inserted[s] \in SUBSET Key
    BY DEF TypeOK
  <2> QED
    BY <1>2, <1>3, <2>1 DEF Handoff!Next
<1>4. ASSUME NEW k \in Key, Abandon(k) PROVE Handoff!Next
  <2>1. Handoff!Close({}, {k})
    BY <1>4 DEF Abandon, Handoff!Close, TypeOK, wireVars
  <2> QED
    BY <2>1 DEF Handoff!Next
<1>5. ASSUME NEW r \in Relay, NEW k \in Key, Publish(r, k) \/ PublishRaises(r, k)
      PROVE  [Handoff!Next]_(Handoff!vars)
  <2>1. sweep[r][k] = "todo" /\ status[k] = "pending" /\ status' = status
    BY <1>5 DEF Publish, PublishRaises, IsNext, Unpublished, OneClaimPerRow
  <2>2. \/ published' = published
        \/ published' = [published EXCEPT ![k] = @ + 1]
    BY <1>5 DEF Publish, PublishRaises, TypeOK
  <2>3. CASE published' = published
    BY <1>1, <2>1, <2>3
  <2>4. CASE published' = [published EXCEPT ![k] = @ + 1]
    <3>1. {j \in Key : published'[j] > 0} = {j \in Key : published[j] > 0} \cup {k}
      BY <2>4 DEF TypeOK
    <3>2. Handoff!Deliver(k)
      BY <2>1, <3>1 DEF Handoff!Deliver
    <3> QED
      BY <3>2 DEF Handoff!Next
  <2> QED
    BY <2>2, <2>3, <2>4
<1>6. ASSUME NEW r \in Relay, CommitSweep(r) PROVE Handoff!Next
  <2> DEFINE Sent == {k \in Key : sweep[r][k] = "sent"}
             Failed == {k \in Key : sweep[r][k] = "error" /\ attempts[k] + 1 >= MaxAttempts}
  <2>1. status' = [k \in Key |-> IF k \in Sent THEN "sent"
                                ELSE IF k \in Failed THEN "failed" ELSE status[k]]
    BY <1>6 DEF CommitSweep, Outcome
  <2>2. \A k \in Sent \cup Failed : status[k] = "pending"
    BY DEF OneClaimPerRow
  <2>3. Sent \subseteq {k \in Key : published[k] > 0} /\ Sent \cap Failed = {}
    BY DEF MarkedSentWasPublished
  <2>4. published' = published
    BY <1>6 DEF CommitSweep
  <2>5. Handoff!Close(Sent, Failed)
    BY <2>1, <2>2, <2>3, <2>4 DEF Handoff!Close
  <2>6. Sent \in SUBSET Key /\ Failed \in SUBSET Key
    OBVIOUS
  <2> HIDE DEF Sent, Failed
  <2> QED
    BY <2>5, <2>6 DEF Handoff!Next
<1>7. ASSUME NEW s \in Session, (\E k \in Key : Enqueue(s, k)) \/ Rollback(s)
      PROVE  UNCHANGED <<status, published>>
  BY <1>7 DEF Enqueue, Rollback
<1>8. ASSUME NEW k \in Key, EnqueueDuplicate(k) PROVE UNCHANGED <<status, published>>
  BY <1>8 DEF EnqueueDuplicate
<1>9. ASSUME NEW r \in Relay, Claim(r) \/ LoseSweep(r) \/ Stop(r) \/ LeaveLoop(r) \/ Start(r)
      PROVE  UNCHANGED <<status, published>>
  BY <1>9 DEF Claim, LoseSweep, Stop, LeaveLoop, Start, rowVars, wireVars
<1>10. CASE UNCHANGED vars
  BY <1>1, <1>10 DEF vars
<1> QED
  BY <1>1, <1>3, <1>4, <1>5, <1>6, <1>7, <1>8, <1>9, <1>10 DEF Next

\* The outbox implements the promise stated without its machinery.
THEOREM OutboxImplementsHandoff == Spec => ImplementsHandoff
<1>1. Init => Handoff!Init
  BY DEF Init, Handoff!Init
<1> QED
  BY <1>1, HandoffStep, InductiveInvariant, PTL DEF Spec, ImplementsHandoff, Handoff!Spec
=============================================================================
