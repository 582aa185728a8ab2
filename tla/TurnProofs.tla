------------------------------ MODULE TurnProofs -------------------------------
(******************************************************************************)
(* A turn and its stream: what a reader of the stream may miss, then what a    *)
(* turn costs its tenant and when it stops.                                    *)
(*                                                                             *)
(* The stream, for any messages, any capacity of two places or more, and       *)
(* answers of any length: a reader misses only content, of a counted amount.   *)
(* The argument follows the numbers that are neither read nor waiting in the   *)
(* queue of a bridge.  While the reader holds the line they are what the       *)
(* bridge has given up: content, because the opening is taken before the turn  *)
(* has its first step and the ending is the last number there is; one for      *)
(* each event that was dropped, at most one more for the ending and one for    *)
(* the sentinel.  When the line is lost, what is below the cursor is what it   *)
(* was, and a replay tells the rest.                                           *)
(*                                                                             *)
(* The turns, for any number of them, any costs and any allowance: the         *)
(* allowance is the account of the turns, turns overrun together by what each  *)
(* costs over its claim and no more, a reader is told of an end when the       *)
(* account is settled, and a turn asked to stop starts nothing more.  What     *)
(* reserves, what settles and what only works are the steps the account can    *)
(* tell apart, so the invariant is proved of these kinds, and each action is   *)
(* shown to be of one; sums gain, lose or change one term with a step.         *)
(******************************************************************************)
EXTENDS TurnStreamProperties, ReasoningTurnProperties, FiniteSumTheorems, SequenceTheorems, TLAPS

Bridge == [queue : Seq(Int), closed : BOOLEAN, dropped : Nat]
Answer == [recorded : Seq(EventKind), bridge : Bridge, task : Task, response : Response]
Reading == [live : Seq(Nat), replayed : SUBSET Nat, caughtUp : BOOLEAN]

Places(s) == 1..Len(s)
Elements(s) == {s[i] : i \in Places(s)}
All(x) == 0..Len(x.recorded) - 1

\* Opened first, ended last, and content in between.
InOrder(x) ==
    \A i \in Places(x.recorded) :
        \/ i = 1 /\ x.recorded[i] = "metadata"
        \/ i > 1 /\ x.recorded[i] = "content"
        \/ i > 1 /\ i = Len(x.recorded) /\ x.recorded[i] \in Terminal /\ x.task \in Over

\* How far an answer is, in terms of what has been recorded and read.
Stage(x, live) ==
    /\ x.response \in {"none", "asked"} =>
           x.recorded = <<>> /\ x.bridge.queue = <<>> /\ live = <<>>
    /\ x.response = "ready" =>
           x.recorded = <<"metadata">> /\ x.bridge.queue = <<0>> /\ live = <<>>
    /\ x.response \in {"none", "asked", "ready"} => x.task = "none"
    /\ x.task # "none" => Len(x.recorded) > 0
    /\ x.bridge.closed => x.task \in Over

\* The queue ascends to the sentinel, and continues what was read.
Ascending(x, live) ==
    LET queue == x.bridge.queue
    IN  /\ \A i \in Places(queue) : queue[i] = END => i = Len(queue) /\ x.bridge.closed
        /\ \A i \in Places(queue) :
               queue[i] # END => queue[i] \in All(x) /\ (x.task # "none" => queue[i] > 0)
        /\ \A i, j \in Places(queue) : i < j /\ queue[j] # END => queue[i] < queue[j]
        /\ \A i \in Places(live) : live[i] \in All(x)
        /\ \A i, j \in Places(live) : i < j => live[i] < live[j]
        /\ \A i \in Places(live), j \in Places(queue) : queue[j] # END => live[i] < queue[j]

Shape(x, live) == InOrder(x) /\ Stage(x, live) /\ Ascending(x, live)

\* What a set of numbers not received may be.
One(condition) == IF condition THEN 1 ELSE 0
Spared(x) == x.bridge.dropped + One(Ended(x)) + One(x.bridge.closed)
MayMiss(x, numbers) ==
    /\ \A n \in numbers : x.recorded[n + 1] = "content"
    /\ Cardinality(numbers) <= Spared(x)

\* Neither read nor waiting; and passed over.
Gap(x, live) == {n \in All(x) : n \notin Elements(live) /\ n \notin Elements(x.bridge.queue)}
Passed(x, live) == {n \in All(x) : n \notin Elements(live) /\ \E i \in Places(live) : n < live[i]}

Kept(x, live, held) ==
    /\ Shape(x, live)
    /\ held => MayMiss(x, Gap(x, live))
    /\ MayMiss(x, Passed(x, live))

CaughtUp(m) ==
    seen[m].caughtUp =>
        /\ turn[m].task \in Over /\ ~Connected(m)
        /\ MayMiss(turn[m], Numbers(m) \ Received(m))

Stored == \A m \in stored : turn[m].task \in Over

Invariant ==
    /\ TypeOK
    /\ Stored
    /\ \A m \in Message : Kept(turn[m], seen[m].live, Connected(m)) /\ CaughtUp(m)

-----------------------------------------------------------------------------
(* Sets of numbers *)

\* The numbers of an answer are finitely many, and so are those not received.
LEMMA FinitelyMany ==
    ASSUME NEW x \in Answer, NEW S, S \subseteq All(x)
    PROVE  IsFiniteSet(S) /\ Cardinality(S) \in Nat
<1>1. Len(x.recorded) \in Nat
  BY DEF Answer
<1>2. IsFiniteSet(All(x))
  BY <1>1, FS_Interval DEF All
<1> QED
  BY <1>2, FS_Subset, FS_CardinalityType

\* Spared is a number.
LEMMA SparedIsNumber ==
    ASSUME NEW x \in Answer
    PROVE  Spared(x) \in Nat
BY DEF Spared, One, Answer, Bridge

\* Part of what may be missed may be missed of an answer that has recorded more and
\* spared no less.
LEMMA MissLess ==
    ASSUME NEW x \in Answer, NEW y \in Answer, NEW S, NEW R,
           S \subseteq All(x), R \subseteq S, MayMiss(x, S),
           Spared(x) <= Spared(y),
           \A n \in R : y.recorded[n + 1] = x.recorded[n + 1]
    PROVE  MayMiss(y, R)
<1>1. Cardinality(R) <= Cardinality(S) /\ Cardinality(S) \in Nat /\ Cardinality(R) \in Nat
  BY FinitelyMany, FS_Subset, FS_CardinalityType
<1>2. Spared(x) \in Nat /\ Spared(y) \in Nat
  BY SparedIsNumber
<1> QED
  BY <1>1, <1>2 DEF MayMiss

\* One more may be missed of an answer that has spared one more.
LEMMA MissMore ==
    ASSUME NEW x \in Answer, NEW y \in Answer, NEW S, NEW R, NEW n,
           S \subseteq All(x), R \subseteq S \cup {n}, MayMiss(x, S),
           Spared(y) = Spared(x) + 1,
           \A k \in R : y.recorded[k + 1] = "content"
    PROVE  MayMiss(y, R)
<1>1. IsFiniteSet(S) /\ Cardinality(S) \in Nat
  BY FinitelyMany
<1>2. IsFiniteSet(S \cup {n}) /\ Cardinality(S \cup {n}) <= Cardinality(S) + 1
  <2>1. IsFiniteSet(S \cup {n})
    BY <1>1, FS_AddElement
  <2>2. Cardinality(S \cup {n}) = IF n \in S THEN Cardinality(S) ELSE Cardinality(S) + 1
    BY <1>1, FS_AddElement
  <2> QED
    BY <1>1, <2>1, <2>2
<1>3. Cardinality(S \cup {n}) \in Nat
  BY <1>2, FS_CardinalityType
<1>4. IsFiniteSet(R) /\ Cardinality(R) <= Cardinality(S \cup {n})
  BY <1>2, FS_Subset
<1>5. Cardinality(R) \in Nat
  BY <1>4, FS_CardinalityType
<1>6. Spared(x) \in Nat
  BY SparedIsNumber
<1> QED
  BY <1>1, <1>2, <1>3, <1>4, <1>5, <1>6 DEF MayMiss

\* What has been passed over is neither read nor waiting.
LEMMA PassedInGap ==
    ASSUME NEW x \in Answer, NEW live \in Seq(Nat), Shape(x, live)
    PROVE  Passed(x, live) \subseteq Gap(x, live)
<1> SUFFICES ASSUME NEW n \in Passed(x, live), NEW j \in Places(x.bridge.queue),
                    n = x.bridge.queue[j]
             PROVE  FALSE
  BY DEF Passed, Gap, Elements
<1>1. n \in Nat
  BY DEF Passed, All, Answer
<1>2. x.bridge.queue[j] # END
  BY <1>1 DEF END
<1>3. PICK i \in Places(live) : n < live[i]
  BY DEF Passed
<1>4. live[i] < n
  BY <1>2 DEF Shape, Ascending
<1>5. live[i] \in Nat
  BY DEF Places
<1> QED
  BY <1>1, <1>3, <1>4, <1>5

-----------------------------------------------------------------------------
(* What is done to one answer *)

\* A running task has recorded no ending.
LEMMA RunningIsOpen ==
    ASSUME NEW x \in Answer, NEW live, Shape(x, live), x.task = "running"
    PROVE  /\ ~Ended(x) /\ ~x.bridge.closed
           /\ Len(x.recorded) \in Nat \ {0}
           /\ \A i \in Places(x.recorded) : i > 1 => x.recorded[i] = "content"
           /\ x.response \notin {"none", "asked", "ready"}
<1>1. x.task \notin Over /\ x.task # "none"
  BY DEF Over
<1>2. Len(x.recorded) \in Nat
  BY DEF Answer
<1>3. \A i \in Places(x.recorded) : i > 1 => x.recorded[i] = "content"
  BY <1>1 DEF Shape, InOrder
<1>4. \A i \in Places(x.recorded) : x.recorded[i] \notin Terminal
  BY <1>1 DEF Shape, InOrder, Terminal
<1> QED
  BY <1>1, <1>2, <1>3, <1>4 DEF Shape, Stage, Ended, Places

\* A bridge with another queue, or another count.
LEMMA BridgeWith ==
    ASSUME NEW b \in Bridge, NEW v
    PROVE  /\ [b EXCEPT !.queue = v] = [queue |-> v, closed |-> b.closed, dropped |-> b.dropped]
           /\ [b EXCEPT !.dropped = v] = [queue |-> b.queue, closed |-> b.closed, dropped |-> v]
BY SMTT(30) DEF Bridge

\* What publishing does to a bridge that is open.
LEMMA PublishedBridge ==
    ASSUME NEW b \in Bridge, ~b.closed, NEW n \in Nat, NEW kind \in {"content"} \cup Terminal
    PROVE  Published(b, n, kind) =
             [queue   |-> IF Len(b.queue) < Capacity THEN Append(b.queue, n)
                          ELSE IF kind \in Terminal THEN Append(Tail(b.queue), n)
                          ELSE b.queue,
              closed  |-> FALSE,
              dropped |-> IF Len(b.queue) >= Capacity /\ kind \notin Terminal
                          THEN b.dropped + 1 ELSE b.dropped]
<1>1. Capacity \in Nat /\ Len(b.queue) \in Nat /\ b.closed = FALSE
  BY StreamAssumption DEF Bridge
<1>2. b = [queue |-> b.queue, closed |-> FALSE, dropped |-> b.dropped]
  BY <1>1 DEF Bridge
<1>3. CASE Len(b.queue) < Capacity
  <2>1. Published(b, n, kind) = [b EXCEPT !.queue = Append(b.queue, n)]
    BY <1>3 DEF Published
  <2>2. [b EXCEPT !.queue = Append(b.queue, n)]
          = [queue |-> Append(b.queue, n), closed |-> FALSE, dropped |-> b.dropped]
    BY <1>1, BridgeWith, ZenonT(30)
  <2>3. ~(Len(b.queue) >= Capacity)
    BY <1>1, <1>3
  <2> QED
    BY <1>3, <2>1, <2>2, <2>3
<1>4. CASE ~(Len(b.queue) < Capacity) /\ kind \in Terminal
  <2>1. Published(b, n, kind) = [b EXCEPT !.queue = Append(Tail(b.queue), n)]
    BY <1>4 DEF Published, Structural
  <2> QED
    BY <1>1, <1>2, <1>4, <2>1
<1>5. CASE ~(Len(b.queue) < Capacity) /\ kind \notin Terminal
  <2>1. Published(b, n, kind) = [b EXCEPT !.dropped = b.dropped + 1]
    BY <1>5 DEF Published, Structural, Terminal
  <2>2. [b EXCEPT !.dropped = b.dropped + 1]
          = [queue |-> b.queue, closed |-> FALSE, dropped |-> b.dropped + 1]
    BY <1>1, BridgeWith
  <2>3. Len(b.queue) >= Capacity
    BY <1>1, <1>5
  <2> QED
    BY <1>5, <2>1, <2>2, <2>3
<1> QED
  BY <1>3, <1>4, <1>5

\* Emitting content, or an ending with which the task ends, keeps what is kept.
LEMMA EmitKeeps ==
    ASSUME NEW x \in Answer, NEW live \in Seq(Nat), NEW held \in BOOLEAN,
           NEW kind \in {"content"} \cup Terminal,
           x.task = "running", Kept(x, live, held),
           NEW y \in Answer, y.task # "none", kind \in Terminal => y.task \in Over,
           y.recorded = Append(x.recorded, kind), y.response = x.response,
           y.bridge = Published(x.bridge, Len(x.recorded), kind)
    PROVE  Kept(y, live, held)
<1> DEFINE n == Len(x.recorded)
           queue == x.bridge.queue
<1>1. /\ ~Ended(x) /\ ~x.bridge.closed /\ n \in Nat \ {0}
      /\ \A i \in Places(x.recorded) : i > 1 => x.recorded[i] = "content"
      /\ x.response \notin {"none", "asked", "ready"}
  BY RunningIsOpen DEF Kept
<1>2. /\ queue \in Seq(Int) /\ Len(queue) \in Nat /\ x.recorded \in Seq(EventKind)
      /\ x.bridge \in Bridge /\ x.bridge.dropped \in Nat
  BY DEF Answer, Bridge
<1>4. /\ Len(y.recorded) = n + 1
      /\ \A i \in 1..n : y.recorded[i] = x.recorded[i]
      /\ y.recorded[n + 1] = kind
  <2>1. kind \in EventKind
    BY DEF EventKind, Terminal
  <2> QED
    BY <1>1, <1>2, <2>1
<1>5. Capacity \in Nat /\ Capacity >= 2
  BY StreamAssumption
<1>6. /\ ~y.bridge.closed
      /\ y.bridge.queue = IF Len(queue) < Capacity THEN Append(queue, n)
                          ELSE IF kind \in Terminal THEN Append(Tail(queue), n)
                          ELSE queue
      /\ y.bridge.dropped = IF Len(queue) >= Capacity /\ kind \notin Terminal
                            THEN x.bridge.dropped + 1 ELSE x.bridge.dropped
  <2>1. Published(x.bridge, n, kind) =
          [queue   |-> IF Len(queue) < Capacity THEN Append(queue, n)
                       ELSE IF kind \in Terminal THEN Append(Tail(queue), n)
                       ELSE queue,
           closed  |-> FALSE,
           dropped |-> IF Len(queue) >= Capacity /\ kind \notin Terminal
                       THEN x.bridge.dropped + 1 ELSE x.bridge.dropped]
    BY <1>1, <1>2, PublishedBridge
  <2> QED
    BY <2>1
<1>9. InOrder(y)
  <2> SUFFICES ASSUME NEW i \in Places(y.recorded)
               PROVE  \/ i = 1 /\ y.recorded[i] = "metadata"
                      \/ i > 1 /\ y.recorded[i] = "content"
                      \/ i > 1 /\ i = Len(y.recorded) /\ y.recorded[i] \in Terminal /\ y.task \in Over
    BY DEF InOrder
  <2>1. CASE i = n + 1
    BY <2>1, <1>1, <1>4
  <2>2. CASE i \in 1..n
    <3>1. y.recorded[i] = x.recorded[i] /\ i \in Places(x.recorded)
      BY <2>2, <1>4 DEF Places
    <3>2. i = 1 => x.recorded[i] = "metadata"
      BY <3>1 DEF Kept, Shape, InOrder
    <3> QED
      BY <3>1, <3>2, <1>1, <2>2
  <2> QED
    BY <2>1, <2>2, <1>1, <1>4 DEF Places
<1>10. ~y.bridge.closed /\ y.bridge.dropped \in Nat /\ y.bridge.dropped >= x.bridge.dropped
  BY <1>2, <1>6
<1>11. Stage(y, live)
  BY <1>1, <1>2, <1>4, <1>10 DEF Stage
<1>12. Ascending(x, live)
  BY DEF Kept, Shape
<1>13. \A i \in Places(queue) : queue[i] \in 0..n - 1 /\ queue[i] > 0 /\ queue[i] # END
  BY <1>1, <1>12 DEF Ascending, All
<1>8. \A i, j \in Places(queue) : i < j => queue[i] < queue[j]
  BY <1>12, <1>13 DEF Ascending
<1>14. All(x) = 0..n - 1 /\ All(y) = 0..n
  BY <1>1, <1>4 DEF All
<1>15. Ended(y) <=> kind \in Terminal
  BY <1>1, <1>4 DEF Ended
<1>16. Passed(y, live) \subseteq Passed(x, live)
  BY <1>12, <1>14, <1>1 DEF Passed, Ascending
<1>17. Passed(x, live) \subseteq All(x) /\ Gap(x, live) \subseteq All(x) /\ Passed(y, live) \subseteq All(x)
  BY <1>16 DEF Passed, Gap
<1>18. Spared(x) <= Spared(y)
  BY <1>1, <1>2, <1>10, <1>15 DEF Spared, One
<1>19. \A k \in All(x) : y.recorded[k + 1] = x.recorded[k + 1]
  BY <1>1, <1>4, <1>14
<1>20. MayMiss(y, Passed(y, live))
  BY <1>16, <1>17, <1>18, <1>19, MissLess, ZenonT(30) DEF Kept
<1>21. CASE Len(queue) < Capacity
  <2>1. y.bridge.queue = Append(queue, n)
    BY <1>6, <1>21
  <2>2. /\ Len(y.bridge.queue) = Len(queue) + 1 /\ y.bridge.queue[Len(queue) + 1] = n
        /\ \A i \in Places(queue) : y.bridge.queue[i] = queue[i]
    BY <2>1, <1>1, <1>2 DEF Places
  <2>3. /\ \A i \in Places(y.bridge.queue) :
               \/ i \in Places(queue) /\ y.bridge.queue[i] = queue[i]
               \/ i = Len(queue) + 1 /\ y.bridge.queue[i] = n
        /\ \A i \in Places(queue) : i \in Nat /\ i < Len(queue) + 1
        /\ Places(queue) \subseteq Places(y.bridge.queue)
        /\ Len(queue) + 1 \in Places(y.bridge.queue)
    BY <1>2, <2>2, SMTT(30) DEF Places
  <2>4. Ascending(y, live)
    <3> DEFINE ends == y.bridge.queue
    <3>1. \A i \in Places(ends) : ends[i] \in 0..n /\ ends[i] > 0 /\ ends[i] # END
      BY <1>1, <1>13, <2>3, SMTT(30) DEF END
    <3>2. \A i, j \in Places(ends) : i < j => ends[i] < ends[j]
      <4> SUFFICES ASSUME NEW i \in Places(ends), NEW j \in Places(ends), i < j
                   PROVE  ends[i] < ends[j]
        OBVIOUS
      <4>3. j \in 1..Len(queue) + 1 /\ i \in 1..Len(queue) + 1
        BY <2>2 DEF Places
      <4>4. i # Len(queue) + 1
        BY <1>2, <4>3
      <4>5. i \in Places(queue) /\ ends[i] = queue[i]
        BY <2>3, <4>4
      <4>1. CASE j \in Places(queue)
        <5>1. ends[j] = queue[j]
          BY <2>2, <4>1
        <5> QED
          BY <1>8, <4>1, <4>5, <5>1
      <4>2. CASE j = Len(queue) + 1
        <5>1. ends[j] = n
          BY <2>2, <4>2
        <5>2. queue[i] \in 0..n - 1
          BY <1>13, <4>5
        <5> QED
          BY <1>1, <4>5, <5>1, <5>2
      <4> QED
        BY <2>3, <4>1, <4>2
    <3>3. /\ \A i \in Places(live) : live[i] \in 0..n - 1
          /\ \A i \in Places(live), j \in Places(queue) : live[i] < queue[j]
          /\ \A i, j \in Places(live) : i < j => live[i] < live[j]
      BY <1>12, <1>13, <1>14 DEF Ascending
    <3>4. \A i \in Places(live) : live[i] \in 0..n /\ live[i] < n
      BY <1>1, <3>3
    <3>5. \A i \in Places(live), j \in Places(ends) : live[i] < ends[j]
      BY <3>3, <3>4, <2>3
    <3> QED
      BY <1>14, <3>1, <3>2, <3>3, <3>4, <3>5 DEF Ascending
  <2>5. Gap(y, live) \subseteq Gap(x, live)
    <3>1. Elements(queue) \cup {n} \subseteq Elements(y.bridge.queue)
      BY <2>2, <2>3, SMTT(30) DEF Elements
    <3> QED
      BY <1>1, <1>14, <3>1 DEF Gap
  <2>6. held => MayMiss(y, Gap(y, live))
    BY <1>17, <1>18, <1>19, <2>5, MissLess, ZenonT(30) DEF Kept
  <2> QED
    BY <1>9, <1>11, <1>20, <2>4, <2>6 DEF Kept, Shape
<1>22. CASE Len(queue) >= Capacity /\ kind \in Terminal
  <2>1. y.bridge.queue = Append(Tail(queue), n) /\ y.bridge.dropped = x.bridge.dropped
    BY <1>6, <1>22, <1>2, <1>5, SMTT(30)
  <2>2. Len(queue) >= 2
    BY <1>2, <1>5, <1>22
  <2>3. /\ Len(y.bridge.queue) = Len(queue) /\ y.bridge.queue[Len(queue)] = n
        /\ \A i \in 1..Len(queue) - 1 : y.bridge.queue[i] = queue[i + 1]
    BY <2>1, <2>2, <1>1, <1>2
  <2>4. /\ \A i \in Places(y.bridge.queue) :
               \/ /\ i + 1 \in Places(queue) /\ i < Len(queue)
                  /\ y.bridge.queue[i] = queue[i + 1]
               \/ i = Len(queue) /\ y.bridge.queue[i] = n
        /\ \A i \in Places(queue) : i # 1 => i - 1 \in Places(y.bridge.queue)
                                            /\ y.bridge.queue[i - 1] = queue[i]
        /\ \A i \in Places(y.bridge.queue) : i \in Nat /\ i <= Len(queue)
        /\ Len(queue) \in Places(y.bridge.queue)
        /\ 1 \in Places(queue)
    <3>1. \A i \in Places(y.bridge.queue) :
               \/ /\ i + 1 \in Places(queue) /\ i < Len(queue)
                  /\ y.bridge.queue[i] = queue[i + 1]
               \/ i = Len(queue) /\ y.bridge.queue[i] = n
      <4> SUFFICES ASSUME NEW i \in Places(y.bridge.queue)
                   PROVE  \/ /\ i + 1 \in Places(queue) /\ i < Len(queue)
                             /\ y.bridge.queue[i] = queue[i + 1]
                          \/ i = Len(queue) /\ y.bridge.queue[i] = n
        OBVIOUS
      <4>1. i \in 1..Len(queue)
        BY <2>3 DEF Places
      <4>2. CASE i = Len(queue)
        BY <2>3, <4>2
      <4>3. CASE i \in 1..Len(queue) - 1
        <5>1. i + 1 \in Places(queue) /\ i < Len(queue)
          BY <1>2, <4>3, SMTT(30) DEF Places
        <5> QED
          BY <2>3, <4>3, <5>1
      <4> QED
        BY <1>2, <4>1, <4>2, <4>3
    <3>2. \A i \in Places(queue) : i # 1 => /\ i - 1 \in 1..Len(queue) - 1
                                            /\ i - 1 \in 1..Len(queue)
                                            /\ (i - 1) + 1 = i
      BY <1>2, <2>2 DEF Places
    <3>3. \A i \in Places(queue) : i # 1 => i - 1 \in Places(y.bridge.queue)
                                            /\ y.bridge.queue[i - 1] = queue[i]
      <4> SUFFICES ASSUME NEW i \in Places(queue), i # 1
                   PROVE  /\ i - 1 \in Places(y.bridge.queue)
                          /\ y.bridge.queue[i - 1] = queue[i]
        OBVIOUS
      <4>1. i - 1 \in 1..Len(queue) - 1 /\ i - 1 \in 1..Len(queue) /\ (i - 1) + 1 = i
        BY <3>2
      <4>2. y.bridge.queue[i - 1] = queue[(i - 1) + 1]
        BY <2>3, <4>1
      <4> QED
        BY <2>3, <4>1, <4>2 DEF Places
    <3> QED
      BY <1>2, <2>2, <2>3, <3>1, <3>3 DEF Places
  <2>10. Ascending(y, live)
    <3> DEFINE ends == y.bridge.queue
    <3>1. \A i \in Places(ends) : ends[i] \in 0..n /\ ends[i] > 0 /\ ends[i] # END
      <4> SUFFICES ASSUME NEW i \in Places(ends)
                   PROVE  ends[i] \in 0..n /\ ends[i] > 0 /\ ends[i] # END
        OBVIOUS
      <4>1. CASE i + 1 \in Places(queue) /\ ends[i] = queue[i + 1]
        BY <1>1, <1>13, <4>1
      <4>2. CASE ends[i] = n
        BY <1>1, <4>2 DEF END
      <4> QED
        BY <2>4, <4>1, <4>2
    <3>2. \A i, j \in Places(ends) : i < j => ends[i] < ends[j]
      <4> SUFFICES ASSUME NEW i \in Places(ends), NEW j \in Places(ends), i < j
                   PROVE  ends[i] < ends[j]
        OBVIOUS
      <4>4. i \in 1..Len(queue) /\ j \in 1..Len(queue)
        BY <2>3 DEF Places
      <4>5. i # Len(queue)
        BY <1>2, <4>4
      <4>1. i + 1 \in Places(queue) /\ i < Len(queue) /\ ends[i] = queue[i + 1]
        BY <2>4, <4>5
      <4>2. CASE j < Len(queue)
        <5>1. j # Len(queue) /\ i + 1 < j + 1
          BY <1>2, <4>2, <4>4
        <5>2. j + 1 \in Places(queue) /\ ends[j] = queue[j + 1]
          BY <2>4, <5>1
        <5> QED
          BY <1>8, <4>1, <5>1, <5>2
      <4>3. CASE j = Len(queue)
        <5>1. ends[j] = n
          BY <2>4, <4>3
        <5> QED
          BY <1>1, <1>13, <4>1, <5>1
      <4> QED
        BY <1>2, <2>4, <4>2, <4>3
    <3>3. /\ \A i \in Places(live) : live[i] \in 0..n - 1
          /\ \A i \in Places(live), j \in Places(queue) : live[i] < queue[j]
          /\ \A i, j \in Places(live) : i < j => live[i] < live[j]
      BY <1>12, <1>13, <1>14 DEF Ascending
    <3>4. \A i \in Places(live) : live[i] \in 0..n /\ live[i] < n
      BY <1>1, <3>3
    <3>5. \A i \in Places(live), j \in Places(ends) : live[i] < ends[j]
      BY <3>3, <3>4, <2>4
    <3> QED
      BY <1>14, <3>1, <3>2, <3>3, <3>4, <3>5 DEF Ascending
  <2>5. Gap(y, live) \subseteq Gap(x, live) \cup {queue[1]}
    <3>1. Elements(queue) \cup {n} \subseteq Elements(y.bridge.queue) \cup {queue[1]}
      BY <2>3, <2>4, SMTT(30) DEF Elements
    <3>2. queue[1] # n
      BY <1>1, <1>13, <2>4
    <3> QED
      BY <1>1, <1>14, <3>1, <3>2 DEF Gap
  <2>6. queue[1] \in 0..n - 1 /\ x.recorded[queue[1] + 1] = "content"
    <3>1. queue[1] \in 0..n - 1 /\ queue[1] > 0
      BY <1>13, <2>4
    <3>2. queue[1] + 1 \in Places(x.recorded) /\ queue[1] + 1 > 1
      BY <1>1, <3>1 DEF Places
    <3> QED
      BY <1>1, <3>1, <3>2
  <2>7. Spared(y) = Spared(x) + 1
    BY <1>1, <1>10, <1>2, <1>15, <1>22, <2>1 DEF Spared, One
  <2>8. ASSUME held PROVE \A k \in Gap(y, live) : y.recorded[k + 1] = "content"
    BY <2>5, <2>6, <2>8, <1>14, <1>17, <1>19 DEF Kept, MayMiss
  <2>9. held => MayMiss(y, Gap(y, live))
    BY <1>17, <2>5, <2>7, <2>8, MissMore DEF Kept
  <2> QED
    BY <1>9, <1>11, <1>20, <2>9, <2>10 DEF Kept, Shape
<1>23. CASE Len(queue) >= Capacity /\ kind \notin Terminal
  <2>1. y.bridge.queue = queue /\ y.bridge.dropped = x.bridge.dropped + 1
    BY <1>6, <1>23, <1>2, <1>5
  <2>2. Ascending(y, live)
    BY <1>1, <1>10, <1>12, <1>13, <1>14, <2>1 DEF Ascending
  <2>3. Gap(y, live) \subseteq Gap(x, live) \cup {n}
    BY <1>1, <1>14, <2>1 DEF Gap
  <2>4. Spared(y) = Spared(x) + 1
    BY <1>1, <1>10, <1>2, <1>15, <1>23, <2>1 DEF Spared, One
  <2>5. y.recorded[n + 1] = "content"
    BY <1>4, <1>23
  <2>6. ASSUME held PROVE \A k \in Gap(y, live) : y.recorded[k + 1] = "content"
    BY <2>3, <2>5, <2>6, <1>17, <1>19 DEF Kept, MayMiss
  <2>7. held => MayMiss(y, Gap(y, live))
    BY <1>17, <2>3, <2>4, <2>6, MissMore DEF Kept
  <2> QED
    BY <1>9, <1>11, <1>20, <2>2, <2>7 DEF Kept, Shape
<1> QED
  BY <1>2, <1>5, <1>21, <1>22, <1>23

\* Closing the bridge of a task that is over.
LEMMA CloseKeeps ==
    ASSUME NEW x \in Answer, NEW live \in Seq(Nat), NEW held \in BOOLEAN,
           x.task \in Over, ~x.bridge.closed, Kept(x, live, held),
           NEW y \in Answer, y.recorded = x.recorded, y.task = x.task,
           y.response = x.response, y.bridge = Closed(x.bridge)
    PROVE  Kept(y, live, held)
<1> DEFINE n == Len(x.recorded)
           queue == x.bridge.queue
           ends == y.bridge.queue
<1>1. /\ queue \in Seq(Int) /\ Len(queue) \in Nat /\ x.recorded \in Seq(EventKind)
      /\ n \in Nat /\ x.bridge \in Bridge /\ x.bridge.dropped \in Nat
  BY DEF Answer, Bridge
<1>2. Capacity \in Nat /\ Capacity >= 2
  BY StreamAssumption
<1>3. /\ y.bridge.closed /\ y.bridge.dropped = x.bridge.dropped
      /\ ends = Append(IF Len(queue) < Capacity THEN queue ELSE Tail(queue), END)
  BY <1>1 DEF Closed, Bridge
<1>4. Shape(x, live) /\ All(y) = All(x) /\ All(x) = 0..n - 1
  BY DEF Kept, All
<1>5. x.task # "none"
  BY DEF Over
<1>6. \A i \in Places(queue) : queue[i] \in 0..n - 1 /\ queue[i] > 0 /\ queue[i] # END
  BY <1>1, <1>4, <1>5 DEF Shape, Ascending, END
<1>7. /\ \A i, j \in Places(queue) : i < j => queue[i] < queue[j]
      /\ \A i \in Places(live) : live[i] \in All(x)
      /\ \A i, j \in Places(live) : i < j => live[i] < live[j]
      /\ \A i \in Places(live), j \in Places(queue) : live[i] < queue[j]
  BY <1>4, <1>6 DEF Shape, Ascending
<1>8. InOrder(y)
  BY <1>4 DEF Shape, InOrder
<1>9. Stage(y, live)
  BY <1>4, <1>5 DEF Shape, Stage
<1>10. Spared(y) = Spared(x) + 1
  BY <1>1, <1>3 DEF Spared, One, Ended
<1>11. Spared(x) \in Nat /\ Spared(y) \in Nat
  BY SparedIsNumber
<1>12. Spared(x) <= Spared(y)
  BY <1>10, <1>11
<1>13. Gap(x, live) \subseteq All(x) /\ Passed(x, live) \subseteq All(x)
  BY DEF Gap, Passed
<1>14. Passed(y, live) = Passed(x, live)
  BY <1>4 DEF Passed
<1>15. MayMiss(y, Passed(y, live))
  BY <1>12, <1>13, <1>14, MissLess DEF Kept
<1>16. CASE Len(queue) < Capacity
  <2>1. ends = Append(queue, END)
    BY <1>3, <1>16
  <2>2. /\ Len(ends) = Len(queue) + 1 /\ ends[Len(queue) + 1] = END
        /\ \A i \in 1..Len(queue) : ends[i] = queue[i]
    BY <1>1, <2>1 DEF END
  <2>3. \A i \in Places(ends) : \/ i \in Places(queue) /\ ends[i] = queue[i]
                                \/ i = Len(ends) /\ ends[i] = END
    BY <1>1, <2>2 DEF Places
  <2>4. \A i, j \in Places(ends) : i < j => i \in Places(queue) /\ ends[i] = queue[i]
    BY <1>1, <2>2, SMTT(30) DEF Places
  <2>5. Ascending(y, live)
    BY <1>3, <1>4, <1>6, <1>7, <2>3, <2>4 DEF Ascending
  <2>6. Gap(y, live) \subseteq Gap(x, live)
    <3>1. \A i \in Places(queue) : i \in Places(ends) /\ ends[i] = queue[i]
      BY <1>1, <2>2 DEF Places
    <3>2. Elements(queue) \subseteq Elements(ends)
      BY <3>1 DEF Elements
    <3> QED
      BY <1>4, <3>2 DEF Gap
  <2>7. held => MayMiss(y, Gap(y, live))
    BY <1>12, <1>13, <2>6, MissLess DEF Kept
  <2> QED
    BY <1>8, <1>9, <1>15, <2>5, <2>7 DEF Kept, Shape
<1>17. CASE ~(Len(queue) < Capacity)
  <2>1. ends = Append(Tail(queue), END) /\ Len(queue) >= 2
    BY <1>1, <1>2, <1>3, <1>17, SMTT(30)
  <2>2. /\ Len(ends) = Len(queue) /\ ends[Len(queue)] = END
        /\ \A i \in 1..Len(queue) - 1 : ends[i] = queue[i + 1]
    BY <1>1, <2>1 DEF END
  <2>3. \A i \in Places(ends) :
          \/ i < Len(queue) /\ i + 1 \in Places(queue) /\ ends[i] = queue[i + 1]
          \/ i = Len(ends) /\ ends[i] = END
    <3> SUFFICES ASSUME NEW i \in Places(ends), i # Len(queue)
                 PROVE  i < Len(queue) /\ i + 1 \in Places(queue) /\ ends[i] = queue[i + 1]
      BY <2>2
    <3>1. i \in 1..Len(queue) - 1 /\ i < Len(queue) /\ i + 1 \in 1..Len(queue)
      BY <1>1, <2>2 DEF Places
    <3> QED
      BY <2>2, <3>1 DEF Places
  <2>4. Ascending(y, live)
    <3>1. \A i, j \in Places(ends) : i < j /\ ends[j] # END => ends[i] < ends[j]
      <4> SUFFICES ASSUME NEW i \in Places(ends), NEW j \in Places(ends), i < j, ends[j] # END
                   PROVE  ends[i] < ends[j]
        OBVIOUS
      <4>1. j < Len(queue) /\ j + 1 \in Places(queue) /\ ends[j] = queue[j + 1]
        BY <2>3
      <4>2. i \in Nat /\ j \in Nat
        BY DEF Places
      <4>3. i < Len(queue) /\ i # Len(ends)
        BY <1>1, <2>2, <4>1, <4>2
      <4>4. i + 1 \in Places(queue) /\ ends[i] = queue[i + 1] /\ i + 1 < j + 1
        BY <2>3, <4>2, <4>3
      <4> QED
        BY <1>7, <4>1, <4>4
    <3> QED
      BY <1>3, <1>4, <1>6, <1>7, <2>3, <3>1 DEF Ascending
  <2>5. Gap(y, live) \subseteq Gap(x, live) \cup {queue[1]}
    <3>1. ASSUME NEW i \in Places(queue), i # 1 PROVE queue[i] \in Elements(ends)
      <4>1. i - 1 \in 1..Len(queue) - 1 /\ i - 1 \in 1..Len(queue) /\ (i - 1) + 1 = i
        BY <1>1, <2>1, <3>1, SMTT(30) DEF Places
      <4>2. ends[i - 1] = queue[(i - 1) + 1]
        BY <2>2, <4>1
      <4> QED
        BY <2>2, <4>1, <4>2 DEF Elements, Places
    <3>2. Elements(queue) \subseteq Elements(ends) \cup {queue[1]}
      BY <3>1 DEF Elements
    <3> QED
      BY <1>4, <3>2 DEF Gap
  <2>6. x.recorded[queue[1] + 1] = "content"
    <3>1. 1 \in Places(queue) /\ 2 \in Places(queue)
      BY <1>1, <2>1 DEF Places
    <3>2. queue[1] \in 0..n - 1 /\ queue[2] \in 0..n - 1 /\ queue[1] > 0 /\ queue[1] < queue[2]
      BY <1>6, <1>7, <3>1
    <3>4. \A a, b \in 0..n - 1 : a > 0 /\ a < b => a + 1 \in 1..n /\ a + 1 # n /\ a + 1 # 1
      BY <1>1
    <3>3. queue[1] + 1 \in Places(x.recorded) /\ queue[1] + 1 # n /\ queue[1] + 1 # 1
      BY <3>2, <3>4 DEF Places
    <3> QED
      BY <1>4, <3>3 DEF Shape, InOrder
  <2>7. ASSUME held PROVE \A k \in Gap(y, live) : y.recorded[k + 1] = "content"
    BY <2>5, <2>6, <2>7 DEF Kept, MayMiss
  <2>8. held => MayMiss(y, Gap(y, live))
    BY <1>10, <1>13, <2>5, <2>7, MissMore DEF Kept
  <2> QED
    BY <1>8, <1>9, <1>15, <2>4, <2>8 DEF Kept, Shape
<1> QED
  BY <1>16, <1>17

\* Taking the oldest event, and having it read if the line is held.
LEMMA TakeKeeps ==
    ASSUME NEW x \in Answer, NEW live \in Seq(Nat), NEW held \in BOOLEAN,
           x.bridge.queue # <<>>, Head(x.bridge.queue) # END, Kept(x, live, held),
           NEW y \in Answer, y.recorded = x.recorded,
           y.bridge = [x.bridge EXCEPT !.queue = Tail(@)],
           y.response \notin {"none", "asked", "ready"},
           y.task = x.task \/ (x.response = "ready" /\ y.task = "running"),
           NEW read \in Seq(Nat),
           read = IF held THEN Append(live, Head(x.bridge.queue)) ELSE live
    PROVE  Kept(y, read, held)
<1> DEFINE queue == x.bridge.queue
           first == Head(queue)
           rest == y.bridge.queue
<1>1. /\ queue \in Seq(Int) /\ Len(queue) \in Nat \ {0} /\ queue # <<>>
      /\ x.bridge \in Bridge /\ x.bridge.dropped \in Nat
      /\ Len(x.recorded) \in Nat
  BY DEF Answer, Bridge
<1>2. Shape(x, live) /\ All(y) = All(x)
  BY DEF Kept, All
<1>3. first = queue[1]
  BY <1>1
<1>4. /\ rest = Tail(queue) /\ y.bridge.dropped = x.bridge.dropped
      /\ y.bridge.closed = x.bridge.closed
  BY <1>1 DEF Bridge
<1>5. Len(rest) = Len(queue) - 1 /\ \A i \in 1..Len(queue) - 1 : rest[i] = queue[i + 1]
  BY <1>1, <1>4
<1>6. 1 \in Places(queue) /\ \A i \in Places(rest) :
          i + 1 \in Places(queue) /\ rest[i] = queue[i + 1] /\ 1 < i + 1 /\ i \in Nat
  <2>1. \A i \in 1..Len(queue) - 1 : i + 1 \in 1..Len(queue) /\ 1 < i + 1 /\ i \in Nat
    BY <1>1, SMTT(30)
  <2> QED
    BY <1>1, <1>5, <2>1 DEF Places
<1>7. Ascending(x, live)
  BY <1>2 DEF Shape
<1>8. first \in All(x) /\ first # END
  BY <1>3, <1>6, <1>7 DEF Ascending
<1>17. \A k \in All(x) : k \in Nat
  BY <1>1 DEF All
<1>9. Spared(x) <= Spared(y)
  <2>1. Spared(y) = Spared(x) /\ Spared(x) \in Nat
    BY <1>4, SparedIsNumber DEF Spared, Ended
  <2> QED
    BY <2>1
<1>10. InOrder(y)
  <2>1. CASE y.task = x.task
    BY <1>2, <2>1 DEF Shape, InOrder
  <2>2. CASE x.response = "ready" /\ y.task = "running"
    <3>1. x.recorded = <<"metadata">>
      BY <1>2, <2>2 DEF Shape, Stage
    <3> QED
      BY <3>1 DEF InOrder, Places
  <2> QED
    BY <2>1, <2>2
<1>11. Stage(y, read)
  <2>1. Len(y.recorded) > 0
    BY <1>1, <1>8 DEF All
  <2>2. y.bridge.closed => y.task \in Over
    BY <1>2, <1>4 DEF Shape, Stage, Over
  <2> QED
    BY <2>1, <2>2 DEF Stage
<1>12. \A i \in Places(rest) :
         /\ rest[i] = END => i = Len(rest) /\ y.bridge.closed
         /\ rest[i] # END => rest[i] \in All(y) /\ rest[i] > 0 /\ first < rest[i]
  <2> SUFFICES ASSUME NEW i \in Places(rest)
               PROVE  /\ rest[i] = END => i = Len(rest) /\ y.bridge.closed
                      /\ rest[i] # END => rest[i] \in All(y) /\ rest[i] > 0 /\ first < rest[i]
    OBVIOUS
  <2>1. i + 1 \in Places(queue) /\ rest[i] = queue[i + 1] /\ 1 < i + 1 /\ i \in Nat
    BY <1>6
  <2>2. rest[i] = END => i + 1 = Len(queue) /\ x.bridge.closed
    BY <1>7, <2>1 DEF Ascending
  <2>3. rest[i] # END => rest[i] \in All(x) /\ queue[1] < rest[i]
    BY <1>6, <1>7, <2>1 DEF Ascending
  <2>4. ASSUME rest[i] # END PROVE rest[i] > 0
    <3>1. rest[i] \in Nat /\ queue[1] \in Nat
      BY <1>3, <1>8, <1>17, <2>3, <2>4
    <3> QED
      <4>1. \A a, b \in Nat : a < b => b > 0
        OBVIOUS
      <4> QED
        BY <2>3, <2>4, <3>1, <4>1, Zenon
  <2>5. ASSUME i + 1 = Len(queue) PROVE i = Len(rest)
    <3>1. Len(rest) = (i + 1) - 1
      BY <1>5, <2>5
    <3> QED
      BY <2>1, <3>1
  <2> QED
    BY <1>2, <1>3, <1>4, <2>2, <2>3, <2>4, <2>5
<1>13. \A i, j \in Places(rest) : i < j /\ rest[j] # END => rest[i] < rest[j]
  <2> SUFFICES ASSUME NEW i \in Places(rest), NEW j \in Places(rest), i < j, rest[j] # END
               PROVE  rest[i] < rest[j]
    OBVIOUS
  <2>1. /\ i + 1 \in Places(queue) /\ rest[i] = queue[i + 1] /\ i \in Nat
        /\ j + 1 \in Places(queue) /\ rest[j] = queue[j + 1] /\ j \in Nat
    BY <1>6
  <2>2. i + 1 < j + 1
    BY <2>1
  <2> QED
    BY <1>7, <2>1, <2>2 DEF Ascending
<1>14. /\ \A i \in Places(live) : live[i] \in All(x) /\ live[i] < first
       /\ \A i, j \in Places(live) : i < j => live[i] < live[j]
       /\ Len(live) \in Nat
  BY <1>3, <1>6, <1>7, <1>8 DEF Ascending
<1>15. CASE ~held
  <2>1. read = live
    BY <1>15
  <2>2. \A i \in Places(live), j \in Places(rest) : rest[j] # END => live[i] < rest[j]
    <3> SUFFICES ASSUME NEW i \in Places(live), NEW j \in Places(rest), rest[j] # END
                 PROVE  live[i] < rest[j]
      OBVIOUS
    <3>1. j + 1 \in Places(queue) /\ rest[j] = queue[j + 1]
      BY <1>6
    <3> QED
      BY <1>7, <3>1 DEF Ascending
  <2>3. Ascending(y, read)
    BY <1>2, <1>12, <1>13, <1>14, <2>1, <2>2 DEF Ascending
  <2>4. Passed(y, read) = Passed(x, live) /\ Passed(x, live) \subseteq All(x)
    BY <1>2, <2>1 DEF Passed
  <2>5. MayMiss(y, Passed(y, read))
    BY <1>9, <2>4, MissLess DEF Kept
  <2> QED
    BY <1>10, <1>11, <1>15, <2>3, <2>5 DEF Kept, Shape
<1>16. CASE held
  <2>1. /\ Len(read) = Len(live) + 1 /\ read[Len(live) + 1] = first
        /\ \A i \in 1..Len(live) : read[i] = live[i]
    <3>1. read = Append(live, first) /\ first \in Nat
      BY <1>1, <1>8, <1>16 DEF All
    <3> QED
      BY <1>14, <3>1
  <2>2. \A i \in Places(read) :
          \/ i \in Places(live) /\ read[i] = live[i]
          \/ i = Len(live) + 1 /\ read[i] = first
    BY <1>14, <2>1 DEF Places
  <2>3. \A i \in Places(read) : read[i] \in All(x) /\ (read[i] = first \/ read[i] < first)
    BY <1>8, <1>14, <2>2
  <2>4. \A i, j \in Places(read) : i < j => read[i] < read[j]
    <3> SUFFICES ASSUME NEW i \in Places(read), NEW j \in Places(read), i < j
                 PROVE  read[i] < read[j]
      OBVIOUS
    <3>1. i \in Places(live) /\ read[i] = live[i]
      BY <1>14, <2>1 DEF Places
    <3>2. CASE j \in Places(live) /\ read[j] = live[j]
      BY <1>14, <3>1, <3>2
    <3>3. CASE read[j] = first
      BY <1>14, <3>1, <3>3
    <3> QED
      BY <2>2, <3>2, <3>3
  <2>5. \A i \in Places(read), j \in Places(rest) : rest[j] # END => read[i] < rest[j]
    <3> SUFFICES ASSUME NEW i \in Places(read), NEW j \in Places(rest), rest[j] # END
                 PROVE  read[i] < rest[j]
      OBVIOUS
    <3>1. first < rest[j] /\ rest[j] \in All(x)
      BY <1>2, <1>12
    <3>2. rest[j] \in Nat /\ first \in Nat
      BY <1>8, <1>17, <3>1
    <3>3. read[i] \in Nat /\ (read[i] = first \/ read[i] < first)
      BY <1>17, <2>3
    <3>4. CASE read[i] = first
      BY <3>1, <3>4, Zenon
    <3>5. CASE read[i] < first
      <4>1. \A a, b, c \in Nat : a < b /\ b < c => a < c
        OBVIOUS
      <4> QED
        BY <3>1, <3>2, <3>3, <3>5, <4>1, Zenon
    <3> QED
      BY <3>3, <3>4, <3>5
  <2>6. Ascending(y, read)
    BY <1>2, <1>12, <1>13, <2>3, <2>4, <2>5 DEF Ascending
  <2>7. Shape(y, read)
    BY <1>10, <1>11, <2>6 DEF Shape
  <2>8. Gap(y, read) \subseteq Gap(x, live)
    <3> SUFFICES ASSUME NEW k \in Gap(y, read) PROVE k \in Gap(x, live)
      OBVIOUS
    <3>1. k # first
      BY <1>14, <2>1 DEF Gap, Elements, Places
    <3>2. k \notin Elements(live)
      <4>1. \A i \in Places(live) : i \in Places(read) /\ read[i] = live[i]
        BY <1>14, <2>1 DEF Places
      <4> QED
        BY <4>1, ZenonT(30) DEF Gap, Elements
    <3>3. ASSUME NEW i \in Places(queue), k = queue[i] PROVE FALSE
      <4>1. i # 1
        BY <1>3, <3>1, <3>3
      <4>2. i - 1 \in 1..Len(queue) - 1 /\ (i - 1) + 1 = i
        BY <1>1, <4>1 DEF Places
      <4>3. rest[i - 1] = k /\ i - 1 \in Places(rest)
        BY <1>5, <3>3, <4>2 DEF Places
      <4> QED
        BY <4>3 DEF Gap, Elements
    <3> QED
      BY <1>2, <3>2, <3>3 DEF Gap, Elements
  <2>9. MayMiss(y, Gap(y, read))
    <3>1. Gap(x, live) \subseteq All(x)
      BY DEF Gap
    <3>2. MayMiss(x, Gap(x, live))
      BY <1>16 DEF Kept
    <3> QED
      BY <1>9, <2>8, <3>1, <3>2, MissLess
  <2>10. Passed(y, read) \subseteq Gap(y, read) /\ Gap(y, read) \subseteq All(y)
    BY <2>7, PassedInGap DEF Gap
  <2>11. MayMiss(y, Passed(y, read))
    <3>1. Spared(y) <= Spared(y)
      BY SparedIsNumber
    <3> QED
      BY <2>9, <2>10, <3>1, MissLess
  <2> QED
    BY <2>7, <2>9, <2>11 DEF Kept
<1> QED
  BY <1>15, <1>16

\* A change of the task or the response alone.
LEMMA ChangeKeeps ==
    ASSUME NEW x \in Answer, NEW live \in Seq(Nat), NEW held \in BOOLEAN, NEW still \in BOOLEAN,
           still => held, Kept(x, live, held),
           NEW y \in Answer, y.recorded = x.recorded, y.bridge = x.bridge,
           x.task \in Over => y.task \in Over, y.task = "none" <=> x.task = "none",
           y.response \in {"none", "asked"} => x.response \in {"none", "asked"},
           y.response = "ready" => x.response = "ready"
    PROVE  Kept(y, live, still)
<1>1. Shape(x, live) /\ All(y) = All(x) /\ Spared(y) = Spared(x)
  BY DEF Kept, All, Spared, Ended
<1>2. InOrder(y)
  BY <1>1 DEF Shape, InOrder
<1>3. Stage(y, live)
  BY <1>1 DEF Shape, Stage
<1>4. Ascending(y, live)
  BY <1>1 DEF Shape, Ascending
<1>5. Gap(y, live) = Gap(x, live) /\ Passed(y, live) = Passed(x, live)
  BY <1>1 DEF Gap, Passed
<1> QED
  BY <1>1, <1>2, <1>3, <1>4, <1>5 DEF Kept, Shape, MayMiss

-----------------------------------------------------------------------------
(* Steps *)

Hook == [connection : Connection, at : {"nothing", "response", "body", "reconnect", "threw"},
         message : Message \cup {"none"}, attempt : 0..MaxAttempts]

\* The type invariant in the terms used here.
LEMMA Types ==
    TypeOK <=> /\ turn \in [Message -> Answer] /\ seen \in [Message -> Reading]
               /\ web \in Hook /\ stored \subseteq Message /\ thread \in BOOLEAN
BY DEF TypeOK, Answer, Bridge, Reading, Hook

\* A step that changes one answer, and what is read of it.
LEMMA OneAnswer ==
    ASSUME Invariant, NEW m \in Message, NEW y \in Answer, NEW r \in Reading,
           turn' = [turn EXCEPT ![m] = y], seen' = [seen EXCEPT ![m] = r],
           web' \in Hook, stored' = stored, thread' \in BOOLEAN,
           \A k \in Message \ {m} : Connected(k)' => Connected(k),
           turn[m].task \in Over => y.task \in Over,
           Kept(y, r.live, Connected(m)'),
           r.caughtUp => /\ y.task \in Over /\ ~Connected(m)'
                         /\ MayMiss(y, All(y) \ (Elements(r.live) \cup r.replayed))
    PROVE  Invariant'
<1>1. turn \in [Message -> Answer] /\ seen \in [Message -> Reading] /\ stored \subseteq Message
  BY Types DEF Invariant
<1>2. /\ turn' \in [Message -> Answer] /\ seen' \in [Message -> Reading]
      /\ turn'[m] = y /\ seen'[m] = r
      /\ \A k \in Message \ {m} : turn'[k] = turn[k] /\ seen'[k] = seen[k]
  BY <1>1
<1>3. TypeOK'
  <2>1. stored' \subseteq Message
    BY <1>1
  <2> QED
    BY <1>2, <2>1 DEF TypeOK, Answer, Bridge, Reading, Hook
<1>4. Stored'
  BY <1>1, <1>2 DEF Invariant, Stored
<1>5. ASSUME NEW k \in Message PROVE Kept(turn[k], seen[k].live, Connected(k))' /\ CaughtUp(k)'
  <2>1. CASE k = m
    <3>1. Kept(turn[m], seen[m].live, Connected(m))'
      BY <1>2
    <3>2. CaughtUp(m)'
      BY <1>2 DEF CaughtUp, Numbers, Received, All, Elements, Places
    <3> QED
      BY <2>1, <3>1, <3>2
  <2>2. CASE k # m
    <3>1. turn'[k] = turn[k] /\ seen'[k] = seen[k] /\ (Connected(k)' => Connected(k))
      BY <1>2, <2>2
    <3>2. Kept(turn[k], seen[k].live, Connected(k)) /\ CaughtUp(k)
      BY DEF Invariant
    <3>3. Kept(turn[k], seen[k].live, Connected(k))'
      BY <3>1, <3>2 DEF Kept
    <3>4. CaughtUp(k)'
      BY <3>1, <3>2 DEF CaughtUp, Numbers, Received
    <3> QED
      BY <3>3, <3>4
  <2> QED
    BY <2>1, <2>2
<1> QED
  BY <1>3, <1>4, <1>5 DEF Invariant

\* A step that changes no answer, and holds no new line.
LEMMA NoAnswer ==
    ASSUME Invariant, UNCHANGED <<turn, seen>>, web' \in Hook, thread' \in BOOLEAN,
           stored' \subseteq Message, \A k \in stored' : turn[k].task \in Over,
           \A k \in Message : Connected(k)' => Connected(k)
    PROVE  Invariant'
<1>1. TypeOK'
  BY DEF Invariant, TypeOK, Hook
<1>2. Stored'
  BY DEF Stored
<1>3. ASSUME NEW k \in Message PROVE Kept(turn[k], seen[k].live, Connected(k))' /\ CaughtUp(k)'
  <2>1. Kept(turn[k], seen[k].live, Connected(k)) /\ CaughtUp(k)
    BY DEF Invariant
  <2>2. Kept(turn[k], seen[k].live, Connected(k))'
    BY <2>1 DEF Kept
  <2>3. CaughtUp(k)'
    BY <2>1 DEF CaughtUp, Numbers, Received
  <2> QED
    BY <2>2, <2>3
<1> QED
  BY <1>1, <1>2, <1>3 DEF Invariant

\* What a reader who has read to an end has missed stays what it is.
LEMMA CaughtStays ==
    ASSUME Invariant, NEW m \in Message, seen[m].caughtUp,
           NEW y \in Answer, y.recorded = turn[m].recorded, Spared(turn[m]) <= Spared(y),
           turn[m].task \in Over => y.task \in Over, Connected(m)' => Connected(m)
    PROVE  /\ y.task \in Over /\ ~Connected(m)'
           /\ MayMiss(y, All(y) \ (Elements(seen[m].live) \cup seen[m].replayed))
<1>1. turn[m] \in Answer
  BY Types DEF Invariant
<1>2. CaughtUp(m)
  BY DEF Invariant
<1>3. Numbers(m) \ Received(m) = All(y) \ (Elements(seen[m].live) \cup seen[m].replayed)
  BY DEF Numbers, Received, All, Elements, Places
<1>4. Numbers(m) \ Received(m) \subseteq All(turn[m])
  BY DEF Numbers, All
<1>5. MayMiss(y, All(y) \ (Elements(seen[m].live) \cup seen[m].replayed))
  BY <1>1, <1>2, <1>3, <1>4, MissLess DEF CaughtUp
<1> QED
  BY <1>2, <1>5 DEF CaughtUp

\* At the start nothing is recorded.
LEMMA InitKeeps == Init => Invariant
<1> SUFFICES ASSUME Init PROVE Invariant
  OBVIOUS
<1>1. NewTurn \in Answer /\ NothingSeen \in Reading /\ NewHook \in Hook
  BY StreamAssumption DEF NewTurn, NothingSeen, NewHook, Answer, Bridge, Reading, Hook, Task, Response, Connection
<1>2. TypeOK
  BY <1>1, Types DEF Init
<1>3. ASSUME NEW m \in Message PROVE Kept(turn[m], seen[m].live, Connected(m)) /\ CaughtUp(m)
  <2>1. turn[m] = NewTurn /\ seen[m] = NothingSeen /\ ~Connected(m)
    BY DEF Init, Connected, NewHook
  <2>2. Shape(NewTurn, <<>>)
    BY DEF Shape, InOrder, Stage, Ascending, NewTurn, Places
  <2>3. Passed(NewTurn, <<>>) = {}
    BY DEF Passed, Places
  <2>4. MayMiss(NewTurn, {})
    <3>1. Spared(NewTurn) \in Nat
      BY <1>1, SparedIsNumber
    <3> QED
      BY <3>1, FS_EmptySet DEF MayMiss
  <2> QED
    <3>1. seen[m].live = <<>> /\ ~seen[m].caughtUp
      BY <2>1 DEF NothingSeen
    <3>2. Kept(turn[m], seen[m].live, Connected(m))
      BY <2>1, <2>2, <2>3, <2>4, <3>1 DEF Kept
    <3> QED
      BY <3>1, <3>2 DEF CaughtUp
<1> QED
  BY <1>2, <1>3 DEF Init, Invariant, Stored

\* The hook when it resumes.
LEMMA ResumingHook == web \in Hook => Resuming \in Hook
<1>1. 1 \in 0..MaxAttempts
  BY StreamAssumption
<1>2. "reconnecting" \in Connection
  BY DEF Connection
<1> QED
  BY <1>1, <1>2 DEF Hook, Resuming

\* Steps of the hook, of storing and of the thread's deletion change no answer.
LEMMA HookKeeps ==
    ASSUME Invariant, Stop \/ LineBreaks \/ ReconnectFails \/ ReconnectRefused \/ DeleteThread
    PROVE  Invariant'
<1>1. web \in Hook /\ stored \subseteq Message /\ thread \in BOOLEAN
  BY Types DEF Invariant
<1>2. MaxAttempts \in Nat \ {0}
  BY StreamAssumption
<1>3. web' \in Hook
  <2>1. CASE Stop \/ ReconnectRefused
    BY <1>1, <2>1 DEF Stop, ReconnectRefused, Hook, Connection
  <2>2. CASE LineBreaks
    BY <1>1, <2>2, ResumingHook DEF LineBreaks
  <2>3. CASE ReconnectFails
    <3>1. web.attempt < MaxAttempts => web.attempt + 1 \in 0..MaxAttempts
      BY <1>1, <1>2 DEF Hook
    <3> QED
      BY <1>1, <2>3, <3>1 DEF ReconnectFails, Hook, Connection
  <2>4. CASE DeleteThread
    BY <1>1, <2>4 DEF DeleteThread
  <2> QED
    BY <2>1, <2>2, <2>3, <2>4
<1>4. \A k \in Message : Connected(k)' => Connected(k)
  BY <1>1 DEF Stop, LineBreaks, Resuming, ReconnectFails, ReconnectRefused, DeleteThread,
              Connected, Hook
<1>5. UNCHANGED <<turn, seen, stored>> /\ thread' \in BOOLEAN
  BY <1>1 DEF Stop, LineBreaks, ReconnectFails, ReconnectRefused, DeleteThread
<1>6. \A k \in stored : turn[k].task \in Over
  BY DEF Invariant, Stored
<1> QED
  BY <1>1, <1>3, <1>4, <1>5, <1>6, NoAnswer

\* What a step that keeps the hook does to the lines held.
LEMMA SameHook ==
    ASSUME Invariant, UNCHANGED <<web, thread>>
    PROVE  /\ web' \in Hook /\ thread' \in BOOLEAN
           /\ \A k \in Message : Connected(k)' = Connected(k)
BY Types DEF Invariant, Connected

\* What is known of an answer before a step.
LEMMA Before ==
    ASSUME Invariant, NEW m \in Message
    PROVE  /\ turn[m] \in Answer /\ seen[m] \in Reading /\ seen[m].live \in Seq(Nat)
           /\ Connected(m) \in BOOLEAN /\ web \in Hook
           /\ Kept(turn[m], seen[m].live, Connected(m)) /\ CaughtUp(m)
           /\ Shape(turn[m], seen[m].live)
           /\ turn \in [Message -> Answer] /\ seen \in [Message -> Reading]
           /\ seen = [seen EXCEPT ![m] = seen[m]]
           /\ thread \in BOOLEAN
           /\ turn[m].task \notin Over => ~seen[m].caughtUp
BY Types DEF Invariant, Connected, Reading, Kept, CaughtUp

\* An answer with another record and bridge.
LEMMA AnswerWith ==
    ASSUME NEW x \in Answer, NEW r, NEW b
    PROVE  [x EXCEPT !.recorded = r, !.bridge = b]
           = [recorded |-> r, bridge |-> b, task |-> x.task, response |-> x.response]
<1> DEFINE e == [x EXCEPT !.recorded = r]
<1>1. [x EXCEPT !.recorded = r, !.bridge = b] = [e EXCEPT !.bridge = b]
  BY DEF Answer
<1>2. e = [recorded |-> r, bridge |-> x.bridge, task |-> x.task, response |-> x.response]
  BY DEF Answer
<1> HIDE DEF e
<1>3. [e EXCEPT !.bridge = b]
      = [recorded |-> r, bridge |-> b, task |-> x.task, response |-> x.response]
  BY <1>2
<1> QED
  BY <1>1, <1>3

\* What is emitted is of the answer's kind.
LEMMA EmittedAnswer ==
    ASSUME NEW x \in Answer, NEW kind \in {"content"} \cup Terminal, x.task = "running",
           NEW live, Shape(x, live)
    PROVE  /\ Emitted(x, kind) \in Answer
           /\ Emitted(x, kind).recorded = Append(x.recorded, kind)
           /\ Emitted(x, kind).bridge = Published(x.bridge, Len(x.recorded), kind)
           /\ Emitted(x, kind).task = x.task /\ Emitted(x, kind).response = x.response
<1> DEFINE n == Len(x.recorded)
           queue == x.bridge.queue
           b == Published(x.bridge, n, kind)
<1>1. /\ x.bridge \in Bridge /\ ~x.bridge.closed /\ n \in Nat
      /\ queue \in Seq(Int) /\ Len(queue) \in Nat
      /\ x.bridge.dropped \in Nat
  BY RunningIsOpen DEF Answer, Bridge
<1>2. Append(queue, n) \in Seq(Int)
  BY <1>1
<1>3. ~(Len(queue) < Capacity) => Append(Tail(queue), n) \in Seq(Int)
  <2> SUFFICES ASSUME ~(Len(queue) < Capacity) PROVE Append(Tail(queue), n) \in Seq(Int)
    OBVIOUS
  <2>1. queue # <<>>
    BY <1>1, StreamAssumption
  <2>2. Tail(queue) \in Seq(Int)
    BY <1>1, <2>1
  <2> QED
    BY <1>1, <2>2
<1>4. b \in Bridge
  <2> DEFINE q == IF Len(queue) < Capacity THEN Append(queue, n)
                  ELSE IF kind \in Terminal THEN Append(Tail(queue), n)
                  ELSE queue
             d == IF Len(queue) >= Capacity /\ kind \notin Terminal
                  THEN x.bridge.dropped + 1 ELSE x.bridge.dropped
  <2>1. b = [queue |-> q, closed |-> FALSE, dropped |-> d]
    BY <1>1, PublishedBridge
  <2>2. q \in Seq(Int)
    BY <1>1, <1>2, <1>3
  <2>3. d \in Nat
    BY <1>1
  <2> HIDE DEF q, d, b
  <2> QED
    BY <2>1, <2>2, <2>3 DEF Bridge
<1>5. Append(x.recorded, kind) \in Seq(EventKind)
  <2>1. kind \in EventKind /\ x.recorded \in Seq(EventKind)
    BY DEF EventKind, Terminal, Answer
  <2> QED
    BY <2>1
<1>6. Emitted(x, kind) = [x EXCEPT !.recorded = Append(x.recorded, kind), !.bridge = b]
  BY DEF Emitted
<1> HIDE DEF b
<1>7. [x EXCEPT !.recorded = Append(x.recorded, kind), !.bridge = b]
      = [recorded |-> Append(x.recorded, kind), bridge |-> b, task |-> x.task,
         response |-> x.response]
  BY AnswerWith
<1> QED
  BY <1>4, <1>5, <1>6, <1>7 DEF Answer, b

\* What is closed is a bridge.
LEMMA ClosedBridge ==
    ASSUME NEW b \in Bridge, ~b.closed
    PROVE  /\ Closed(b) \in Bridge /\ Closed(b).closed /\ Closed(b).dropped = b.dropped
<1> DEFINE kept == IF Len(b.queue) < Capacity THEN b.queue ELSE Tail(b.queue)
           q == Append(kept, END)
<1>1. b.queue \in Seq(Int) /\ Len(b.queue) \in Nat
  BY DEF Bridge
<1>2. kept \in Seq(Int)
  <2>1. ~(Len(b.queue) < Capacity) => b.queue # <<>>
    BY <1>1, StreamAssumption
  <2> QED
    BY <1>1, <2>1
<1>3. q \in Seq(Int)
  <2>1. END \in Int
    BY DEF END
  <2> HIDE DEF kept
  <2> QED
    BY <1>2, <2>1
<1>4. Closed(b) = [b EXCEPT !.closed = TRUE, !.queue = q]
  BY DEF Closed
<1> HIDE DEF q
<1> QED
  BY <1>3, <1>4 DEF Bridge

\* A step that changes only the task or the response of one answer.
LEMMA ChangeStep ==
    ASSUME Invariant, NEW m \in Message, NEW y \in Answer,
           turn' = [turn EXCEPT ![m] = y], UNCHANGED <<seen, stored, thread>>,
           web' \in Hook, \A k \in Message : Connected(k)' => Connected(k),
           y.recorded = turn[m].recorded, y.bridge = turn[m].bridge,
           turn[m].task \in Over => y.task \in Over, y.task = "none" <=> turn[m].task = "none",
           y.response \in {"none", "asked"} => turn[m].response \in {"none", "asked"},
           y.response = "ready" => turn[m].response = "ready"
    PROVE  Invariant'
<1>1. /\ turn[m] \in Answer /\ seen[m] \in Reading /\ seen[m].live \in Seq(Nat)
      /\ Kept(turn[m], seen[m].live, Connected(m)) /\ Connected(m) \in BOOLEAN
      /\ seen' = [seen EXCEPT ![m] = seen[m]] /\ thread' \in BOOLEAN
  BY Before
<1>2. Connected(m)' \in BOOLEAN
  BY DEF Connected
<1>3. Kept(y, seen[m].live, Connected(m)')
  BY <1>1, <1>2, ChangeKeeps
<1>4. Spared(turn[m]) <= Spared(y)
  <2>1. Spared(y) = Spared(turn[m]) /\ Spared(y) \in Nat
    BY SparedIsNumber DEF Spared, Ended
  <2> QED
    BY <2>1
<1>5. seen[m].caughtUp => /\ y.task \in Over /\ ~Connected(m)'
                          /\ MayMiss(y, All(y) \ (Elements(seen[m].live) \cup seen[m].replayed))
  BY <1>4, CaughtStays
<1> QED
  BY <1>1, <1>3, <1>5, OneAnswer

\* The thread is not found.
LEMMA RefuseKeeps == ASSUME Invariant, NEW m \in Message, Refuse(m) PROVE Invariant'
<1> DEFINE y == [turn[m] EXCEPT !.response = "closed"]
<1>1. y \in Answer /\ y.recorded = turn[m].recorded /\ y.bridge = turn[m].bridge
      /\ y.task = turn[m].task /\ y.response = "closed" /\ turn' = [turn EXCEPT ![m] = y]
  BY Before DEF Refuse, Answer, Response
<1>2. web' \in Hook /\ \A k \in Message : Connected(k)' => Connected(k)
  BY Before DEF Refuse, Connected, Hook
<1>3. UNCHANGED <<seen, stored, thread>>
  BY DEF Refuse
<1> HIDE DEF y
<1> QED
  BY <1>1, <1>2, <1>3, ChangeStep

\* The server notices that the reader has gone.
LEMMA LeaveKeeps == ASSUME Invariant, NEW m \in Message, Leave(m) PROVE Invariant'
<1> DEFINE y == [turn[m] EXCEPT !.response = IF @ = "ready" THEN "closed" ELSE "closing",
                                !.task = IF @ = "running" THEN "cancelling" ELSE @]
<1>1. y \in Answer /\ y.recorded = turn[m].recorded /\ y.bridge = turn[m].bridge
      /\ y.task = (IF turn[m].task = "running" THEN "cancelling" ELSE turn[m].task)
      /\ y.response \in {"closed", "closing"} /\ turn' = [turn EXCEPT ![m] = y]
  BY Before DEF Leave, Answer, Response, Task
<1>2. web' \in Hook /\ \A k \in Message : Connected(k)' => Connected(k)
  BY SameHook DEF Leave
<1>3. /\ UNCHANGED <<seen, stored, thread>>
      /\ turn[m].task \in Over => y.task \in Over
      /\ y.task = "none" <=> turn[m].task = "none"
  BY <1>1 DEF Leave, Over
<1> HIDE DEF y
<1> QED
  BY <1>1, <1>2, <1>3, ChangeStep

\* The task has been awaited.
LEMMA LeftKeeps == ASSUME Invariant, NEW m \in Message, Left(m) PROVE Invariant'
<1> DEFINE y == [turn[m] EXCEPT !.response = "closed"]
<1>1. y \in Answer /\ y.recorded = turn[m].recorded /\ y.bridge = turn[m].bridge
      /\ y.task = turn[m].task /\ y.response = "closed" /\ turn' = [turn EXCEPT ![m] = y]
  BY Before DEF Left, Answer, Response
<1>2. web' \in Hook /\ \A k \in Message : Connected(k)' => Connected(k)
  BY SameHook DEF Left
<1> HIDE DEF y
<1> QED
  BY <1>1, <1>2, ChangeStep, ZenonT(30) DEF Left

\* The task is cancelled at the await it is in.
LEMMA TaskCancelledKeeps == ASSUME Invariant, NEW m \in Message, TaskCancelled(m) PROVE Invariant'
<1> DEFINE y == [turn[m] EXCEPT !.task = "cancelled"]
<1>1. y \in Answer /\ y.recorded = turn[m].recorded /\ y.bridge = turn[m].bridge
      /\ y.task = "cancelled" /\ y.response = turn[m].response /\ turn' = [turn EXCEPT ![m] = y]
  BY Before DEF TaskCancelled, Answer, Task
<1>2. web' \in Hook /\ \A k \in Message : Connected(k)' => Connected(k)
  BY SameHook DEF TaskCancelled
<1> HIDE DEF y
<1> QED
  BY <1>1, <1>2, ChangeStep, ZenonT(30) DEF TaskCancelled, Over

\* A message is sent: nothing is recorded of its answer.
LEMMA SendKeeps == ASSUME Invariant, NEW m \in Message, Send(m) PROVE Invariant'
<1> DEFINE x == turn[m]
           y == [x EXCEPT !.response = "asked"]
<1>1. y \in Answer /\ y.recorded = x.recorded /\ y.bridge = x.bridge
      /\ y.task = x.task /\ y.response = "asked" /\ turn' = [turn EXCEPT ![m] = y]
  BY Before DEF Send, Answer, Response
<1>2. web' \in Hook
  BY StreamAssumption DEF Send, Hook, Connection
<1>3. \A k \in Message \ {m} : Connected(k)' => Connected(k)
  BY DEF Send, Connected
<1>4. /\ x \in Answer /\ Shape(x, seen[m].live) /\ x.response = "none" /\ seen[m] \in Reading
      /\ seen[m].live \in Seq(Nat) /\ MayMiss(x, Passed(x, seen[m].live))
      /\ seen = [seen EXCEPT ![m] = seen[m]] /\ thread \in BOOLEAN
  BY Before DEF Send, Kept
<1>5. x.recorded = <<>> /\ x.bridge.queue = <<>> /\ seen[m].live = <<>> /\ x.task = "none"
  BY <1>4 DEF Shape, Stage
<1>6. ~seen[m].caughtUp
  BY <1>5, Before DEF Over
<1> HIDE DEF y
<1>7. Shape(y, seen[m].live)
  BY <1>1, <1>4, <1>5 DEF Shape, InOrder, Stage, Ascending, All
<1>8. All(y) = {} /\ Gap(y, seen[m].live) = {} /\ Passed(y, seen[m].live) = {}
  BY <1>1, <1>5 DEF All, Gap, Passed
<1>9. MayMiss(y, {})
  <2>1. Spared(y) \in Nat
    BY <1>1, SparedIsNumber
  <2> QED
    BY <2>1, FS_EmptySet DEF MayMiss
<1>10. Kept(y, seen[m].live, Connected(m)')
  BY <1>7, <1>8, <1>9 DEF Kept
<1> QED
  BY <1>1, <1>2, <1>3, <1>4, <1>5, <1>6, <1>10, OneAnswer DEF Send, Over

\* The stream is opened.
LEMMA AcceptKeeps == ASSUME Invariant, NEW m \in Message, Accept(m) PROVE Invariant'
<1> DEFINE x == turn[m]
           y == [Emitted(x, "metadata") EXCEPT !.response = "ready"]
<1>1. /\ x \in Answer /\ Shape(x, seen[m].live) /\ x.response = "asked" /\ seen[m] \in Reading
      /\ seen = [seen EXCEPT ![m] = seen[m]] /\ thread \in BOOLEAN /\ web \in Hook
  BY Before DEF Accept
<1>2. /\ x.recorded = <<>> /\ x.bridge.queue = <<>> /\ seen[m].live = <<>> /\ x.task = "none"
      /\ ~x.bridge.closed
  BY <1>1 DEF Shape, Stage, Over
<1>3. ~seen[m].caughtUp
  BY <1>2, Before DEF Over
<1>4. x.bridge \in Bridge /\ x.bridge.dropped \in Nat /\ Len(x.recorded) = 0
  BY <1>1, <1>2 DEF Answer, Bridge
<1>5. Published(x.bridge, 0, "metadata") = [x.bridge EXCEPT !.queue = <<0>>]
  <2>1. Len(x.bridge.queue) < Capacity
    BY <1>2, StreamAssumption
  <2> QED
    BY <1>2, <2>1 DEF Published
<1>6. [x.bridge EXCEPT !.queue = <<0>>] \in Bridge
  <2>1. [x.bridge EXCEPT !.queue = <<0>>]
        = [queue |-> <<0>>, closed |-> x.bridge.closed, dropped |-> x.bridge.dropped]
    BY <1>4, BridgeWith
  <2>2. <<0>> \in Seq(Int) /\ x.bridge.closed \in BOOLEAN
    BY <1>4 DEF Bridge
  <2> QED
    BY <1>4, <2>1, <2>2 DEF Bridge
<1>7. /\ y.recorded = <<"metadata">> /\ y.bridge = [x.bridge EXCEPT !.queue = <<0>>]
      /\ y.task = "none" /\ y.response = "ready" /\ y \in Answer
  <2> DEFINE b == [x.bridge EXCEPT !.queue = <<0>>]
  <2>1. Append(x.recorded, "metadata") = <<"metadata">>
    BY <1>2
  <2>2. Emitted(x, "metadata") = [x EXCEPT !.recorded = <<"metadata">>, !.bridge = b]
    BY <1>4, <1>5, <2>1 DEF Emitted
  <2>3. b \in Bridge
    BY <1>6
  <2>4. <<"metadata">> \in Seq(EventKind) /\ "ready" \in Response /\ x.task \in Task
    BY <1>1 DEF EventKind, Response, Answer
  <2> HIDE DEF b
  <2>5. Emitted(x, "metadata")
        = [recorded |-> <<"metadata">>, bridge |-> b, task |-> x.task, response |-> x.response]
    BY <1>1, <2>2, AnswerWith
  <2>6. y = [recorded |-> <<"metadata">>, bridge |-> b, task |-> x.task, response |-> "ready"]
    BY <2>5
  <2>7. b = [x.bridge EXCEPT !.queue = <<0>>]
    BY DEF b
  <2> HIDE DEF y
  <2> QED
    BY <1>2, <2>3, <2>4, <2>6, <2>7 DEF Answer
<1>8. turn' = [turn EXCEPT ![m] = y]
  BY DEF Accept
<1>9. web' \in Hook /\ \A k \in Message : Connected(k)' => Connected(k)
  BY <1>1 DEF Accept, Connected, Hook
<1> HIDE DEF y
<1>10. y.bridge.queue = <<0>> /\ y.bridge.closed = x.bridge.closed
  BY <1>4, <1>7 DEF Bridge
<1>11. All(y) = {0}
  BY <1>7 DEF All
<1>12. Shape(y, <<>>)
  <2>1. InOrder(y)
    BY <1>7 DEF InOrder, Places
  <2>2. Stage(y, <<>>)
    BY <1>2, <1>7, <1>10 DEF Stage
  <2>3. Ascending(y, <<>>)
    BY <1>7, <1>10, <1>11 DEF Ascending, Places, END
  <2> QED
    BY <2>1, <2>2, <2>3 DEF Shape
<1>13. Gap(y, <<>>) = {} /\ Passed(y, <<>>) = {}
  <2>1. 0 \in Elements(y.bridge.queue)
    BY <1>10 DEF Elements, Places
  <2> QED
    BY <1>11, <2>1 DEF Gap, Passed, Places
<1>14. MayMiss(y, {})
  <2>1. Spared(y) \in Nat
    BY <1>7, SparedIsNumber
  <2> QED
    BY <2>1, FS_EmptySet DEF MayMiss
<1>15. Kept(y, seen[m].live, Connected(m)')
  BY <1>2, <1>12, <1>13, <1>14 DEF Kept
<1>16. x.task \notin Over /\ UNCHANGED <<seen, stored, thread>>
  BY <1>2 DEF Over, Accept
<1> QED
  BY <1>1, <1>3, <1>7, <1>8, <1>9, <1>15, <1>16, OneAnswer

\* The task says something.
LEMMA SaysKeeps == ASSUME Invariant, NEW m \in Message, Says(m) PROVE Invariant'
<1> DEFINE x == turn[m]
           y == Emitted(x, "content")
<1>1. /\ x \in Answer /\ Shape(x, seen[m].live) /\ x.task = "running" /\ seen[m] \in Reading
      /\ Kept(x, seen[m].live, Connected(m)) /\ Connected(m) \in BOOLEAN
      /\ seen[m].live \in Seq(Nat)
      /\ seen = [seen EXCEPT ![m] = seen[m]] /\ thread \in BOOLEAN
  BY Before DEF Says
<1>2. y \in Answer /\ y.recorded = Append(x.recorded, "content") /\ y.response = x.response
      /\ y.bridge = Published(x.bridge, Len(x.recorded), "content") /\ y.task = "running"
  BY <1>1, EmittedAnswer
<1>3. turn' = [turn EXCEPT ![m] = y]
  BY DEF Says
<1>4. x.task \notin Over /\ ~seen[m].caughtUp
  BY <1>1, Before DEF Over
<1> HIDE DEF y
<1>5. Kept(y, seen[m].live, Connected(m))
  BY <1>1, <1>2, EmitKeeps DEF Terminal
<1>6. UNCHANGED <<seen, stored, web, thread>>
  BY DEF Says
<1>7. web' \in Hook /\ \A k \in Message : Connected(k)' = Connected(k)
  BY <1>6, SameHook
<1>8. Kept(y, seen[m].live, Connected(m)')
  BY <1>5, <1>7
<1> QED
  BY <1>1, <1>2, <1>3, <1>4, <1>6, <1>7, <1>8, OneAnswer

\* The task ends.
LEMMA TaskEndsKeeps == ASSUME Invariant, NEW m \in Message, TaskEnds(m) PROVE Invariant'
<1> DEFINE x == turn[m]
<1>1. /\ x \in Answer /\ Shape(x, seen[m].live) /\ x.task = "running" /\ seen[m] \in Reading
      /\ Kept(x, seen[m].live, Connected(m)) /\ Connected(m) \in BOOLEAN
      /\ seen[m].live \in Seq(Nat)
      /\ seen = [seen EXCEPT ![m] = seen[m]] /\ thread \in BOOLEAN
  BY Before DEF TaskEnds
<1>2. x.task \notin Over /\ x.task # "none" /\ ~seen[m].caughtUp
  BY <1>1, Before DEF Over
<1>3. UNCHANGED <<seen, stored, web, thread>>
  BY DEF TaskEnds
<1>4. web' \in Hook /\ \A k \in Message : Connected(k)' = Connected(k)
  BY <1>3, SameHook
<1>5. ASSUME NEW kind \in Terminal, NEW task \in {"done", "raised"},
             turn' = [turn EXCEPT ![m] = [Emitted(x, kind) EXCEPT !.task = task]]
      PROVE  Invariant'
  <2> DEFINE e == Emitted(x, kind)
             y == [e EXCEPT !.task = task]
  <2>1. e \in Answer /\ e.recorded = Append(x.recorded, kind) /\ e.response = x.response
        /\ e.bridge = Published(x.bridge, Len(x.recorded), kind)
    BY <1>1, EmittedAnswer
  <2> HIDE DEF e
  <2>2. y \in Answer /\ y.recorded = e.recorded /\ y.response = e.response
        /\ y.bridge = e.bridge /\ y.task = task
    BY <2>1 DEF Answer, Task
  <2>3. turn' = [turn EXCEPT ![m] = y]
    BY <1>5 DEF e
  <2>4. task # "none" /\ task \in Over
    BY DEF Over
  <2> HIDE DEF y
  <2>5. Kept(y, seen[m].live, Connected(m))
    BY <1>1, <2>1, <2>2, <2>4, EmitKeeps, SMTT(30)
  <2>6. Kept(y, seen[m].live, Connected(m)')
    BY <1>4, <2>5
  <2> QED
    BY <1>1, <1>2, <1>3, <1>4, <2>2, <2>3, <2>6, OneAnswer
<1>6. ASSUME turn' = [turn EXCEPT ![m] = [x EXCEPT !.task = "raised"]]
      PROVE  Invariant'
  <2> DEFINE y == [x EXCEPT !.task = "raised"]
  <2>1. y \in Answer /\ y.recorded = x.recorded /\ y.response = x.response
        /\ y.bridge = x.bridge /\ y.task = "raised" /\ y.task \in Over
    BY <1>1 DEF Answer, Task, Over
  <2>2. turn' = [turn EXCEPT ![m] = y]
    BY <1>6
  <2> HIDE DEF y
  <2> QED
    BY <1>2, <1>3, <1>4, <2>1, <2>2, ChangeStep
<1>7. PICK ending \in Endings :
        turn' = [turn EXCEPT ![m] = [IF ending[2] = <<>> THEN x ELSE Emitted(x, ending[2][1])
                                       EXCEPT !.task = ending[1]]]
  BY DEF TaskEnds
<1>8. CASE ending = <<"raised", <<>>>>
  BY <1>6, <1>7, <1>8
<1>9. CASE \E kind \in Terminal, task \in {"done", "raised"} : ending = <<task, <<kind>>>>
  <2>1. PICK kind \in Terminal, task \in {"done", "raised"} : ending = <<task, <<kind>>>>
    BY <1>9
  <2>2. ending[1] = task /\ ending[2] = <<kind>> /\ ending[2][1] = kind /\ ending[2] # <<>>
    BY <2>1
  <2> QED
    BY <1>5, <1>7, <2>2
<1>10. ending = <<"raised", <<>>>>
       \/ \E kind \in Terminal, task \in {"done", "raised"} : ending = <<task, <<kind>>>>
  BY DEF Endings, Terminal
<1> QED
  BY <1>8, <1>9, <1>10

\* The bridge of a task that is over is closed.
LEMMA CloseBridgeKeeps == ASSUME Invariant, NEW m \in Message, CloseBridge(m) PROVE Invariant'
<1> DEFINE x == turn[m]
           y == [x EXCEPT !.bridge = Closed(@)]
<1>1. /\ x \in Answer /\ x.task \in Over /\ ~x.bridge.closed /\ seen[m] \in Reading
      /\ Kept(x, seen[m].live, Connected(m)) /\ Connected(m) \in BOOLEAN
      /\ seen[m].live \in Seq(Nat)
      /\ seen = [seen EXCEPT ![m] = seen[m]] /\ thread \in BOOLEAN
  BY Before DEF CloseBridge
<1>2. Closed(x.bridge) \in Bridge /\ Closed(x.bridge).closed
      /\ Closed(x.bridge).dropped = x.bridge.dropped
  BY <1>1, ClosedBridge DEF Answer
<1>3. /\ y \in Answer /\ y.recorded = x.recorded /\ y.task = x.task
      /\ y.response = x.response /\ y.bridge = Closed(x.bridge)
  BY <1>1, <1>2 DEF Answer
<1>4. turn' = [turn EXCEPT ![m] = y]
  BY DEF CloseBridge
<1> HIDE DEF y
<1>5. Kept(y, seen[m].live, Connected(m))
  BY <1>1, <1>3, CloseKeeps
<1>6. UNCHANGED <<seen, stored, web, thread>>
  BY DEF CloseBridge
<1>7. web' \in Hook /\ \A k \in Message : Connected(k)' = Connected(k)
  BY <1>6, SameHook
<1>8. Kept(y, seen[m].live, Connected(m)')
  BY <1>5, <1>7
<1>9. Spared(x) <= Spared(y)
  <2>1. Spared(y) = Spared(x) + 1
    BY <1>1, <1>2, <1>3 DEF Spared, One, Ended, Answer, Bridge
  <2>2. Spared(x) \in Nat
    BY <1>1, SparedIsNumber
  <2> QED
    BY <2>1, <2>2
<1>10. seen[m].caughtUp => /\ y.task \in Over /\ ~Connected(m)'
                           /\ MayMiss(y, All(y) \ (Elements(seen[m].live) \cup seen[m].replayed))
  BY <1>3, <1>7, <1>9, CaughtStays
<1> QED
  BY <1>1, <1>3, <1>4, <1>6, <1>7, <1>8, <1>10, OneAnswer

\* What taking from a bridge leaves is a bridge.
LEMMA TakenBridge ==
    ASSUME NEW b \in Bridge, b.queue # <<>>
    PROVE  [b EXCEPT !.queue = Tail(@)] \in Bridge
<1>1. Tail(b.queue) \in Seq(Int)
  BY DEF Bridge
<1> DEFINE rest == Tail(b.queue)
<1>2. [b EXCEPT !.queue = rest] = [queue |-> rest, closed |-> b.closed, dropped |-> b.dropped]
  BY BridgeWith
<1> HIDE DEF rest
<1>3. [b EXCEPT !.queue = rest] \in Bridge
  BY <1>1, <1>2 DEF Bridge, rest
<1> QED
  BY <1>3 DEF rest

\* The oldest event leaves for the reader, when the task is started or later.
LEMMA TakeStep ==
    ASSUME Invariant, NEW m \in Message, NEW y \in Answer,
           turn[m].bridge.queue # <<>>, Head(turn[m].bridge.queue) # END,
           turn' = [turn EXCEPT ![m] = y], Reads(m, Head(turn[m].bridge.queue)),
           UNCHANGED <<web, stored, thread>>,
           y.recorded = turn[m].recorded,
           y.bridge = [turn[m].bridge EXCEPT !.queue = Tail(@)],
           y.response \notin {"none", "asked", "ready"},
           y.task = turn[m].task \/ (turn[m].response = "ready" /\ y.task = "running")
    PROVE  Invariant'
<1> DEFINE x == turn[m]
           live == seen[m].live
           first == Head(x.bridge.queue)
           read == IF Connected(m) THEN Append(live, first) ELSE live
           r == [seen[m] EXCEPT !.live = read]
<1>1. /\ x \in Answer /\ Shape(x, live) /\ seen[m] \in Reading
      /\ Kept(x, live, Connected(m)) /\ Connected(m) \in BOOLEAN
      /\ live \in Seq(Nat) /\ seen \in [Message -> Reading]
      /\ seen = [seen EXCEPT ![m] = seen[m]] /\ thread \in BOOLEAN
  BY Before
<1>2. web' \in Hook /\ \A k \in Message : Connected(k)' = Connected(k)
  BY SameHook
<1>3. first \in Nat
  <2>1. x.bridge.queue \in Seq(Int) /\ x.bridge.queue # <<>> /\ Len(x.recorded) \in Nat
    BY <1>1 DEF Answer, Bridge
  <2>2. first = x.bridge.queue[1] /\ 1 \in Places(x.bridge.queue)
    BY <2>1 DEF Places
  <2>3. first \in All(x)
    BY <1>1, <2>2 DEF Shape, Ascending
  <2> QED
    BY <2>1, <2>3 DEF All
<1>4. read \in Seq(Nat)
  BY <1>1, <1>3
<1>5. r \in Reading /\ r.live = read /\ r.replayed = seen[m].replayed
      /\ r.caughtUp = seen[m].caughtUp
  <2> HIDE DEF read
  <2> QED
    BY <1>1, <1>4 DEF Reading
<1>6. seen' = [seen EXCEPT ![m] = r]
  <2>1. CASE Connected(m)
    BY <2>1 DEF Reads
  <2>2. CASE ~Connected(m)
    <3>1. r = seen[m]
      BY <1>1, <2>2 DEF Reading
    <3> QED
      BY <1>1, <2>2, <3>1 DEF Reads
  <2> QED
    BY <2>1, <2>2
<1> HIDE DEF r
<1>7. Kept(y, read, Connected(m))
  BY <1>1, <1>4, TakeKeeps, ZenonT(30)
<1>8. Kept(y, r.live, Connected(m)')
  BY <1>2, <1>5, <1>7
<1>9. Spared(x) <= Spared(y)
  <2>1. y.bridge.dropped = x.bridge.dropped /\ y.bridge.closed = x.bridge.closed
    BY <1>1 DEF Answer, Bridge
  <2>2. Spared(y) = Spared(x) /\ Spared(x) \in Nat
    BY <1>1, <2>1, SparedIsNumber DEF Spared, Ended
  <2> QED
    BY <2>2
<1>10. x.task \in Over => y.task \in Over
  BY <1>1 DEF Shape, Stage, Over
<1>11. r.caughtUp => /\ y.task \in Over /\ ~Connected(m)'
                     /\ MayMiss(y, All(y) \ (Elements(r.live) \cup r.replayed))
  <2> SUFFICES ASSUME seen[m].caughtUp
               PROVE  /\ y.task \in Over /\ ~Connected(m)'
                      /\ MayMiss(y, All(y) \ (Elements(r.live) \cup r.replayed))
    BY <1>5
  <2>1. ~Connected(m)
    BY Before DEF CaughtUp
  <2>2. r.live = live
    BY <1>5, <2>1
  <2> QED
    BY <1>2, <1>5, <1>9, <1>10, <2>2, CaughtStays
<1>12. thread' \in BOOLEAN
  BY <1>1
<1> QED
  BY <1>2, <1>5, <1>6, <1>8, <1>10, <1>11, <1>12, OneAnswer

\* The task is started, and what was in the queue is read.
LEMMA StartKeeps == ASSUME Invariant, NEW m \in Message, Start(m) PROVE Invariant'
<1> DEFINE x == turn[m]
           b == [x.bridge EXCEPT !.queue = Tail(@)]
           y == [Taken(x) EXCEPT !.response = "serving", !.task = "running"]
<1>1. x \in Answer /\ Shape(x, seen[m].live) /\ x.response = "ready"
  BY Before DEF Start
<1>2. x.bridge.queue = <<0>>
  BY <1>1 DEF Shape, Stage
<1>3. x.bridge.queue # <<>> /\ Head(x.bridge.queue) # END
  BY <1>2 DEF END
<1>4. b \in Bridge
  BY <1>1, <1>3, TakenBridge DEF Answer
<1>5. /\ y \in Answer /\ y.recorded = x.recorded /\ y.bridge = b
      /\ y.response = "serving" /\ y.task = "running"
  <2>1. Taken(x) = [x EXCEPT !.bridge = b]
    BY DEF Taken
  <2> HIDE DEF b
  <2> QED
    BY <1>1, <1>4, <2>1 DEF Answer, Response, Task
<1>6. turn' = [turn EXCEPT ![m] = y]
  BY DEF Start
<1> HIDE DEF y
<1> QED
  BY <1>1, <1>3, <1>5, <1>6, TakeStep DEF Start

\* An event is delivered.
LEMMA DeliverKeeps == ASSUME Invariant, NEW m \in Message, Deliver(m) PROVE Invariant'
<1> DEFINE x == turn[m]
           b == [x.bridge EXCEPT !.queue = Tail(@)]
           y == Taken(x)
<1>1. /\ x \in Answer /\ Shape(x, seen[m].live) /\ x.response = "serving"
      /\ x.bridge.queue # <<>> /\ Head(x.bridge.queue) # END
  BY Before DEF Deliver
<1>2. b \in Bridge
  BY <1>1, TakenBridge DEF Answer
<1>3. /\ y \in Answer /\ y.recorded = x.recorded /\ y.bridge = b
      /\ y.response = "serving" /\ y.task = x.task
  <2>1. y = [x EXCEPT !.bridge = b]
    BY DEF Taken
  <2> HIDE DEF b, y
  <2> QED
    BY <1>1, <1>2, <2>1 DEF Answer
<1>4. turn' = [turn EXCEPT ![m] = y]
  BY DEF Deliver
<1> HIDE DEF y
<1> QED
  BY <1>1, <1>3, <1>4, TakeStep DEF Deliver

\* The sentinel ends the body: who holds the line has read to the end.
LEMMA EndBodyKeeps == ASSUME Invariant, NEW m \in Message, EndBody(m) PROVE Invariant'
<1> DEFINE x == turn[m]
           live == seen[m].live
           b == [x.bridge EXCEPT !.queue = Tail(@)]
           ending == IF x.task = "raised" THEN "broken" ELSE "complete"
           y == [Taken(x) EXCEPT !.response = ending]
           r == [seen[m] EXCEPT !.caughtUp = IF Connected(m) THEN TRUE ELSE @]
<1>1. /\ x \in Answer /\ Shape(x, live) /\ seen[m] \in Reading /\ live \in Seq(Nat)
      /\ x.response = "serving" /\ x.bridge.queue # <<>> /\ Head(x.bridge.queue) = END
      /\ Kept(x, live, Connected(m)) /\ Connected(m) \in BOOLEAN /\ web \in Hook
      /\ seen \in [Message -> Reading] /\ seen = [seen EXCEPT ![m] = seen[m]]
      /\ thread \in BOOLEAN
  BY Before DEF EndBody
<1>2. x.bridge \in Bridge /\ x.bridge.queue \in Seq(Int) /\ Len(x.bridge.queue) \in Nat
  BY <1>1 DEF Answer, Bridge
<1>3. 1 \in Places(x.bridge.queue) /\ x.bridge.queue[1] = END
  BY <1>1, <1>2 DEF Places
<1>4. Len(x.bridge.queue) = 1 /\ x.bridge.closed
  BY <1>1, <1>3 DEF Shape, Ascending
<1>5. x.task \in Over
  BY <1>1, <1>4 DEF Shape, Stage
<1>6. Tail(x.bridge.queue) = <<>>
  <2> DEFINE q == x.bridge.queue
  <2>1. q \in Seq(Int) /\ q # <<>> /\ Len(q) = 1
    BY <1>1, <1>2, <1>4
  <2> HIDE DEF q
  <2>2. Tail(q) \in Seq(Int) /\ Len(Tail(q)) = 0
    BY <2>1, SMT
  <2>3. Tail(q) = <<>>
    BY <2>2, EmptySeq
  <2> QED
    BY <2>3 DEF q
<1>7. b \in Bridge /\ b.queue = <<>> /\ b.closed /\ b.dropped = x.bridge.dropped
  <2>1. b \in Bridge
    BY <1>1, <1>2, TakenBridge
  <2> QED
    BY <1>2, <1>4, <1>6, <2>1 DEF Bridge
<1>8. /\ y \in Answer /\ y.recorded = x.recorded /\ y.bridge = b /\ y.task = x.task
      /\ y.response \in {"broken", "complete"}
  <2>1. Taken(x) = [x EXCEPT !.bridge = b]
    BY DEF Taken
  <2> HIDE DEF b
  <2> QED
    BY <1>1, <1>7, <2>1 DEF Answer, Response
<1>9. turn' = [turn EXCEPT ![m] = y]
  BY DEF EndBody
<1>10. web' \in Hook /\ ~Connected(m)' /\ \A k \in Message \ {m} : Connected(k)' => Connected(k)
  <2>1. CASE ~Connected(m)
    <3>1. web' = web
      BY <2>1 DEF EndBody
    <3> QED
      BY <1>1, <2>1, <3>1 DEF Connected
  <2>2. CASE Connected(m)
    <3>1. web' \in {Resuming, [web EXCEPT !.connection = "closed", !.at = "nothing"]}
      BY <2>2 DEF EndBody
    <3>2. Resuming \in Hook
      BY <1>1, ResumingHook
    <3>3. [web EXCEPT !.connection = "closed", !.at = "nothing"] \in Hook
      BY <1>1 DEF Hook, Connection
    <3>4. web'.at \notin {"response", "body"}
      BY <1>1, <3>1 DEF Resuming, Hook
    <3> QED
      BY <3>1, <3>2, <3>3, <3>4 DEF Connected
  <2> QED
    BY <2>1, <2>2
<1>11. r \in Reading /\ r.live = live /\ r.replayed = seen[m].replayed
       /\ r.caughtUp = (IF Connected(m) THEN TRUE ELSE seen[m].caughtUp)
  BY <1>1 DEF Reading
<1>12. seen' = [seen EXCEPT ![m] = r]
  <2>1. CASE Connected(m)
    BY <2>1 DEF EndBody
  <2>2. CASE ~Connected(m)
    <3>1. r = seen[m]
      BY <1>1, <2>2 DEF Reading
    <3> QED
      BY <1>1, <2>2, <3>1 DEF EndBody
  <2> QED
    BY <2>1, <2>2
<1> HIDE DEF y, r, b
<1>13. All(y) = All(x) /\ Spared(y) = Spared(x) /\ Spared(x) <= Spared(y)
  <2>1. All(y) = All(x) /\ Spared(y) = Spared(x) /\ Spared(x) \in Nat
    BY <1>1, <1>4, <1>7, <1>8, SparedIsNumber DEF All, Spared, Ended
  <2> QED
    BY <2>1
<1>14. Passed(y, live) = Passed(x, live)
  BY <1>13 DEF Passed
<1>15. Shape(y, live)
  <2>1. InOrder(y)
    BY <1>1, <1>8 DEF Shape, InOrder
  <2>2. Stage(y, live)
    BY <1>1, <1>5, <1>8 DEF Shape, Stage
  <2>3. y.bridge.queue = <<>>
    BY <1>7, <1>8
  <2>4. Ascending(y, live)
    BY <1>1, <1>13, <2>3 DEF Shape, Ascending, Places
  <2> QED
    BY <2>1, <2>2, <2>4 DEF Shape
<1>16. Kept(y, r.live, Connected(m)')
  BY <1>1, <1>8, <1>10, <1>11, <1>13, <1>14, <1>15 DEF Kept, MayMiss
<1>17. r.caughtUp => /\ y.task \in Over /\ ~Connected(m)'
                     /\ MayMiss(y, All(y) \ (Elements(r.live) \cup r.replayed))
  <2>1. CASE ~Connected(m)
    <3> SUFFICES ASSUME seen[m].caughtUp
                 PROVE  MayMiss(y, All(y) \ (Elements(live) \cup seen[m].replayed))
      BY <1>5, <1>8, <1>10, <1>11, <2>1
    <3> QED
      BY <1>5, <1>8, <1>10, <1>13, CaughtStays
  <2>2. CASE Connected(m)
    <3>1. \A k \in All(x) : k \notin Elements(x.bridge.queue)
      <4>1. Elements(x.bridge.queue) = {END}
        BY <1>3, <1>4 DEF Elements, Places
      <4> QED
        BY <1>1, <4>1 DEF All, END, Answer
    <3>2. All(y) \ (Elements(r.live) \cup r.replayed) \subseteq Gap(x, live)
      BY <1>11, <1>13, <3>1 DEF Gap
    <3>3. MayMiss(x, Gap(x, live)) /\ Gap(x, live) \subseteq All(x)
      BY <1>1, <2>2 DEF Kept, Gap
    <3>4. MayMiss(y, All(y) \ (Elements(r.live) \cup r.replayed))
      BY <1>1, <1>8, <1>13, <3>2, <3>3, MissLess
    <3> QED
      BY <1>5, <1>8, <1>10, <3>4
  <2> QED
    BY <2>1, <2>2
<1>18. x.task \in Over => y.task \in Over
  BY <1>8
<1>19. UNCHANGED <<stored, thread>>
  BY DEF EndBody
<1>20. thread' \in BOOLEAN
  BY <1>1, <1>19
<1> QED
  BY <1>8, <1>9, <1>10, <1>11, <1>12, <1>16, <1>17, <1>18, <1>19, <1>20, OneAnswer

\* A transcript is kept of an answer that is over.
LEMMA StoreKeeps == ASSUME Invariant, NEW m \in Message, Store(m) PROVE Invariant'
<1>1. web' \in Hook /\ thread' \in BOOLEAN /\ \A k \in Message : Connected(k)' = Connected(k)
  BY SameHook DEF Store
<1>2. stored' \subseteq Message /\ \A k \in stored' : turn[k].task \in Over
  BY Types DEF Store, Invariant, Stored
<1> QED
  BY <1>1, <1>2, NoAnswer DEF Store

\* A replay tells everything after the cursor, or everything.
LEMMA ReplayKeeps == ASSUME Invariant, NEW m \in Message, Replay(m) PROVE Invariant'
<1> DEFINE x == turn[m]
           live == seen[m].live
<1>1. /\ x \in Answer /\ Shape(x, live) /\ seen[m] \in Reading /\ live \in Seq(Nat)
      /\ Kept(x, live, Connected(m)) /\ Connected(m) \in BOOLEAN /\ ~Connected(m)
      /\ x.task \in Over /\ turn \in [Message -> Answer] /\ thread \in BOOLEAN
  BY Before DEF Replay, Invariant, Stored
<1>2. PICK query \in {-1, Cursor(m)}, header \in {-1, Cursor(m)} :
        seen' = [seen EXCEPT ![m].caughtUp = TRUE,
                             ![m].replayed = Since(x.recorded, ResumeFrom(query, header))]
  BY DEF Replay
<1> DEFINE cursor == ResumeFrom(query, header)
           told == Since(x.recorded, cursor)
           r == [seen[m] EXCEPT !.caughtUp = TRUE, !.replayed = told]
<1>3. cursor = -1 \/ cursor = Cursor(m)
  BY <1>2 DEF ResumeFrom
<1>4. \A k \in All(x) : k \in Nat
  BY <1>1 DEF All, Answer
<1>5. \A k \in All(x) : k \in Elements(live) \/ k \in told \/ k \in Passed(x, live)
  <2> SUFFICES ASSUME NEW k \in All(x), k \notin Elements(live), k \notin told
               PROVE  \E i \in Places(live) : k < live[i]
    BY DEF Passed
  <2>1. ~(k > cursor)
    BY DEF Since, All
  <2>2. live # <<>> /\ cursor = live[Len(live)]
    BY <1>3, <1>4, <2>1 DEF Cursor, Last
  <2>3. Len(live) \in Places(live) /\ live[Len(live)] \in Nat
    BY <1>1, <2>2 DEF Places
  <2>4. k # live[Len(live)]
    BY <2>3 DEF Elements
  <2> QED
    BY <1>4, <2>1, <2>2, <2>3, <2>4
<1>6. told \subseteq Nat
  BY <1>1 DEF Since, Answer
<1>7. r \in Reading /\ r.live = live /\ r.replayed = told
  BY <1>1, <1>6 DEF Reading
<1>8. seen' = [seen EXCEPT ![m] = r]
  BY <1>2
<1> HIDE DEF r, told
<1>9. web' \in Hook /\ thread' \in BOOLEAN /\ \A k \in Message : Connected(k)' = Connected(k)
  BY SameHook DEF Replay
<1>10. turn' = [turn EXCEPT ![m] = x]
  BY <1>1 DEF Replay
<1>11. Passed(x, live) \subseteq All(x) /\ All(x) \ (Elements(live) \cup told) \subseteq Passed(x, live)
  BY <1>5 DEF Passed
<1>12. MayMiss(x, All(x) \ (Elements(live) \cup told))
  <2>1. Spared(x) <= Spared(x)
    BY <1>1, SparedIsNumber
  <2>2. MayMiss(x, Passed(x, live))
    BY <1>1 DEF Kept
  <2> QED
    BY <1>1, <1>11, <2>1, <2>2, MissLess
<1>13. Kept(x, r.live, Connected(m)')
  BY <1>1, <1>7, <1>9
<1>14. stored' = stored
  BY DEF Replay
<1> QED
  BY <1>1, <1>7, <1>8, <1>9, <1>10, <1>12, <1>13, <1>14, OneAnswer

-----------------------------------------------------------------------------
\* What the reader of an answer may rely on is kept by every step: what was read
\* ascends, and what is neither read nor waiting is content, of a counted amount.
THEOREM StreamInductive ==
    /\ Init => Invariant
    /\ Invariant /\ [Next]_vars => Invariant'
<1>1. ASSUME Invariant, Next PROVE Invariant'
  <2>1. CASE Stop \/ LineBreaks \/ ReconnectFails \/ ReconnectRefused \/ DeleteThread
    BY <1>1, <2>1, HookKeeps
  <2>2. CASE \E m \in Message : Send(m) \/ Accept(m) \/ Refuse(m)
    BY <1>1, <2>2, SendKeeps, AcceptKeeps, RefuseKeeps
  <2>3. CASE \E m \in Message : Start(m) \/ Deliver(m) \/ EndBody(m) \/ Leave(m) \/ Left(m)
    BY <1>1, <2>3, StartKeeps, DeliverKeeps, EndBodyKeeps, LeaveKeeps, LeftKeeps
  <2>4. CASE \E m \in Message : Says(m) \/ TaskEnds(m) \/ TaskCancelled(m) \/ CloseBridge(m)
    BY <1>1, <2>4, SaysKeeps, TaskEndsKeeps, TaskCancelledKeeps, CloseBridgeKeeps
  <2>5. CASE \E m \in Message : Store(m) \/ Replay(m)
    BY <1>1, <2>5, StoreKeeps, ReplayKeeps
  <2> QED
    BY <1>1, <2>1, <2>2, <2>3, <2>4, <2>5 DEF Next
<1>2. ASSUME Invariant, UNCHANGED vars PROVE Invariant'
  <2>1. web' \in Hook /\ thread' \in BOOLEAN /\ \A k \in Message : Connected(k)' = Connected(k)
    BY <1>2, SameHook DEF vars
  <2>2. stored' \subseteq Message /\ \A k \in stored' : turn[k].task \in Over
    BY <1>2, Types DEF Invariant, Stored, vars
  <2> QED
    BY <1>2, <2>1, <2>2, NoAnswer DEF vars
<1> QED
  BY <1>1, <1>2, InitKeeps

\* The variables keep their types.
THEOREM TypeCorrect == Spec => []TypeOK
<1>1. Invariant => TypeOK
  BY DEF Invariant
<1> QED
  BY <1>1, StreamInductive, PTL DEF Spec

\* A reader who has read to an end has missed only content, as much of it as the
\* bridge has counted and two events at most: MissesOnlyContent, for any messages,
\* capacity and length of answers.
THEOREM ReaderMissesOnlyContent == Spec => []MissesOnlyContent
<1>1. ASSUME Invariant PROVE MissesOnlyContent
  <2> SUFFICES ASSUME NEW m \in Message
               PROVE  LET missing == Numbers(m) \ Received(m)
                      IN  /\ \A i, j \in 1..Len(seen[m].live) :
                                 i < j => seen[m].live[i] < seen[m].live[j]
                          /\ seen[m].caughtUp =>
                                 /\ \A n \in missing : KindOf(m, n) = "content"
                                 /\ Cardinality(missing) <= turn[m].bridge.dropped + 2
    BY DEF MissesOnlyContent
  <2>1. turn[m] \in Answer /\ CaughtUp(m) /\ Shape(turn[m], seen[m].live)
    BY <1>1, Before
  <2>2. \A i, j \in 1..Len(seen[m].live) : i < j => seen[m].live[i] < seen[m].live[j]
    BY <2>1 DEF Shape, Ascending, Places
  <2>3. turn[m].bridge.dropped \in Nat
    BY <2>1 DEF Answer, Bridge
  <2>4. Spared(turn[m]) <= turn[m].bridge.dropped + 2
    BY <2>3 DEF Spared, One
  <2>5. Cardinality(Numbers(m) \ Received(m)) \in Nat
    <3>1. Numbers(m) \ Received(m) \subseteq All(turn[m])
      BY DEF Numbers, All
    <3> QED
      BY <2>1, <3>1, FinitelyMany
  <2>6. Spared(turn[m]) \in Nat
    BY <2>1, SparedIsNumber
  <2>7. seen[m].caughtUp =>
          /\ \A n \in Numbers(m) \ Received(m) : KindOf(m, n) = "content"
          /\ Cardinality(Numbers(m) \ Received(m)) <= turn[m].bridge.dropped + 2
    BY <2>1, <2>3, <2>4, <2>5, <2>6 DEF CaughtUp, MayMiss, KindOf
  <2> QED
    BY <2>2, <2>7
<1> QED
  BY <1>1, StreamInductive, PTL DEF Spec

--------------------------------------------------------------------------------
(* The turn itself, and its tenant's allowance. *)

-----------------------------------------------------------------------------
(* Types *)

TurnTypeOK ==
    /\ allowance \in Allowance
    /\ turns \in [Turn -> TurnState]
    /\ late \subseteq Turn /\ settled \subseteq Turn
    /\ stream \in [Turn -> {"open", "done", "error"}]

LEMMA LoopHeadType ==
    ASSUME NEW x \in TurnState, NEW isLate \in BOOLEAN
    PROVE  /\ LoopHead(x, isLate) \in TurnState
           /\ LoopHead(x, isLate).pc \in {"settling", "calling"}
           /\ LoopHead(x, isLate).claim = x.claim /\ LoopHead(x, isLate).tokens = x.tokens
           /\ LoopHead(x, isLate).cancel = x.cancel
BY DEF LoopHead, Stops, TurnState, Awaiting, TaskEnded, Phase, Reason

LEMMA NextToolType ==
    ASSUME NEW x \in TurnState, NEW n \in Nat, NEW isLate \in BOOLEAN
    PROVE  /\ NextTool(x, n, isLate) \in TurnState
           /\ NextTool(x, n, isLate).pc \in {"settling", "calling", "tool"}
           /\ NextTool(x, n, isLate).claim = x.claim
           /\ NextTool(x, n, isLate).tokens = x.tokens
<1>1. CASE n = 0 \/ x.cancel
  <2> DEFINE y == [x EXCEPT !.left = 0]
  <2>1. y \in TurnState /\ y.cancel = x.cancel /\ y.claim = x.claim /\ y.tokens = x.tokens
    BY DEF TurnState
  <2>2. NextTool(x, n, isLate) = LoopHead(y, isLate)
    BY <1>1 DEF NextTool
  <2> HIDE DEF y
  <2> QED
    BY <2>1, <2>2, LoopHeadType
<1>2. CASE ~(n = 0 \/ x.cancel)
  <2>1. n - 1 \in Nat /\ NextTool(x, n, isLate) = [x EXCEPT !.pc = "tool", !.left = n - 1]
    BY <1>2 DEF NextTool
  <2> QED
    BY <1>2, <2>1 DEF TurnState, Awaiting
<1> QED
  BY <1>1, <1>2

LEMMA RecordedType ==
    ASSUME NEW x \in TurnState, NEW cost \in Nat
    PROVE  /\ Recorded(x, cost) \in TurnState
           /\ Recorded(x, cost).claim = x.claim /\ Recorded(x, cost).cancel = x.cancel
<1>1. x.iterations + 1 \in Nat /\ x.tokens + cost \in Nat
  BY DEF TurnState
<1> QED
  BY <1>1 DEF Recorded, TurnState

LEMMA StopsType ==
    ASSUME NEW x \in TurnState, NEW phase \in Phase, NEW reason \in Reason,
           NEW pc \in {"none"} \cup Awaiting \cup TaskEnded
    PROVE  /\ Stops(x, phase, reason, pc) \in TurnState
           /\ Stops(x, phase, reason, pc).pc = pc
           /\ Stops(x, phase, reason, pc).claim = x.claim
           /\ Stops(x, phase, reason, pc).tokens = x.tokens
           /\ Stops(x, phase, reason, pc).cancel = x.cancel
BY DEF Stops, TurnState

LEMMA RaisesType ==
    ASSUME NEW x \in TurnState
    PROVE  /\ Raises(x) \in TurnState /\ Raises(x).pc = "raising"
           /\ Raises(x).claim = x.claim /\ Raises(x).tokens = x.tokens
BY DEF Raises, Stops, TurnState, Awaiting, Phase, Reason

\* What a granted reservation claims fits the policy, and the limit unless the policy
\* lets it pass.
LEMMA ClaimFits ==
    ASSUME NEW a \in Allowance, NEW needed \in Nat \ {0}, Granted(a, needed)
    PROVE  /\ Claim(a, needed) \in Nat
           /\ a.on_exhaustion # "allow" /\ Claim(a, needed) # 0
                => a.consumed + a.reserved + Claim(a, needed) <= Limit
           /\ Reserve(a, Claim(a, needed)) =
                [consumed |-> a.consumed, reserved |-> a.reserved + Claim(a, needed),
                 on_exhaustion |-> a.on_exhaustion]
BY QuotaAssumption DEF Allowance, Exhaustion, Granted, CanAfford, Available, AtLeastZero, Claim,
                       Reserve

\* A turn has claimed nothing before its reservation; a settled one, and one whose stream
\* has ended, has ended.
TurnStages ==
    \A t \in Turn :
        /\ turns[t].pc \in {"none", "reserving"} => turns[t].claim = 0
        /\ t \in settled \/ stream[t] # "open" => turns[t].pc \in TaskEnded

TurnInv ==
    TurnTypeOK /\ TurnStages /\ AllowanceIsAccounted /\ NoCollectiveOverrun

\* What a step does to turn t: what it has claimed stays, and it does not come back.
GoesTo(t, x) ==
    /\ x \in TurnState /\ turns' = [turns EXCEPT ![t] = x]
    /\ x.pc # "none"
    /\ x.pc = "reserving" => turns[t].pc = "none"

\* A step between two calls to the gate, or a call that stores nothing.
Works(t) ==
    /\ UNCHANGED <<allowance, settled>> /\ turns[t].pc \notin TaskEnded
    /\ \E x : GoesTo(t, x) /\ x.claim = turns[t].claim
    /\ \/ turns'[t].pc \notin {"over", "raised"} /\ UNCHANGED stream
       \/ /\ turns[t].pc = "reserving" /\ turns'[t].pc = "over"
          /\ stream' = [stream EXCEPT ![t] = "error"]

\* The gate grants a reservation, whether the turn hears of it or not.
Reserves(t) ==
    /\ turns[t].pc = "reserving" /\ UNCHANGED <<settled, stream>>
    /\ Granted(allowance, PromptTokens + MaxTokens)
    /\ allowance' = Reserve(allowance, Claim(allowance, PromptTokens + MaxTokens))
    /\ \E x : /\ GoesTo(t, x) /\ x.claim = Claim(allowance, PromptTokens + MaxTokens)
              /\ x.pc \notin {"reserving", "over", "raised"}

\* The gate stores a settlement, whether the turn hears of it or not.
Settles(t) ==
    /\ turns[t].pc \in {"settling", "raising"} /\ SettlementStored(t, turns[t].tokens)
    /\ \E x : /\ GoesTo(t, x) /\ x.claim = turns[t].claim /\ x.tokens = turns[t].tokens
              /\ x.pc \in TaskEnded
    /\ \/ UNCHANGED stream
       \/ turns'[t].pc = AfterSettling(t) /\ EndsStream(t)

LEMMA Working ==
    ASSUME TurnTypeOK, NEW t \in Turn, UNCHANGED <<allowance, settled, stream>>,
           NEW x \in TurnState, turns' = [turns EXCEPT ![t] = x],
           x.claim = turns[t].claim,
           turns[t].pc \in {"reserving", "calling", "tool", "settling", "raising"},
           x.pc \in {"calling", "tool", "settling", "raising", "dropped", "unsettled", "unreserved"}
    PROVE  Works(t)
BY DEF TurnTypeOK, Works, GoesTo, TaskEnded

LEMMA GateWorks ==
    ASSUME TurnTypeOK, NEW t \in Turn, Begin(t) \/ Blocked(t) \/ ReserveRaises(t)
    PROVE  Works(t)
<1>1. turns[t] \in TurnState /\ turns \in [Turn -> TurnState]
  BY DEF TurnTypeOK
<1>2. CASE Begin(t)
  <2> DEFINE x == [turns[t] EXCEPT !.pc = "reserving"]
  <2>1. x \in TurnState /\ x.claim = turns[t].claim /\ x.pc = "reserving"
    BY <1>1 DEF TurnState, Awaiting
  <2>2. turns' = [turns EXCEPT ![t] = x]
    BY <1>2 DEF Begin
  <2> HIDE DEF x
  <2> QED
    BY <1>1, <1>2, <2>1, <2>2 DEF Begin, Works, GoesTo, TaskEnded
<1>3. CASE Blocked(t)
  <2> DEFINE x == Stops(turns[t], "failed", "error", "over")
  <2>1. x \in TurnState /\ x.claim = turns[t].claim /\ x.pc = "over"
    BY <1>1, StopsType DEF Phase, Reason, TaskEnded
  <2>2. turns' = [turns EXCEPT ![t] = x]
    BY <1>3 DEF Blocked
  <2> HIDE DEF x
  <2> QED
    BY <1>1, <1>3, <2>1, <2>2 DEF Blocked, Works, GoesTo, TaskEnded
<1>4. CASE ReserveRaises(t)
  <2> DEFINE x == [turns[t] EXCEPT !.pc = "unreserved"]
  <2>1. x \in TurnState /\ x.claim = turns[t].claim /\ x.pc = "unreserved"
    BY <1>1 DEF TurnState, TaskEnded
  <2>2. turns' = [turns EXCEPT ![t] = x]
    BY <1>4 DEF ReserveRaises
  <2> HIDE DEF x
  <2> QED
    BY <1>4, <2>1, <2>2, Working DEF ReserveRaises
<1> QED
  BY <1>2, <1>3, <1>4

LEMMA ModelWorks ==
    ASSUME TurnTypeOK, NEW t \in Turn, ModelAnswers(t)
    PROVE  Works(t)
<1>1. turns[t] \in TurnState /\ turns \in [Turn -> TurnState] /\ CallCost \subseteq Nat
      /\ (t \in late) \in BOOLEAN
  BY BudgetAssumption DEF TurnTypeOK
<1>2. ASSUME NEW cost \in CallCost, FinalAnswer(t, cost)
      PROVE  Works(t)
  <2> DEFINE y == Recorded(turns[t], cost)
  <2>1. y \in TurnState /\ y.claim = turns[t].claim
    BY <1>1, RecordedType
  <2> HIDE DEF y
  <2>2. CASE Moves(turns[t], "completed")
    <3> DEFINE x == Stops(y, "completed", "answered", "settling")
    <3>1. turns' = [turns EXCEPT ![t] = x]
      BY <1>2, <2>2 DEF FinalAnswer, y
    <3>2. x \in TurnState /\ x.claim = turns[t].claim /\ x.pc = "settling"
      BY <2>1, StopsType DEF Phase, Reason, Awaiting
    <3> HIDE DEF x
    <3> QED
      BY <1>2, <3>1, <3>2, Working DEF FinalAnswer
  <2>3. CASE ~Moves(turns[t], "completed")
    <3>1. turns' = [turns EXCEPT ![t] = Raises(y)]
      BY <1>2, <2>3 DEF FinalAnswer, y
    <3> QED
      BY <1>2, <2>1, <3>1, RaisesType, Working DEF FinalAnswer
  <2> QED
    BY <2>2, <2>3
<1>3. ASSUME NEW cost \in CallCost, NEW n \in 0..MaxTools, ToolsWanted(t, cost, n)
      PROVE  Works(t)
  <2> DEFINE y == Recorded(turns[t], cost)
  <2>1. y \in TurnState /\ y.claim = turns[t].claim
    BY <1>1, RecordedType
  <2> DEFINE acting == [y EXCEPT !.phase = "acting"]
  <2> HIDE DEF y
  <2>2. acting \in TurnState /\ acting.claim = y.claim
    BY <2>1 DEF TurnState, Phase
  <2>3. PICK z \in TurnState : z = acting /\ z.claim = turns[t].claim
    BY <2>1, <2>2
  <2>4. n \in Nat
    BY BudgetAssumption
  <2>5. CASE Moves(turns[t], "acting")
    <3> DEFINE x == NextTool(z, n, t \in late)
    <3>1. turns' = [turns EXCEPT ![t] = x]
      BY <1>3, <2>3, <2>5 DEF ToolsWanted, y
    <3>2. /\ x \in TurnState /\ x.claim = turns[t].claim
          /\ x.pc \in {"settling", "calling", "tool"}
      BY <1>1, <2>3, <2>4, NextToolType
    <3> HIDE DEF x
    <3> QED
      BY <1>3, <3>1, <3>2, Working DEF ToolsWanted
  <2>6. CASE ~Moves(turns[t], "acting")
    <3>1. turns' = [turns EXCEPT ![t] = Raises(y)]
      BY <1>3, <2>6 DEF ToolsWanted, y
    <3> QED
      BY <1>3, <2>1, <3>1, RaisesType, Working DEF ToolsWanted
  <2> QED
    BY <2>5, <2>6
<1>4. CASE CallRaises(t, "calling")
  BY <1>1, <1>4, RaisesType, Working DEF CallRaises
<1> QED
  BY <1>2, <1>3, <1>4 DEF ModelAnswers

LEMMA ToolWorks ==
    ASSUME TurnTypeOK, NEW t \in Turn, ToolEnds(t)
    PROVE  Works(t)
<1>1. turns[t] \in TurnState /\ turns[t].left \in Nat /\ (t \in late) \in BOOLEAN
  BY DEF TurnTypeOK, TurnState
<1>2. CASE ToolReturns(t)
  BY <1>1, <1>2, NextToolType, Working DEF ToolReturns
<1>3. CASE CallRaises(t, "tool")
  BY <1>1, <1>3, RaisesType, Working DEF CallRaises
<1> QED
  BY <1>2, <1>3 DEF ToolEnds

\* Asking a turn to stop leaves it where it awaits.
Asks(t) ==
    /\ UNCHANGED <<allowance, settled, stream>>
    /\ \E x \in TurnState : /\ turns' = [turns EXCEPT ![t] = x]
                            /\ x.pc = turns[t].pc /\ x.claim = turns[t].claim
                            /\ x.tokens = turns[t].tokens

LEMMA CancelAsks ==
    ASSUME TurnTypeOK, NEW t \in Turn, RequestCancel(t)
    PROVE  Asks(t)
<1> DEFINE x == [turns[t] EXCEPT !.cancel = TRUE, !.phase = "cancelling"]
<1>1. turns[t] \in TurnState /\ turns \in [Turn -> TurnState]
  BY DEF TurnTypeOK
<1>2. x \in TurnState /\ x.pc = turns[t].pc /\ x.claim = turns[t].claim
      /\ x.tokens = turns[t].tokens
  BY <1>1 DEF TurnState, Phase
<1>3. turns' = [turns EXCEPT ![t] = x]
  BY <1>1 DEF RequestCancel
<1> QED
  BY <1>2, <1>3 DEF RequestCancel, Asks

LEMMA UnwoundType ==
    ASSUME NEW x \in TurnState
    PROVE  /\ Unwound(x) \in TurnState /\ Unwound(x).pc = "dropped"
           /\ Unwound(x).claim = x.claim /\ Unwound(x).tokens = x.tokens
BY DEF Unwound, Stops, TurnState, TaskEnded, Phase, Reason

LEMMA DroppedWorksOrSettles ==
    ASSUME TurnTypeOK, NEW t \in Turn, TaskDropped(t)
    PROVE  Works(t) \/ Settles(t)
<1>1. turns[t] \in TurnState /\ turns[t].pc \in Awaiting
      /\ turns' = [turns EXCEPT ![t] = Unwound(turns[t])] /\ UNCHANGED stream
      /\ turns'[t] = Unwound(turns[t])
  BY DEF TurnTypeOK, TaskDropped
<1>2. CASE UNCHANGED <<allowance, settled>>
  BY <1>1, <1>2, UnwoundType, Working DEF Awaiting
<1>3. CASE turns[t].pc \in {"settling", "raising"} /\ SettlementStored(t, turns[t].tokens)
  <2>1. GoesTo(t, Unwound(turns[t])) /\ "dropped" \in TaskEnded
    BY <1>1, UnwoundType DEF GoesTo, TaskEnded
  <2> QED
    BY <1>1, <1>3, <2>1, UnwoundType DEF Settles
<1> QED
  BY <1>2, <1>3 DEF TaskDropped

LEMMA RaisingWorksOrSettles ==
    ASSUME TurnTypeOK, NEW t \in Turn, SettleRaises(t)
    PROVE  Works(t) \/ Settles(t)
<1> DEFINE x == [turns[t] EXCEPT !.pc = "unsettled"]
<1>1. turns[t] \in TurnState /\ turns \in [Turn -> TurnState]
  BY DEF TurnTypeOK
<1>2. /\ x \in TurnState /\ x.pc = "unsettled" /\ x.pc \in TaskEnded
      /\ x.claim = turns[t].claim /\ x.tokens = turns[t].tokens
  BY <1>1 DEF TurnState, TaskEnded
<1>3. turns' = [turns EXCEPT ![t] = x] /\ turns[t].pc \in {"settling", "raising"}
      /\ UNCHANGED stream
  BY DEF SettleRaises
<1> HIDE DEF x
<1>4. CASE UNCHANGED <<allowance, settled>>
  BY <1>2, <1>3, <1>4, Working
<1>5. CASE SettlementStored(t, turns[t].tokens)
  <2>1. GoesTo(t, x)
    BY <1>2, <1>3 DEF GoesTo
  <2> QED
    BY <1>2, <1>3, <1>5, <2>1 DEF Settles
<1> QED
  BY <1>4, <1>5 DEF SettleRaises

LEMMA SettledSettles ==
    ASSUME TurnTypeOK, NEW t \in Turn, Settled(t)
    PROVE  Settles(t)
<1> DEFINE x == [turns[t] EXCEPT !.pc = AfterSettling(t)]
<1>1. turns[t] \in TurnState /\ turns \in [Turn -> TurnState]
  BY DEF TurnTypeOK
<1>2. x \in TurnState /\ x.pc \in {"over", "raised"} /\ x.pc = AfterSettling(t)
      /\ x.claim = turns[t].claim /\ x.tokens = turns[t].tokens
  BY <1>1 DEF TurnState, AfterSettling, TaskEnded
<1>3. turns' = [turns EXCEPT ![t] = x] /\ turns'[t] = x
  BY <1>1 DEF Settled
<1> HIDE DEF x
<1>4. GoesTo(t, x) /\ x.pc \in TaskEnded
  BY <1>2, <1>3 DEF GoesTo, TaskEnded
<1> QED
  BY <1>2, <1>3, <1>4 DEF Settled, Settles

LEMMA GrantReserves ==
    ASSUME TurnTypeOK, NEW t \in Turn, GetReservation(t) \/ GrantUnheard(t)
    PROVE  Reserves(t)
<1> DEFINE needed == PromptTokens + MaxTokens
           claim == Claim(allowance, needed)
           y == [turns[t] EXCEPT !.claim = claim]
<1>1. turns[t] \in TurnState /\ turns \in [Turn -> TurnState] /\ allowance \in Allowance
      /\ (t \in late) \in BOOLEAN /\ needed \in Nat \ {0}
  BY BudgetAssumption DEF TurnTypeOK
<1>2. Granted(allowance, needed)
  BY DEF GetReservation, GrantUnheard
<1>3. claim \in Nat
  BY <1>1, <1>2, ClaimFits
<1>4. CASE GetReservation(t)
  <2> DEFINE x == LoopHead(y, t \in late)
  <2>1. y \in TurnState /\ y.claim = claim
    BY <1>1, <1>3 DEF TurnState
  <2>2. turns' = [turns EXCEPT ![t] = x]
    BY <1>4 DEF GetReservation
  <2> HIDE DEF y, claim
  <2>3. x \in TurnState /\ x.claim = claim /\ x.pc \in {"settling", "calling"}
    BY <1>1, <2>1, LoopHeadType
  <2> HIDE DEF x
  <2>4. GoesTo(t, x)
    BY <2>2, <2>3 DEF GoesTo
  <2> QED
    BY <1>4, <2>3, <2>4 DEF GetReservation, Reserves, claim
<1>5. CASE GrantUnheard(t)
  <2>0. PICK pc \in {"unreserved", "dropped"} :
            turns' = [turns EXCEPT ![t] = [turns[t] EXCEPT !.pc = pc, !.claim = claim]]
    BY <1>1, <1>5 DEF GrantUnheard
  <2> DEFINE x == [turns[t] EXCEPT !.pc = pc, !.claim = claim]
  <2>1. turns' = [turns EXCEPT ![t] = x]
    BY <2>0
  <2> HIDE DEF claim
  <2>2. x \in TurnState /\ x.claim = claim /\ x.pc \in {"unreserved", "dropped"}
    BY <1>1, <1>3 DEF TurnState, TaskEnded
  <2> HIDE DEF x
  <2>3. GoesTo(t, x)
    BY <2>1, <2>2 DEF GoesTo
  <2> QED
    BY <1>5, <2>2, <2>3 DEF GrantUnheard, Reserves, claim
<1> QED
  BY <1>4, <1>5

-----------------------------------------------------------------------------
(* What each kind of step keeps *)

LEMMA TurnSums ==
    ASSUME TurnTypeOK
    PROVE  /\ IsFiniteSet(Turn) /\ IsFiniteSet(settled) /\ IsFiniteSet(Turn \ settled)
           /\ \A t \in Turn : /\ Claims[t] = turns[t].claim /\ Claims[t] \in Nat
                              /\ Costs[t] = turns[t].tokens /\ Costs[t] \in Nat
                              /\ Overruns[t] = AtLeastZero(turns[t].tokens - turns[t].claim)
                              /\ Overruns[t] \in Nat
           /\ allowance.consumed \in Nat /\ allowance.reserved \in Nat
           /\ SumOver(Overruns, settled) \in Nat
<1>1. IsFiniteSet(Turn) /\ IsFiniteSet(settled) /\ IsFiniteSet(Turn \ settled)
  BY BudgetAssumption, FS_Subset DEF TurnTypeOK
<1>2. ASSUME NEW t \in Turn
      PROVE  /\ Claims[t] = turns[t].claim /\ Claims[t] \in Nat
             /\ Costs[t] = turns[t].tokens /\ Costs[t] \in Nat
             /\ Overruns[t] = AtLeastZero(turns[t].tokens - turns[t].claim)
             /\ Overruns[t] \in Nat
  BY DEF TurnTypeOK, TurnState, Claims, Costs, Overruns, AtLeastZero
<1>3. SumOver(Overruns, settled) \in Nat
  BY <1>1, <1>2, SumType DEF TurnTypeOK
<1> QED
  BY <1>1, <1>2, <1>3 DEF TurnTypeOK, Allowance

\* A step that leaves the gate alone, and what turns have claimed, and what settled
\* turns have spent.
LEMMA AccountsKept ==
    ASSUME TurnInv, TurnTypeOK', UNCHANGED <<allowance, settled>>,
           \A t \in Turn : turns'[t].claim = turns[t].claim,
           \A t \in settled : turns'[t].tokens = turns[t].tokens
    PROVE  AllowanceIsAccounted' /\ NoCollectiveOverrun'
<1>1. TurnTypeOK /\ settled \subseteq Turn
  BY DEF TurnInv, TurnTypeOK
<1>2. SumOver(Claims', Turn \ settled) = SumOver(Claims, Turn \ settled)
  BY SumSame DEF Claims
<1>3. SumOver(Costs', settled) = SumOver(Costs, settled)
  BY <1>1, SumSame DEF Costs
<1>4. SumOver(Overruns', settled) = SumOver(Overruns, settled)
  <2>1. \A t \in settled : Overruns'[t] = Overruns[t]
    BY <1>1 DEF Overruns
  <2> QED
    BY <2>1, SumSame
<1> QED
  BY <1>2, <1>3, <1>4 DEF TurnInv, AllowanceIsAccounted, NoCollectiveOverrun

LEMMA WorksKeep ==
    ASSUME TurnInv, NEW t \in Turn, Works(t), UNCHANGED late
    PROVE  TurnInv'
<1>1. TurnTypeOK /\ TurnStages
  BY DEF TurnInv
<1>2. PICK x \in TurnState : GoesTo(t, x) /\ x.claim = turns[t].claim
  BY DEF Works, GoesTo
<1>3. /\ turns'[t] = x /\ turns[t].pc \notin TaskEnded /\ t \notin settled
      /\ \A u \in Turn \ {t} : turns'[u] = turns[u]
      /\ turns' \in [Turn -> TurnState] /\ UNCHANGED <<allowance, settled>>
  BY <1>1, <1>2 DEF Works, GoesTo, TurnTypeOK, TurnStages
<1>4. /\ stream' \in [Turn -> {"open", "done", "error"}]
      /\ \A u \in Turn \ {t} : stream'[u] = stream[u]
  BY <1>1 DEF TurnTypeOK, Works
<1>5. TurnTypeOK'
  BY <1>1, <1>3, <1>4 DEF TurnTypeOK
<1>6. TurnStages'
  <2>1. stream'[t] # "open" => turns'[t].pc \in TaskEnded
    BY <1>1, <1>3, <1>4 DEF Works, TurnStages, TaskEnded
  <2> QED
    BY <1>1, <1>2, <1>3, <1>4, <2>1 DEF TurnStages, GoesTo
<1>7. AllowanceIsAccounted' /\ NoCollectiveOverrun'
  <2>1. \A u \in Turn : turns'[u].claim = turns[u].claim
    BY <1>2, <1>3
  <2>2. \A u \in settled : turns'[u].tokens = turns[u].tokens
    BY <1>1, <1>3 DEF TurnTypeOK
  <2> QED
    BY <1>3, <1>5, <2>1, <2>2, AccountsKept
<1> QED
  BY <1>5, <1>6, <1>7 DEF TurnInv

LEMMA AsksKeep ==
    ASSUME TurnInv, NEW t \in Turn, Asks(t), UNCHANGED late
    PROVE  TurnInv'
<1>1. TurnTypeOK /\ TurnStages
  BY DEF TurnInv
<1>2. /\ turns' \in [Turn -> TurnState] /\ UNCHANGED <<allowance, settled, stream>>
      /\ \A u \in Turn : /\ turns'[u].claim = turns[u].claim
                         /\ turns'[u].tokens = turns[u].tokens
                         /\ turns'[u].pc = turns[u].pc
  BY <1>1 DEF TurnTypeOK, Asks
<1>3. TurnTypeOK'
  BY <1>1, <1>2 DEF TurnTypeOK
<1>4. AllowanceIsAccounted' /\ NoCollectiveOverrun'
  BY <1>1, <1>2, <1>3, AccountsKept DEF TurnTypeOK
<1>5. TurnStages'
  BY <1>1, <1>2 DEF TurnStages
<1> QED
  BY <1>3, <1>4, <1>5 DEF TurnInv

LEMMA ReservesKeep ==
    ASSUME TurnInv, NEW t \in Turn, Reserves(t), UNCHANGED late
    PROVE  TurnInv'
<1> DEFINE claim == Claim(allowance, PromptTokens + MaxTokens)
<1>1. TurnTypeOK /\ TurnStages /\ AllowanceIsAccounted /\ NoCollectiveOverrun
  BY DEF TurnInv
<1>2. PICK x \in TurnState : /\ GoesTo(t, x) /\ x.claim = claim
                             /\ x.pc \notin {"reserving", "over", "raised"}
  BY DEF Reserves, GoesTo
<1>3. /\ claim \in Nat
      /\ allowance.on_exhaustion # "allow" /\ claim # 0
            => allowance.consumed + allowance.reserved + claim <= Limit
      /\ allowance' = [consumed |-> allowance.consumed,
                       reserved |-> allowance.reserved + claim,
                       on_exhaustion |-> allowance.on_exhaustion]
  <2>1. PromptTokens + MaxTokens \in Nat \ {0} /\ allowance \in Allowance
    BY <1>1, BudgetAssumption DEF TurnTypeOK
  <2> QED
    BY <2>1, ClaimFits DEF Reserves
<1> HIDE DEF claim
<1>4. /\ turns'[t] = x /\ t \in Turn \ settled /\ turns[t].claim = 0
      /\ \A u \in Turn \ {t} : turns'[u] = turns[u]
      /\ turns' \in [Turn -> TurnState] /\ UNCHANGED <<settled, stream>>
  BY <1>1, <1>2 DEF Reserves, GoesTo, TurnTypeOK, TurnStages, TaskEnded
<1>5. TurnTypeOK'
  BY <1>1, <1>3, <1>4 DEF TurnTypeOK, Allowance
<1>6. TurnStages'
  <2>1. stream[t] = "open"
    BY <1>1 DEF Reserves, TurnStages, TaskEnded
  <2> QED
    BY <1>1, <1>2, <1>4, <2>1 DEF TurnStages, GoesTo
<1>7. AllowanceIsAccounted'
  <2>1. SumOver(Claims', Turn \ settled) =
            SumOver(Claims, Turn \ settled) - Claims[t] + Claims'[t]
    <3>1. \A u \in Turn \ settled : Claims[u] \in Nat /\ Claims'[u] \in Nat
      BY <1>5 DEF Claims, TurnInv, TurnTypeOK, TurnState
    <3>2. \A u \in (Turn \ settled) \ {t} : Claims[u] = Claims'[u]
      BY <1>4 DEF Claims
    <3>3. IsFiniteSet(Turn \ settled)
      BY <1>1, TurnSums
    <3> QED
      BY <1>4, <3>1, <3>2, <3>3, SumChange
  <2>2. Claims[t] = 0 /\ Claims'[t] = claim
    BY <1>2, <1>4 DEF Claims
  <2>3. SumOver(Claims', Turn \ settled) = allowance.reserved + claim
    BY <1>1, <1>3, <2>1, <2>2, TurnSums DEF AllowanceIsAccounted
  <2>4. SumOver(Costs', settled) = SumOver(Costs, settled)
    <3>1. \A u \in settled : Costs'[u] = Costs[u]
      BY <1>1, <1>4 DEF Costs, TurnTypeOK
    <3> QED
      BY <3>1, SumSame
  <2> QED
    BY <1>1, <1>3, <1>4, <2>3, <2>4 DEF AllowanceIsAccounted
<1>8. NoCollectiveOverrun'
  <2>1. SumOver(Overruns', settled) = SumOver(Overruns, settled)
    <3>1. \A u \in settled : Overruns'[u] = Overruns[u]
      BY <1>1, <1>4 DEF Overruns, TurnTypeOK
    <3> QED
      BY <3>1, SumSame
  <2> QED
    BY <1>1, <1>3, <1>4, <2>1, TurnSums, QuotaAssumption DEF NoCollectiveOverrun
<1> QED
  BY <1>5, <1>6, <1>7, <1>8 DEF TurnInv

LEMMA SettlesKeep ==
    ASSUME TurnInv, NEW t \in Turn, Settles(t), UNCHANGED late
    PROVE  TurnInv'
<1> DEFINE claim == turns[t].claim
           spent == turns[t].tokens
<1>1. TurnTypeOK /\ TurnStages /\ AllowanceIsAccounted /\ NoCollectiveOverrun
  BY DEF TurnInv
<1>2. PICK x \in TurnState : /\ GoesTo(t, x) /\ x.claim = claim /\ x.tokens = spent
                             /\ x.pc \in TaskEnded
  BY DEF Settles, GoesTo
<1>3. /\ turns'[t] = x /\ t \in Turn \ settled
      /\ \A u \in Turn \ {t} : turns'[u] = turns[u]
      /\ \A u \in Turn : turns'[u].claim = turns[u].claim /\ turns'[u].tokens = turns[u].tokens
      /\ turns' \in [Turn -> TurnState] /\ settled' = settled \cup {t}
      /\ claim \in Nat /\ spent \in Nat
  BY <1>1, <1>2 DEF Settles, SettlementStored, GoesTo, TurnTypeOK, TurnState, TurnStages,
                    TaskEnded
<1>4. Claims' = Claims /\ Costs' = Costs /\ Overruns' = Overruns
  BY <1>3 DEF Claims, Costs, Overruns
<1>5. /\ SumOver(Claims, (Turn \ settled) \ {t}) = allowance.reserved - claim
      /\ SumOver(Costs, settled \cup {t}) = allowance.consumed + spent
      /\ SumOver(Overruns, settled \cup {t})
            = SumOver(Overruns, settled) + AtLeastZero(spent - claim)
      /\ claim <= allowance.reserved
  <2>0. /\ t \notin settled /\ IsFiniteSet(settled)
        /\ \A u \in settled \cup {t} : Costs[u] \in Nat /\ Overruns[u] \in Nat
    BY <1>1, <1>3, TurnSums DEF TurnTypeOK
  <2>1. SumOver(Claims, (Turn \ settled) \ {t}) = SumOver(Claims, Turn \ settled) - Claims[t]
    BY <1>1, <1>3, TurnSums, SumRemove
  <2>2. SumOver(Costs, settled \cup {t}) = SumOver(Costs, settled) + Costs[t]
    BY <2>0, SumAdd
  <2>3. SumOver(Overruns, settled \cup {t}) = SumOver(Overruns, settled) + Overruns[t]
    BY <2>0, SumAdd
  <2>4. Claims[t] <= SumOver(Claims, Turn \ settled)
    BY <1>1, <1>3, TurnSums, SumAtLeast
  <2> QED
    BY <1>1, <2>1, <2>2, <2>3, <2>4, TurnSums DEF AllowanceIsAccounted
<1>6. allowance' = [consumed |-> allowance.consumed + spent,
                    reserved |-> allowance.reserved - claim,
                    on_exhaustion |-> allowance.on_exhaustion]
  <2>1. allowance' = [allowance EXCEPT !.consumed = allowance.consumed + spent,
                                       !.reserved = AtLeastZero(allowance.reserved - claim)]
    BY DEF Settles, SettlementStored, Settle
  <2>2. AtLeastZero(allowance.reserved - claim) = allowance.reserved - claim
    BY <1>1, <1>3, <1>5, TurnSums DEF AtLeastZero
  <2> QED
    BY <1>1, <2>1, <2>2 DEF TurnTypeOK, Allowance
<1>7. /\ stream' \in [Turn -> {"open", "done", "error"}]
      /\ \A u \in Turn \ {t} : stream'[u] = stream[u]
  <2>1. CASE UNCHANGED stream
    BY <1>1, <2>1 DEF TurnTypeOK
  <2>2. CASE turns'[t].pc = AfterSettling(t) /\ EndsStream(t)
    BY <1>1, <2>2 DEF TurnTypeOK, AfterSettling, EndsStream, Settles
  <2> QED
    BY <2>1, <2>2 DEF Settles
<1> HIDE DEF claim, spent
<1>8. TurnTypeOK'
  <2>1. allowance' \in Allowance
    BY <1>1, <1>3, <1>5, <1>6 DEF TurnTypeOK, Allowance
  <2> QED
    BY <1>1, <1>3, <1>7, <2>1 DEF TurnTypeOK
<1>9. TurnStages'
  BY <1>1, <1>2, <1>3, <1>7 DEF TurnStages, TaskEnded
<1>10. AllowanceIsAccounted'
  <2>1. Turn \ settled' = (Turn \ settled) \ {t}
    BY <1>3
  <2> QED
    BY <1>3, <1>4, <1>5, <1>6, <2>1 DEF AllowanceIsAccounted
<1>11. NoCollectiveOverrun'
  BY <1>1, <1>3, <1>4, <1>5, <1>6, TurnSums, QuotaAssumption
     DEF NoCollectiveOverrun, AtLeastZero
<1> QED
  BY <1>8, <1>9, <1>10, <1>11 DEF TurnInv

LEMMA TurnStep == TurnInv /\ [TurnNext]_turnVars => TurnInv'
<1> SUFFICES ASSUME TurnInv, [TurnNext]_turnVars
             PROVE  TurnInv'
  OBVIOUS
<1>1. TurnTypeOK
  BY DEF TurnInv
<1>2. ASSUME NEW t \in Turn,
             Begin(t) \/ GateAnswers(t) \/ ModelAnswers(t) \/ ToolEnds(t) \/ TaskDropped(t)
                \/ RequestCancel(t) \/ GrantUnheard(t)
      PROVE  /\ Works(t) \/ Reserves(t) \/ Settles(t) \/ Asks(t)
             /\ UNCHANGED late
  <2>1. UNCHANGED late
    BY <1>2 DEF Begin, GateAnswers, GetReservation, Blocked, ReserveRaises, Settled, SettleRaises,
                ModelAnswers, FinalAnswer, ToolsWanted, CallRaises, ToolEnds, ToolReturns,
                TaskDropped, RequestCancel, GrantUnheard
  <2> QED
    BY <1>1, <1>2, <2>1, GateWorks, ModelWorks, ToolWorks, DroppedWorksOrSettles, RaisingWorksOrSettles, CancelAsks,
       SettledSettles, GrantReserves DEF GateAnswers
<1>3. ASSUME NEW t \in Turn, TimePasses(t)
      PROVE  TurnInv'
  BY <1>3 DEF TimePasses, TurnInv, TurnTypeOK, TurnStages, AllowanceIsAccounted,
              NoCollectiveOverrun, Claims, Costs, Overruns
<1>4. CASE UNCHANGED turnVars
  BY <1>4 DEF turnVars, TurnInv, TurnTypeOK, TurnStages, AllowanceIsAccounted,
              NoCollectiveOverrun, Claims, Costs, Overruns
<1> QED
  BY <1>2, <1>3, <1>4, WorksKeep, ReservesKeep, SettlesKeep, AsksKeep DEF TurnNext

LEMMA TurnInitInv == TurnInit => TurnInv
<1> SUFFICES ASSUME TurnInit
             PROVE  TurnInv
  OBVIOUS
<1>1. FreshTurn \in TurnState
  BY DEF FreshTurn, TurnState, Phase, Reason
<1>2. TurnTypeOK /\ allowance.consumed = 0 /\ allowance.reserved = 0
  BY <1>1 DEF TurnInit, TurnTypeOK, Untouched, Allowance
<1>3. TurnStages
  BY DEF TurnInit, TurnStages, FreshTurn
<1>4. SumOver(Costs, settled) = 0 /\ SumOver(Overruns, settled) = 0
  BY SumOfNone DEF TurnInit
<1>5. SumOver(Claims, Turn \ settled) = 0
  <2>1. Units(Claims, Turn \ settled) = {}
    BY DEF TurnInit, Units, Claims, FreshTurn
  <2> QED
    BY <2>1, FS_EmptySet DEF SumOver
<1> QED
  BY <1>2, <1>3, <1>4, <1>5, QuotaAssumption DEF TurnInv, AllowanceIsAccounted,
                                                 NoCollectiveOverrun

\* For any number of turns that interleave in any way: what the gate has stored as
\* reserved and consumed is the account of the turns.
THEOREM AllowanceAccounts == TurnSpec => []AllowanceIsAccounted
<1>1. TurnInv => AllowanceIsAccounted
  BY DEF TurnInv
<1> QED
  BY <1>1, TurnInitInv, TurnStep, PTL DEF TurnSpec

\* Under a policy that does not let exhaustion pass, the turns of a tenant never take
\* the account past its limit by more than they cost beyond their own claims.
THEOREM TurnsDoNotOverrun == TurnSpec => []NoCollectiveOverrun
<1>1. TurnInv => NoCollectiveOverrun
  BY DEF TurnInv
<1> QED
  BY <1>1, TurnInitInv, TurnStep, PTL DEF TurnSpec

-----------------------------------------------------------------------------
(* A stop stops the work *)

LEMMA HeadStops ==
    ASSUME NEW x \in TurnState, NEW isLate, x.cancel
    PROVE  LoopHead(x, isLate).pc = "settling"
BY DEF LoopHead, Stops, TurnState

LEMMA NextToolStops ==
    ASSUME NEW x \in TurnState, NEW n, NEW isLate, x.cancel
    PROVE  NextTool(x, n, isLate).pc = "settling"
<1> DEFINE y == [x EXCEPT !.left = 0]
<1>1. NextTool(x, n, isLate) = LoopHead(y, isLate)
  BY DEF NextTool
<1>2. y \in TurnState /\ y.cancel
  BY DEF TurnState
<1> HIDE DEF y
<1> QED
  BY <1>1, <1>2, HeadStops

LEMMA StoppedStaysStopped ==
    ASSUME TurnTypeOK, NEW t \in Turn, turns[t].cancel,
           \/ Begin(t) \/ GateAnswers(t) \/ ModelAnswers(t) \/ ToolEnds(t)
           \/ RequestCancel(t) \/ TaskDropped(t) \/ GrantUnheard(t) \/ TimePasses(t)
    PROVE  ~StartsWork(t)
<1>1. turns[t] \in TurnState /\ turns \in [Turn -> TurnState] /\ allowance \in Allowance
      /\ (t \in late) \in BOOLEAN /\ turns[t].left \in Nat
      /\ turns[t].cancel
  BY DEF TurnTypeOK, TurnState
<1>2. CASE Begin(t) \/ ReserveRaises(t) \/ SettleRaises(t) \/ Settled(t)
  <2>1. turns'[t].pc \in {"reserving", "unreserved", "unsettled", "over", "raised"}
    BY <1>1, <1>2 DEF Begin, ReserveRaises, SettleRaises, Settled, AfterSettling, TurnState
  <2> QED
    BY <2>1 DEF StartsWork
<1>3. CASE Blocked(t)
  BY <1>1, <1>3 DEF Blocked, Stops, StartsWork, TurnState
<1>4. CASE GetReservation(t)
  <2> DEFINE claim == Claim(allowance, PromptTokens + MaxTokens)
             y == [turns[t] EXCEPT !.claim = claim]
  <2>1. claim \in Nat
    <3>1. PromptTokens + MaxTokens \in Nat \ {0}
      BY BudgetAssumption
    <3> QED
      BY <1>1, <1>4, <3>1, ClaimFits DEF GetReservation
  <2>2. turns'[t] = LoopHead(y, t \in late)
    BY <1>1, <1>4 DEF GetReservation
  <2> HIDE DEF claim
  <2>3. y \in TurnState /\ y.cancel
    BY <1>1, <2>1 DEF TurnState
  <2> HIDE DEF y
  <2>4. LoopHead(y, t \in late).pc = "settling"
    BY <1>1, <2>3, HeadStops
  <2> QED
    BY <2>2, <2>4 DEF StartsWork
<1>5. ASSUME NEW cost \in CallCost, FinalAnswer(t, cost)
      PROVE  ~StartsWork(t)
  <2>1. turns'[t].pc \in {"settling", "raising"}
    BY <1>1, <1>5 DEF FinalAnswer, Stops, Raises, Recorded, TurnState
  <2> QED
    BY <2>1 DEF StartsWork
<1>6. ASSUME NEW cost \in CallCost, NEW n \in 0..MaxTools, ToolsWanted(t, cost, n)
      PROVE  ~StartsWork(t)
  <2> DEFINE y == Recorded(turns[t], cost)
  <2>1. y \in TurnState /\ y.cancel
    BY <1>1, RecordedType, BudgetAssumption
  <2> HIDE DEF y
  <2>2. n \in Nat
    BY BudgetAssumption
  <2>3. CASE Moves(turns[t], "acting")
    <3> DEFINE z == [y EXCEPT !.phase = "acting"]
    <3>1. z \in TurnState /\ z.cancel
      BY <2>1 DEF TurnState, Phase
    <3>2. turns'[t] = NextTool(z, n, t \in late)
      BY <1>1, <1>6, <2>3 DEF ToolsWanted, y
    <3> HIDE DEF z
    <3>3. NextTool(z, n, t \in late).pc = "settling"
      BY <1>1, <2>2, <3>1, NextToolStops
    <3> QED
      BY <3>2, <3>3 DEF StartsWork
  <2>4. CASE ~Moves(turns[t], "acting")
    <3>1. turns'[t] = Raises(y)
      BY <1>1, <1>6, <2>4 DEF ToolsWanted, y
    <3> QED
      BY <2>1, <3>1, RaisesType DEF StartsWork
  <2> QED
    BY <2>3, <2>4
<1>7. CASE ToolReturns(t)
  <2>1. turns'[t] = NextTool(turns[t], turns[t].left, t \in late)
    BY <1>1, <1>7 DEF ToolReturns
  <2>2. NextTool(turns[t], turns[t].left, t \in late).pc = "settling"
    BY <1>1, NextToolStops
  <2> QED
    BY <2>1, <2>2 DEF StartsWork
<1>8. CASE CallRaises(t, "calling") \/ CallRaises(t, "tool")
  <2>1. turns'[t] = Raises(turns[t])
    BY <1>1, <1>8 DEF CallRaises
  <2> QED
    BY <1>1, <2>1, RaisesType DEF StartsWork
<1>9. CASE RequestCancel(t) \/ TimePasses(t)
  <2>1. turns'[t].pc = turns[t].pc /\ turns'[t].left = turns[t].left
    BY <1>1, <1>9 DEF RequestCancel, TimePasses, TurnState
  <2> QED
    BY <2>1 DEF StartsWork
<1>10. CASE TaskDropped(t)
  <2>1. turns'[t] = Unwound(turns[t])
    BY <1>1, <1>10 DEF TaskDropped
  <2> QED
    BY <1>1, <2>1, UnwoundType DEF StartsWork
<1>11. CASE GrantUnheard(t)
  <2>1. turns'[t].pc \in {"unreserved", "dropped"}
    BY <1>1, <1>11 DEF GrantUnheard, TurnState
  <2> QED
    BY <2>1 DEF StartsWork
<1> QED
  BY <1>2, <1>3, <1>4, <1>5, <1>6, <1>7, <1>8, <1>9, <1>10, <1>11
     DEF GateAnswers, ModelAnswers, ToolEnds

LEMMA OthersStay ==
    ASSUME TurnTypeOK, NEW t \in Turn, NEW u \in Turn \ {t},
           \/ Begin(t) \/ GateAnswers(t) \/ ModelAnswers(t) \/ ToolEnds(t)
           \/ RequestCancel(t) \/ TaskDropped(t) \/ GrantUnheard(t) \/ TimePasses(t)
    PROVE  turns'[u] = turns[u]
<1>1. CASE \E x : turns' = [turns EXCEPT ![t] = x]
  BY <1>1 DEF TurnTypeOK
<1>2. CASE TimePasses(t)
  BY <1>2 DEF TimePasses
<1>3. CASE GateAnswers(t) \/ ModelAnswers(t) \/ ToolEnds(t)
  BY <1>1, <1>3 DEF GateAnswers, GetReservation, Blocked, ReserveRaises, Settled, SettleRaises, ModelAnswers,
                    FinalAnswer, ToolsWanted, CallRaises, ToolEnds, ToolReturns
<1>4. CASE Begin(t) \/ RequestCancel(t) \/ TaskDropped(t) \/ GrantUnheard(t)
  BY <1>1, <1>4, CancelAsks DEF Begin, RequestCancel, Asks, TaskDropped, GrantUnheard
<1> QED
  BY <1>2, <1>3, <1>4

\* Whoever asks a turn to stop, and wherever it is: no model call and no tool begins
\* after that.
THEOREM StopsStopWork == TurnSpec => StopStopsWork
<1>1. ASSUME TurnInv, [TurnNext]_turnVars, NEW t \in Turn, turns[t].cancel
      PROVE  ~StartsWork(t)
  <2>1. TurnTypeOK
    BY <1>1 DEF TurnInv
  <2>2. CASE UNCHANGED turnVars
    BY <2>2 DEF turnVars, StartsWork
  <2>3. CASE TurnNext
    <3>1. PICK u \in Turn :
              \/ Begin(u) \/ GateAnswers(u) \/ ModelAnswers(u) \/ ToolEnds(u)
              \/ RequestCancel(u) \/ TaskDropped(u) \/ GrantUnheard(u) \/ TimePasses(u)
      BY <2>3 DEF TurnNext
    <3>2. CASE u = t
      BY <1>1, <2>1, <3>1, <3>2, StoppedStaysStopped
    <3>3. CASE u # t
      BY <2>1, <3>1, <3>3, OthersStay DEF StartsWork
    <3> QED
      BY <3>2, <3>3
  <2> QED
    BY <1>1, <2>2, <2>3
<1>2. TurnInv /\ [TurnNext]_turnVars
        => [\A t \in Turn : turns[t].cancel => ~StartsWork(t)]_turnVars
  BY <1>1
<1> QED
  BY <1>2, TurnInitInv, TurnStep, PTL DEF TurnSpec, StopStopsWork

-----------------------------------------------------------------------------
(* How a turn ends *)

\* The phase and the reason a turn has while its task works or is being settled.
PhaseFits(x) ==
    \/ x.pc \in {"calling", "tool"}
    \/ x.pc = "settling" /\ x.phase \in TerminalPhases /\ x.reason # "error"
    \/ x.pc = "raising" /\ x.phase = "failed" /\ x.reason = "error"

\* What holds of a turn x, of its stream and of whether its settlement is stored.
EndsWell(x, told, isSettled) ==
    /\ x.pc \in {"none", "reserving"} => x.claim = 0 /\ x.tokens = 0
    /\ x.pc \in Awaiting \ {"reserving"} => PhaseFits(x)
    /\ x.pc \in {"over", "raised", "unsettled"} => x.phase \in TerminalPhases
    /\ told # "open" <=> x.pc \in {"over", "raised"}
    /\ told # "open" =>
        /\ told = "error" <=> x.reason = "error"
        /\ x.phase = "cancelled" => told = "done"
        /\ isSettled \/ (told = "error" /\ x.claim = 0 /\ x.tokens = 0)

AllEndWell == \A t \in Turn : EndsWell(turns[t], stream[t], t \in settled)

LEMMA HeadFits ==
    ASSUME NEW x \in TurnState, NEW isLate \in BOOLEAN
    PROVE  LoopHead(x, isLate).pc \in Awaiting \ {"reserving"} /\ PhaseFits(LoopHead(x, isLate))
BY DEF LoopHead, Stops, TurnState, PhaseFits, TerminalPhases, Awaiting

LEMMA NextToolFits ==
    ASSUME NEW x \in TurnState, NEW n \in Nat, NEW isLate \in BOOLEAN
    PROVE  /\ NextTool(x, n, isLate).pc \in Awaiting \ {"reserving"}
           /\ PhaseFits(NextTool(x, n, isLate))
<1> DEFINE y == [x EXCEPT !.left = 0]
<1>1. y \in TurnState
  BY DEF TurnState
<1> HIDE DEF y
<1>2. CASE n = 0 \/ x.cancel
  BY <1>1, <1>2, HeadFits DEF NextTool, y
<1>3. CASE ~(n = 0 \/ x.cancel)
  <2>1. NextTool(x, n, isLate).pc = "tool"
    BY <1>3 DEF NextTool, TurnState
  <2> QED
    BY <2>1 DEF PhaseFits, Awaiting
<1> QED
  BY <1>2, <1>3

LEMMA RaisesFits ==
    ASSUME NEW x \in TurnState
    PROVE  Raises(x).pc \in Awaiting \ {"reserving"} /\ PhaseFits(Raises(x))
BY DEF Raises, Stops, TurnState, PhaseFits, Awaiting

\* A task that goes on, or is settled next, has its stream open and its turn in order.
LEMMA GoesOnWell ==
    ASSUME TurnTypeOK, AllEndWell, NEW t \in Turn, turns[t].pc \in Awaiting,
           NEW x \in TurnState, x.pc \in Awaiting \ {"reserving"}, PhaseFits(x),
           turns' = [turns EXCEPT ![t] = x], UNCHANGED stream
    PROVE  EndsWell(turns'[t], stream'[t], t \in settled')
<1>1. turns'[t] = x /\ stream'[t] = "open"
  BY DEF TurnTypeOK, AllEndWell, EndsWell, Awaiting
<1> QED
  BY <1>1 DEF EndsWell, Awaiting

LEMMA ModelEndsWell ==
    ASSUME TurnTypeOK, AllEndWell, NEW t \in Turn, ModelAnswers(t) \/ ToolEnds(t)
    PROVE  EndsWell(turns'[t], stream'[t], t \in settled')
<1>1. turns[t] \in TurnState /\ (t \in late) \in BOOLEAN /\ turns[t].left \in Nat
      /\ CallCost \subseteq Nat
  BY BudgetAssumption DEF TurnTypeOK, TurnState
<1>2. turns[t].pc \in Awaiting /\ UNCHANGED stream
  BY DEF ModelAnswers, FinalAnswer, ToolsWanted, CallRaises, ToolEnds, ToolReturns, Awaiting
<1>3. SUFFICES \E x \in TurnState : /\ turns' = [turns EXCEPT ![t] = x]
                                    /\ x.pc \in Awaiting \ {"reserving"} /\ PhaseFits(x)
  BY <1>2, GoesOnWell
<1>4. ASSUME NEW cost \in CallCost, FinalAnswer(t, cost)
      PROVE  \E x \in TurnState : /\ turns' = [turns EXCEPT ![t] = x]
                                  /\ x.pc \in Awaiting \ {"reserving"} /\ PhaseFits(x)
  <2>1. PICK y \in TurnState : y = Recorded(turns[t], cost)
    BY <1>1, RecordedType
  <2>2. CASE Moves(turns[t], "completed")
    <3>1. PICK x \in TurnState : x = Stops(y, "completed", "answered", "settling")
      BY <2>1, StopsType DEF Phase, Reason, Awaiting
    <3>2. x.pc \in Awaiting \ {"reserving"} /\ PhaseFits(x)
      BY <2>1, <3>1 DEF Stops, TurnState, PhaseFits, TerminalPhases, Awaiting
    <3> QED
      BY <1>4, <2>1, <2>2, <3>1, <3>2 DEF FinalAnswer
  <2>3. CASE ~Moves(turns[t], "completed")
    <3>1. turns' = [turns EXCEPT ![t] = Raises(y)]
      BY <1>4, <2>1, <2>3 DEF FinalAnswer
    <3> QED
      BY <2>1, <3>1, RaisesType, RaisesFits
  <2> QED
    BY <2>2, <2>3
<1>5. ASSUME NEW cost \in CallCost, NEW n \in 0..MaxTools, ToolsWanted(t, cost, n)
      PROVE  \E x \in TurnState : /\ turns' = [turns EXCEPT ![t] = x]
                                  /\ x.pc \in Awaiting \ {"reserving"} /\ PhaseFits(x)
  <2>1. PICK y \in TurnState : y = Recorded(turns[t], cost)
    BY <1>1, RecordedType
  <2>2. n \in Nat
    BY BudgetAssumption
  <2>3. CASE Moves(turns[t], "acting")
    <3>1. PICK z \in TurnState : z = [y EXCEPT !.phase = "acting"]
      BY <2>1 DEF TurnState, Phase
    <3>2. turns' = [turns EXCEPT ![t] = NextTool(z, n, t \in late)]
      BY <1>5, <2>1, <2>3, <3>1 DEF ToolsWanted
    <3> QED
      BY <1>1, <2>2, <3>1, <3>2, NextToolType, NextToolFits
  <2>4. CASE ~Moves(turns[t], "acting")
    <3>1. turns' = [turns EXCEPT ![t] = Raises(y)]
      BY <1>5, <2>1, <2>4 DEF ToolsWanted
    <3> QED
      BY <2>1, <3>1, RaisesType, RaisesFits
  <2> QED
    BY <2>3, <2>4
<1>6. CASE CallRaises(t, "calling") \/ CallRaises(t, "tool")
  <2>1. turns' = [turns EXCEPT ![t] = Raises(turns[t])]
    BY <1>6 DEF CallRaises
  <2> QED
    BY <1>1, <2>1, RaisesType, RaisesFits
<1>7. CASE ToolReturns(t)
  BY <1>1, <1>7, NextToolType, NextToolFits DEF ToolReturns
<1> QED
  BY <1>4, <1>5, <1>6, <1>7 DEF ModelAnswers, ToolEnds

LEMMA GateEndsWell ==
    ASSUME TurnTypeOK, AllEndWell, NEW t \in Turn, GateAnswers(t)
    PROVE  EndsWell(turns'[t], stream'[t], t \in settled')
<1> DEFINE needed == PromptTokens + MaxTokens
<1>1. /\ turns[t] \in TurnState /\ turns \in [Turn -> TurnState] /\ allowance \in Allowance
      /\ (t \in late) \in BOOLEAN /\ needed \in Nat \ {0}
      /\ EndsWell(turns[t], stream[t], t \in settled)
      /\ stream \in [Turn -> {"open", "done", "error"}]
  BY BudgetAssumption DEF TurnTypeOK, AllEndWell
<1>2. CASE GetReservation(t)
  <2>1. PICK claim \in Nat : claim = Claim(allowance, needed)
    BY <1>1, <1>2, ClaimFits DEF GetReservation
  <2>2. PICK y \in TurnState : y = [turns[t] EXCEPT !.claim = claim]
    BY <1>1 DEF TurnState
  <2>3. turns' = [turns EXCEPT ![t] = LoopHead(y, t \in late)] /\ UNCHANGED stream
        /\ turns[t].pc \in Awaiting
    BY <1>2, <2>1, <2>2 DEF GetReservation, Awaiting
  <2> QED
    BY <1>1, <2>2, <2>3, LoopHeadType, HeadFits, GoesOnWell
<1>3. CASE Blocked(t)
  <2>1. /\ turns'[t] = Stops(turns[t], "failed", "error", "over") /\ stream'[t] = "error"
        /\ turns[t].claim = 0 /\ turns[t].tokens = 0
    BY <1>1, <1>3 DEF Blocked, EndsWell
  <2>2. /\ turns'[t].pc = "over" /\ turns'[t].phase = "failed" /\ turns'[t].reason = "error"
        /\ turns'[t].claim = 0 /\ turns'[t].tokens = 0
    BY <1>1, <2>1 DEF Stops, TurnState
  <2> QED
    BY <2>1, <2>2 DEF EndsWell, Awaiting, TerminalPhases
<1>4. CASE ReserveRaises(t)
  <2>1. turns'[t].pc = "unreserved" /\ stream'[t] = "open"
    BY <1>1, <1>4 DEF ReserveRaises, TurnState, EndsWell
  <2> QED
    BY <2>1 DEF EndsWell, Awaiting
<1>5. CASE Settled(t)
  <2>1. /\ turns'[t] = [turns[t] EXCEPT !.pc = AfterSettling(t)] /\ t \in settled'
        /\ stream'[t] = IF turns[t].pc = "settling" THEN "done" ELSE "error"
        /\ turns[t].pc \in {"settling", "raising"} /\ PhaseFits(turns[t])
    BY <1>1, <1>5 DEF Settled, SettlementStored, EndsStream, EndsWell, Awaiting
  <2>2. /\ turns'[t].pc = AfterSettling(t) /\ turns'[t].phase = turns[t].phase
        /\ turns'[t].reason = turns[t].reason
    BY <1>1, <2>1 DEF TurnState
  <2>3. CASE turns[t].pc = "settling"
    <3>1. /\ turns'[t].pc = "over" /\ stream'[t] = "done" /\ turns'[t].reason # "error"
          /\ turns'[t].phase \in TerminalPhases
      BY <2>1, <2>2, <2>3 DEF AfterSettling, PhaseFits
    <3> QED
      BY <2>1, <3>1 DEF EndsWell, Awaiting
  <2>4. CASE turns[t].pc = "raising"
    <3>1. /\ turns'[t].pc = "raised" /\ stream'[t] = "error" /\ turns'[t].reason = "error"
          /\ turns'[t].phase = "failed"
      BY <2>1, <2>2, <2>4 DEF AfterSettling, PhaseFits
    <3> QED
      BY <2>1, <3>1 DEF EndsWell, Awaiting, TerminalPhases
  <2> QED
    BY <2>1, <2>3, <2>4
<1>6. CASE SettleRaises(t)
  <2>1. /\ turns'[t] = [turns[t] EXCEPT !.pc = "unsettled"] /\ stream'[t] = stream[t]
        /\ turns[t].pc \in {"settling", "raising"} /\ PhaseFits(turns[t])
    BY <1>1, <1>6 DEF SettleRaises, EndsWell, Awaiting
  <2>2. /\ turns'[t].pc = "unsettled" /\ turns'[t].phase \in TerminalPhases
        /\ stream'[t] = "open"
    BY <1>1, <2>1 DEF TurnState, PhaseFits, TerminalPhases, EndsWell
  <2> QED
    BY <2>2 DEF EndsWell, Awaiting
<1> QED
  BY <1>2, <1>3, <1>4, <1>5, <1>6 DEF GateAnswers

LEMMA StopEndsWell ==
    ASSUME TurnTypeOK, AllEndWell, NEW t \in Turn,
           \/ Begin(t) \/ RequestCancel(t) \/ TaskDropped(t) \/ GrantUnheard(t)
    PROVE  EndsWell(turns'[t], stream'[t], t \in settled')
<1>1. /\ turns[t] \in TurnState /\ turns \in [Turn -> TurnState]
      /\ EndsWell(turns[t], stream[t], t \in settled)
  BY DEF TurnTypeOK, AllEndWell
<1>2. CASE Begin(t)
  <2>1. /\ turns'[t].pc = "reserving" /\ stream'[t] = "open"
        /\ turns'[t].claim = 0 /\ turns'[t].tokens = 0
    BY <1>1, <1>2 DEF Begin, TurnState, EndsWell
  <2> QED
    BY <2>1 DEF EndsWell, Awaiting
<1>3. CASE RequestCancel(t)
  <2>1. turns[t].pc \in Awaiting /\ turns[t].phase \notin TerminalPhases
        /\ turns[t].pc \notin {"settling", "raising"} /\ stream'[t] = "open"
    BY <1>1, <1>3 DEF RequestCancel, EndsWell, PhaseFits, TerminalPhases, Awaiting
  <2>2. /\ turns'[t].pc = turns[t].pc /\ turns'[t].claim = turns[t].claim
        /\ turns'[t].tokens = turns[t].tokens
    BY <1>1, <1>3 DEF RequestCancel, TurnState
  <2>3. CASE turns[t].pc = "reserving"
    BY <1>1, <2>1, <2>2, <2>3 DEF EndsWell, Awaiting
  <2>4. CASE turns[t].pc \in {"calling", "tool"}
    BY <2>1, <2>2, <2>4 DEF EndsWell, PhaseFits, Awaiting
  <2> QED
    BY <2>1, <2>3, <2>4 DEF Awaiting
<1>4. CASE TaskDropped(t)
  <2>1. turns'[t] = Unwound(turns[t]) /\ stream'[t] = "open"
    BY <1>1, <1>4 DEF TaskDropped, EndsWell, Awaiting
  <2>2. turns'[t].pc = "dropped"
    BY <1>1, <2>1, UnwoundType
  <2> QED
    BY <2>1, <2>2 DEF EndsWell, Awaiting
<1>5. CASE GrantUnheard(t)
  <2>1. turns'[t].pc \in {"unreserved", "dropped"} /\ stream'[t] = "open"
    BY <1>1, <1>5 DEF GrantUnheard, TurnState, EndsWell
  <2> QED
    BY <2>1 DEF EndsWell, Awaiting
<1> QED
  BY <1>2, <1>3, <1>4, <1>5

\* However the turns interleave, and wherever stops, exceptions, drops and failures of the
\* gate meet them: a task that leaves run() other than by the gate's exception at the
\* reservation or by being dropped leaves its turn in a terminal phase, and its reader is
\* told exactly if the gate stored the settlement, or refused the reservation.
THEOREM EndingsAreTold == TurnSpec => []EndingIsTold
<1>1. TurnInit => AllEndWell
  BY DEF TurnInit, AllEndWell, EndsWell, FreshTurn, Awaiting
<1>2. TurnInv /\ AllEndWell /\ [TurnNext]_turnVars => AllEndWell'
  <2> SUFFICES ASSUME TurnInv, AllEndWell, [TurnNext]_turnVars
               PROVE  AllEndWell'
    OBVIOUS
  <2>1. TurnTypeOK
    BY DEF TurnInv
  <2>2. ASSUME NEW t \in Turn,
               \/ Begin(t) \/ GateAnswers(t) \/ ModelAnswers(t) \/ ToolEnds(t)
               \/ RequestCancel(t) \/ TaskDropped(t) \/ GrantUnheard(t)
        PROVE  AllEndWell'
    <3>1. EndsWell(turns'[t], stream'[t], t \in settled')
      BY <2>1, <2>2, GateEndsWell, ModelEndsWell, StopEndsWell
    <3>2. ASSUME NEW u \in Turn \ {t}
          PROVE  /\ turns'[u] = turns[u] /\ stream'[u] = stream[u]
                 /\ (u \in settled') <=> (u \in settled)
      <4>1. turns'[u] = turns[u]
        BY <2>1, <2>2, OthersStay
      <4>2. stream'[u] = stream[u] /\ ((u \in settled') <=> (u \in settled))
        BY <2>1, <2>2 DEF TurnTypeOK, Begin, GateAnswers, GetReservation, Blocked, ReserveRaises,
                          Settled, SettleRaises, SettlementStored, EndsStream, ModelAnswers,
                          FinalAnswer, ToolsWanted, CallRaises, ToolEnds, ToolReturns,
                          RequestCancel, TaskDropped, GrantUnheard
      <4> QED
        BY <4>1, <4>2
    <3> QED
      BY <3>1, <3>2 DEF AllEndWell, EndsWell
  <2>3. ASSUME NEW t \in Turn, TimePasses(t)
        PROVE  AllEndWell'
    BY <2>3 DEF TimePasses, AllEndWell
  <2>4. CASE UNCHANGED turnVars
    BY <2>4 DEF turnVars, AllEndWell
  <2> QED
    BY <2>2, <2>3, <2>4 DEF TurnNext
<1>3. AllEndWell => EndingIsTold
  BY DEF AllEndWell, EndsWell, EndingIsTold
<1> QED
  BY <1>1, <1>2, <1>3, TurnInitInv, TurnStep, PTL DEF TurnSpec
================================================================================
