------------------------------ MODULE OrderProofs ------------------------------
(******************************************************************************)
(* Orders: what a tenant may propose and cancel, then what becomes of an       *)
(* order's row in the worker.                                                  *)
(*                                                                             *)
(* The desk, for any finite set of requests, any tenants, bodies and limits:   *)
(* requests that overlap may go past the limit of the day together, one that   *)
(* comes later may not; what cancellations are answered stays true; a position *)
(* passes its limit by what a request was not measured with and never by what  *)
(* it was; and the average cost lies between the prices paid.  The limit on    *)
(* positions goes along what a request's reading counted of each order, which  *)
(* the broker's fills can only grow past; the average goes along the book.     *)
(*                                                                             *)
(* The tracker, for any set of orders, any set of callback threads and any     *)
(* number of retries: the rows are only ever written by Register and by a      *)
(* compare-and-set that found the status its thread had judged; the lemmas     *)
(* say what that makes of a row, and the invariant ties it to what the calls   *)
(* hold.                                                                       *)
(******************************************************************************)
EXTENDS OrderDeskProperties, OrderTrackerProperties, FiniteSumTheorems, TLAPS

\* What is queued was accepted, and the worker knows of no other order.
RowsWereProposed ==
    /\ \A r \in queued : At(r, "accepted")
    /\ \A r \in Request : row[r] # "absent" => r \in queued

\* The orders of the day only get more.
DayOnlyGrows ==
    \A r \in Request : Live(r) => request[r].before <= OrdersToday(TenantOf(r))

\* The parts of CancelsAreAnswered that are about what happened.
RefusedStayOver ==
    \A told \in conflicts :
        row[told[1]] = told[2] \/ (told[2] = "CANCELED" /\ row[told[1]] = "FILLED")
CancelsAreOwn ==
    \A c \in cancels \cup asked : c[2] \in queued /\ TenantOf(c[2]) = c[1]

\* What every step of the desk preserves.
IInv ==
    /\ TypeOK
    /\ RowsWereProposed
    /\ DayOnlyGrows
    /\ LateRequestsAreRefused
    /\ RefusedStayOver
    /\ CancelsAreOwn

USE LimitsAssumption, BodiesAssumption

-----------------------------------------------------------------------------
(* The orders of the day *)

\* A count of orders is a number, and there are no fewer in a larger set.
LEMMA CountGrows ==
    ASSUME NEW A, NEW B \in SUBSET Request, A \subseteq B
    PROVE  Cardinality(A) \in Nat /\ Cardinality(B) \in Nat /\ Cardinality(A) <= Cardinality(B)
<1>1. IsFiniteSet(B)
  BY FS_Subset
<1>2. IsFiniteSet(A) /\ Cardinality(A) <= Cardinality(B)
  BY <1>1, FS_Subset
<1> QED
  BY <1>1, <1>2, FS_CardinalityType

\* Whoever steps, the orders a tenant has placed today are as many or more,
\* as long as queued ones stay queued, under the tenant they are of.
LEMMA TodayGrows ==
    ASSUME queued \subseteq queued', queued' \subseteq Request,
           \A o \in queued : TenantOf(o)' = TenantOf(o),
           NEW t
    PROVE  /\ OrdersToday(t) \in Nat /\ OrdersToday(t)' \in Nat
           /\ OrdersToday(t) <= OrdersToday(t)'
<1>1. QueuedBy(t) \subseteq QueuedBy(t)' /\ QueuedBy(t)' \in SUBSET Request
  BY DEF QueuedBy
<1> QED
  BY <1>1, CountGrows DEF OrdersToday

-----------------------------------------------------------------------------
(* The requests *)

\* What a step may do to one request: it starts, having seen what there is today;
\* it goes on, with its tenant and what it has seen; or it ends.  It gets past the
\* limits only when the day is not used up, and the others do not move.
Progress(r) ==
    /\ DOMAIN request' = Request
    /\ \A k \in Request \ {r} : request'[k] = request[k]
    /\ \/ request'[r] \in [at : {"nowhere", "unprocessable", "refused", "failed"}]
       \/ request'[r].at \in Measuring \cup {"accepted"} /\ request'[r] \in LiveRequest(request'[r].held)
    /\ Live(r)' => \/ Live(r) /\ request'[r].tenant = request[r].tenant
                              /\ request'[r].before = request[r].before
                   \/ At(r, "nowhere") /\ request'[r].before = OrdersToday(request'[r].tenant)
    /\ At(r, "committing")' => perDay = 0 \/ OrdersToday(request'[r].tenant) < perDay
    /\ At(r, "accepted")' => At(r, "committing") /\ queued' = queued \cup {r}
    /\ ~At(r, "accepted")

\* A request comes in.
LEMMA PostProgress ==
    ASSUME IInv, NEW r \in Request, NEW t \in Client, NEW b \in Bodies, Post(r, t, b)
    PROVE  Progress(r)
<1> DEFINE y == IF WellPriced(b)
                THEN [at |-> "positions", tenant |-> t, body |-> b,
                      equity |-> 0, held |-> 0, before |-> OrdersToday(t)]
                ELSE Ended("unprocessable")
<1>1. DOMAIN request = Request /\ At(r, "nowhere") /\ queued \in SUBSET Request
  BY DEF IInv, TypeOK, Post
<1>2. request' = [request EXCEPT ![r] = y]
  BY DEF Post
<1>3. OrdersToday(t) \in Nat
  BY <1>1, CountGrows DEF OrdersToday, QueuedBy
<1>4. CASE WellPriced(b)
  <2>1. y = [at |-> "positions", tenant |-> t, body |-> b,
             equity |-> 0, held |-> 0, before |-> OrdersToday(t)]
    BY <1>4
  <2>2. request'[r] = y
    BY <1>1, <1>2
  <2> HIDE DEF y
  <2>3. y \in LiveRequest(y.held) /\ y.at = "positions" /\ y.before = OrdersToday(y.tenant)
    BY <1>3, <2>1 DEF LiveRequest, Measuring
  <2> QED
    BY <1>1, <1>2, <2>2, <2>3 DEF Progress, At, Live, Measuring
<1>5. CASE ~WellPriced(b)
  <2>1. y = [at |-> "unprocessable"]
    BY <1>5 DEF Ended
  <2>2. request'[r] = y
    BY <1>1, <1>2
  <2> HIDE DEF y
  <2> QED
    BY <1>1, <1>2, <2>1, <2>2 DEF Progress, At, Live, Measuring
<1> QED
  BY <1>4, <1>5

\* What has been read is kept.
LEMMA ReadProgress ==
    ASSUME IInv, NEW r \in Request, ReadPositions(r)
    PROVE  Progress(r)
<1> DEFINE x == request[r]
           h == Shares(TenantOf(r), Asks(r).symbol)
<1>1. DOMAIN request = Request /\ At(r, "positions") /\ x \in LiveRequest(x.held)
  BY DEF IInv, TypeOK, ReadPositions, At
<1>2. PICK e \in Equity : request' = [request EXCEPT ![r] =
                              [x EXCEPT !.at = "today", !.equity = e, !.held = h]]
  BY DEF ReadPositions
<1>3. ASSUME NEW n, NEW y, y = [x EXCEPT !.at = "today", !.equity = e, !.held = n]
      PROVE  /\ y \in LiveRequest(y.held) /\ y.at = "today" /\ y.tenant = x.tenant
             /\ y.before = x.before
  <2> HIDE DEF x
  <2> QED
    BY <1>1, <1>3 DEF LiveRequest, Measuring
<1> HIDE DEF h
<1>4. request'[r] = [x EXCEPT !.at = "today", !.equity = e, !.held = h]
  BY <1>1, <1>2
<1>5. /\ request'[r] \in LiveRequest(request'[r].held) /\ request'[r].at = "today"
      /\ request'[r].tenant = x.tenant /\ request'[r].before = x.before
  BY <1>3, <1>4, ZenonT(30)
<1> QED
  BY <1>1, <1>2, <1>5 DEF Progress, At, Live, Measuring

\* A proposal is measured against the orders of the day as they are.
LEMMA AssessProgress ==
    ASSUME IInv, NEW r \in Request, Assess(r)
    PROVE  Progress(r)
<1> DEFINE x == request[r]
           against == Refusals(Asks(r), x.held, OrdersToday(TenantOf(r)), x.equity)
<1>1. DOMAIN request = Request /\ At(r, "today") /\ x \in LiveRequest(x.held)
  BY DEF IInv, TypeOK, Assess, At
<1>2. request' = [request EXCEPT ![r] =
                     IF against = {} THEN [x EXCEPT !.at = "committing"] ELSE Ended("refused")]
  BY DEF Assess
<1>3. CASE against = {}
  <2>1. perDay = 0 \/ ~(OrdersToday(TenantOf(r)) >= perDay)
    <3>1. ~Breached(Asks(r), x.held, OrdersToday(TenantOf(r)), x.equity)["daily_limit_reached"]
      BY <1>3 DEF Refusals, RiskRefusal
    <3> QED
      BY <3>1 DEF Breached
  <2>2. OrdersToday(x.tenant) \in Nat /\ perDay \in Nat
    BY CountGrows DEF IInv, TypeOK, OrdersToday, QueuedBy
  <2>3. perDay = 0 \/ OrdersToday(x.tenant) < perDay
    BY <2>1, <2>2 DEF TenantOf
  <2> HIDE DEF against
  <2>4. request'[r] = [x EXCEPT !.at = "committing"]
    BY <1>1, <1>2, <1>3
  <2>5. ASSUME NEW y, y = [x EXCEPT !.at = "committing"]
        PROVE  /\ y \in LiveRequest(y.held) /\ y.at = "committing" /\ y.tenant = x.tenant
               /\ y.before = x.before
    <3> HIDE DEF x
    <3> QED
      BY <1>1, <2>5 DEF LiveRequest, Measuring
  <2>6. /\ request'[r] \in LiveRequest(request'[r].held) /\ request'[r].at = "committing"
        /\ request'[r].tenant = x.tenant /\ request'[r].before = x.before
    BY <2>4, <2>5
  <2> QED
    BY <1>1, <1>2, <2>3, <2>6 DEF Progress, At, Live, Measuring
<1>4. CASE against # {}
  <2> HIDE DEF against
  <2>1. request'[r] = [at |-> "refused"]
    BY <1>1, <1>2, <1>4 DEF Ended
  <2> QED
    BY <1>1, <1>2, <2>1 DEF Progress, At, Live, Measuring
<1> QED
  BY <1>3, <1>4

\* What is committed is accepted, and queued with it.
LEMMA CommitProgress ==
    ASSUME IInv, NEW r \in Request, Commit(r)
    PROVE  Progress(r)
<1> DEFINE x == request[r]
<1>1. DOMAIN request = Request /\ At(r, "committing") /\ x \in LiveRequest(x.held)
  BY DEF IInv, TypeOK, Commit, At
<1>2. /\ request' = [request EXCEPT ![r] = [x EXCEPT !.at = "accepted", !.held = 0]]
      /\ queued' = queued \cup {r}
  BY DEF Commit
<1>3. ASSUME NEW y, y = [x EXCEPT !.at = "accepted", !.held = 0]
      PROVE  /\ y \in LiveRequest(y.held) /\ y.at = "accepted" /\ y.tenant = x.tenant
             /\ y.before = x.before
  <2> HIDE DEF x
  <2> QED
    BY <1>1, <1>3 DEF LiveRequest, Measuring
<1>4. request'[r] = [x EXCEPT !.at = "accepted", !.held = 0]
  BY <1>1, <1>2
<1>5. /\ request'[r] \in LiveRequest(request'[r].held) /\ request'[r].at = "accepted"
      /\ request'[r].tenant = x.tenant /\ request'[r].before = x.before
  BY <1>3, <1>4
<1> QED
  BY <1>1, <1>2, <1>5 DEF Progress, At, Live, Measuring

\* A transaction that is lost takes the proposal with it.
LEMMA FailProgress ==
    ASSUME IInv, NEW r \in Request, Fail(r)
    PROVE  Progress(r)
<1>1. DOMAIN request = Request /\ request[r].at \in Measuring
  BY DEF IInv, TypeOK, Fail
<1>2. request'[r] = [at |-> "failed"] /\ \A k \in Request \ {r} : request'[k] = request[k]
  BY <1>1 DEF Fail, Ended
<1>3. DOMAIN request' = Request
  BY <1>1 DEF Fail
<1> QED
  BY <1>1, <1>2, <1>3 DEF Progress, At, Live, Measuring

-----------------------------------------------------------------------------
(* The invariant *)

\* A step of one request keeps what is known of all of them.
LEMMA ProgressKeeps ==
    ASSUME IInv, NEW r \in Request, Progress(r),
           queued' = queued \/ (At(r, "accepted")' /\ queued' = queued \cup {r}),
           UNCHANGED <<row, book, asked, cancels, conflicts, perDay, fill, recorded>>,
           knew' \in [Request -> [Request -> Nat]]
    PROVE  IInv'
<1>1. TypeOK'
  <2>1. \A k \in Request :
            \/ request'[k] \in [at : {"nowhere", "unprocessable", "refused", "failed"}]
            \/ Live(k)' /\ request'[k] \in LiveRequest(request'[k].held)
    BY DEF IInv, TypeOK, Progress, Live
  <2>2. DOMAIN request' = Request /\ queued' \subseteq Request
    BY DEF IInv, TypeOK, Progress
  <2> QED
    BY <2>1, <2>2 DEF IInv, TypeOK, LiveRequest
<1>2. \A o \in queued : o # r /\ request'[o] = request[o]
  BY DEF IInv, TypeOK, RowsWereProposed, Progress
<1>3. queued \subseteq queued' /\ queued' \subseteq Request
      /\ \A o \in queued : TenantOf(o)' = TenantOf(o)
  BY <1>1, <1>2 DEF TypeOK, TenantOf
<1>4. RowsWereProposed'
  BY <1>2, <1>3 DEF IInv, RowsWereProposed, At
<1>5. \A t : /\ OrdersToday(t) \in Nat /\ OrdersToday(t)' \in Nat
             /\ OrdersToday(t) <= OrdersToday(t)'
  BY <1>3, TodayGrows
<1>6. DayOnlyGrows'
  <2> SUFFICES ASSUME NEW k \in Request, Live(k)'
               PROVE  request'[k].before <= OrdersToday(TenantOf(k))'
    BY DEF DayOnlyGrows
  <2>1. request'[k].before \in Nat
    BY <1>1 DEF TypeOK, LiveRequest, Live, Measuring
  <2>2. TenantOf(k)' = request'[k].tenant
    BY DEF TenantOf
  <2>3. request'[k].before <= OrdersToday(request'[k].tenant)
    <3>1. CASE k # r
      BY <3>1 DEF IInv, DayOnlyGrows, Progress, Live, TenantOf
    <3>2. CASE k = r /\ Live(r)
      BY <3>2, <1>5, <2>1 DEF IInv, DayOnlyGrows, Progress, Live, TenantOf, At, Measuring
    <3>3. CASE k = r /\ ~Live(r)
      BY <3>3, <1>5, <2>1 DEF Progress
    <3> QED
      BY <3>1, <3>2, <3>3
  <2>4. OrdersToday(request'[k].tenant) <= OrdersToday(TenantOf(k))'
    <3>1. ASSUME NEW t, t = request'[k].tenant PROVE OrdersToday(t)' = OrdersToday(TenantOf(k))'
      BY <3>1 DEF OrdersToday, QueuedBy, TenantOf
    <3> QED
      BY <1>5, <3>1
  <2> QED
    BY <1>5, <2>1, <2>3, <2>4
<1>7. LateRequestsAreRefused'
  <2> SUFFICES ASSUME NEW k \in Request, At(k, "committing")' \/ At(k, "accepted")'
               PROVE  perDay = 0 \/ request'[k].before < perDay
    BY DEF LateRequestsAreRefused, Accepted
  <2>1. CASE k # r
    BY <2>1 DEF IInv, LateRequestsAreRefused, Progress, At, Accepted
  <2>2. CASE k = r /\ At(r, "accepted")'
    <3>1. Live(r)' /\ At(r, "committing") /\ request'[r].before = request[r].before
      BY <2>2 DEF Progress, Live, At
    <3> QED
      BY <2>2, <3>1 DEF IInv, LateRequestsAreRefused
  <2>3. CASE k = r /\ At(r, "committing")'
    <3>1. Live(r)' /\ request'[r].before \in Nat
      BY <1>1, <2>3 DEF TypeOK, LiveRequest, Live, Measuring, At
    <3>2. perDay = 0 \/ OrdersToday(request'[r].tenant) < perDay
      BY <2>3 DEF Progress
    <3>3. request'[r].before <= OrdersToday(request'[r].tenant)
      BY <3>1, <1>5 DEF Progress, IInv, DayOnlyGrows, TenantOf
    <3>4. perDay \in Nat
      BY DEF IInv, TypeOK
    <3> QED
      BY <2>3, <3>1, <3>2, <3>3, <3>4, <1>5
  <2> QED
    BY <2>1, <2>2, <2>3
<1>8. RefusedStayOver' /\ CancelsAreOwn'
  BY <1>2, <1>3 DEF IInv, RefusedStayOver, CancelsAreOwn, TenantOf
<1> QED
  BY <1>1, <1>4, <1>6, <1>7, <1>8 DEF IInv

\* A step that moves no request keeps what is known of the requests, if what it
\* does to orders and cancellations is of orders that are queued.
LEMMA OrderStep ==
    ASSUME IInv, UNCHANGED <<request, queued, perDay, knew>>,
           fill' \in [Request -> [quantity : Nat, price : Price \cup {0}]],
           recorded' \in [Request -> [quantity : Nat, price : Price \cup {0}]],
           row' \in [Request -> Reportable \cup {"SUBMITTED", "absent"}], book' \in Seq(Request),
           asked' \subseteq Client \X Request, cancels' \subseteq Client \X Request,
           conflicts' \subseteq Request \X StatusTerminal,
           \A o \in Request : row'[o] # "absent" => o \in queued,
           RefusedStayOver', CancelsAreOwn'
    PROVE  IInv'
<1>1. TypeOK'
  BY DEF IInv, TypeOK, LiveRequest, Live
<1>2. RowsWereProposed'
  BY DEF IInv, RowsWereProposed, At
<1>3. \A r \in Request : TenantOf(r)' = TenantOf(r)
  BY DEF TenantOf
<1>4. \A t : OrdersToday(t)' = OrdersToday(t)
  BY DEF OrdersToday, QueuedBy, TenantOf
<1>5. DayOnlyGrows'
  BY <1>3, <1>4 DEF IInv, DayOnlyGrows, Live
<1>6. LateRequestsAreRefused'
  BY DEF IInv, LateRequestsAreRefused, At, Accepted
<1> QED
  BY <1>1, <1>2, <1>5, <1>6 DEF IInv

\* An order that is over moves on from a cancellation only, and to a fill.
LEMMA OverButFilled ==
    ASSUME NEW from \in StatusTerminal, NEW to \in Reportable, CanTransition(from, to)
    PROVE  from = "CANCELED" /\ to = "FILLED"
  BY DEF CanTransition, TABLE, StatusTerminal, Reportable

\* Every step of the desk, of the worker and of the broker keeps the invariant.
THEOREM DeskInductive == IInv /\ [Next]_vars => IInv'
<1> SUFFICES ASSUME IInv, [Next]_vars PROVE IInv'
  OBVIOUS
<1>1. ASSUME NEW r \in Request, NEW t \in Client, NEW b \in Bodies, Post(r, t, b) PROVE IInv'
  BY <1>1, PostProgress, ProgressKeeps DEF Post, IInv, TypeOK
<1>2. ASSUME NEW r \in Request, ReadPositions(r) PROVE IInv'
  <2>1. knew' \in [Request -> [Request -> Nat]]
    <3> DEFINE counted == [o \in Request |-> IF o \in FilledOf(TenantOf(r), Asks(r).symbol)
                                             THEN FilledQuantity(o) ELSE 0]
    <3>1. counted \in [Request -> Nat]
      BY DEF IInv, TypeOK, FilledQuantity
    <3> HIDE DEF counted
    <3>2. knew' = [knew EXCEPT ![r] = counted] /\ knew \in [Request -> [Request -> Nat]]
      BY <1>2, Zenon DEF ReadPositions, counted, IInv, TypeOK
    <3> QED
      BY <3>1, <3>2
  <2> QED
    BY <1>2, <2>1, ReadProgress, ProgressKeeps DEF ReadPositions
<1>3. ASSUME NEW r \in Request, Assess(r) PROVE IInv'
  BY <1>3, AssessProgress, ProgressKeeps DEF Assess, IInv, TypeOK
<1>4. ASSUME NEW r \in Request, Commit(r) PROVE IInv'
  <2>1. At(r, "accepted")'
    <3>1. DOMAIN request = Request /\ request[r] \in LiveRequest(request[r].held)
      BY <1>4 DEF IInv, TypeOK, Commit, At
    <3>2. request'[r] = [request[r] EXCEPT !.at = "accepted", !.held = 0]
      BY <1>4, <3>1 DEF Commit
    <3> QED
      BY <3>1, <3>2 DEF LiveRequest, At
  <2> QED
    BY <1>4, <2>1, CommitProgress, ProgressKeeps DEF Commit, IInv, TypeOK
<1>5. ASSUME NEW r \in Request, Fail(r) PROVE IInv'
  BY <1>5, FailProgress, ProgressKeeps DEF Fail, IInv, TypeOK
<1>6. ASSUME NEW t \in Client, NEW o \in Request, AskCancel(t, o) PROVE IInv'
  <2>1. o \in queued /\ TenantOf(o) = t
    BY <1>6 DEF AskCancel, ByBrokerId, Scoped, IInv, RowsWereProposed
  <2>2. CancelsAreOwn'
    BY <1>6, <2>1 DEF AskCancel, IInv, CancelsAreOwn, TenantOf
  <2>3. RefusedStayOver'
    BY <1>6 DEF AskCancel, IInv, RefusedStayOver
  <2>4. asked' \subseteq Client \X Request /\ UNCHANGED <<cancels, conflicts>>
    BY <1>6 DEF AskCancel, IInv, TypeOK
  <2> QED
    BY <1>6, <2>2, <2>3, <2>4, OrderStep DEF AskCancel, IInv, TypeOK, RowsWereProposed
<1>7. ASSUME NEW t \in Client, NEW o \in Request, RefuseCancel(t, o) PROVE IInv'
  <2>1. RefusedStayOver'
    BY <1>7 DEF RefuseCancel, IInv, RefusedStayOver
  <2>2. CancelsAreOwn'
    BY <1>7 DEF RefuseCancel, IInv, CancelsAreOwn, TenantOf
  <2>4. conflicts' \subseteq Request \X StatusTerminal /\ UNCHANGED <<cancels, asked>>
    BY <1>7 DEF RefuseCancel, IInv, TypeOK, ByBrokerId, Scoped
  <2> QED
    BY <1>7, <2>1, <2>2, <2>4, OrderStep DEF RefuseCancel, IInv, TypeOK, RowsWereProposed
<1>8. ASSUME NEW t \in Client, NEW o \in Request, CommitCancel(t, o) PROVE IInv'
  <2>1. CancelsAreOwn'
    BY <1>8 DEF CommitCancel, IInv, CancelsAreOwn, TenantOf
  <2>2. RefusedStayOver'
    BY <1>8 DEF CommitCancel, IInv, RefusedStayOver
  <2> QED
    BY <1>8, <2>1, <2>2, OrderStep DEF CommitCancel, IInv, TypeOK, RowsWereProposed
<1>9. ASSUME NEW o \in Request, Placed(o) PROVE IInv'
  <2>1. RefusedStayOver'
    BY <1>9 DEF Placed, IInv, TypeOK, RefusedStayOver, StatusTerminal
  <2>2. CancelsAreOwn'
    BY <1>9 DEF Placed, IInv, CancelsAreOwn, TenantOf
  <2> QED
    BY <1>9, <2>1, <2>2, OrderStep DEF Placed, IInv, TypeOK, RowsWereProposed
<1>10. ASSUME NEW o \in Request, Reported(o) PROVE IInv'
  <2>1. PICK to \in Reportable : CanTransition(row[o], to) /\ row' = [row EXCEPT ![o] = to]
    BY <1>10 DEF Reported
  <2>2. row[o] # "absent" /\ row[o] # "FILLED"
    BY <2>1 DEF CanTransition, TABLE
  <2>3. RefusedStayOver'
    <3> SUFFICES ASSUME NEW told \in conflicts
                 PROVE  row'[told[1]] = told[2] \/ (told[2] = "CANCELED" /\ row'[told[1]] = "FILLED")
      BY <1>10 DEF Reported, RefusedStayOver
    <3>1. told[1] \in Request /\ told[2] \in StatusTerminal
      BY DEF IInv, TypeOK
    <3>2. CASE told[1] # o
      BY <2>1, <3>1, <3>2 DEF IInv, TypeOK, RefusedStayOver
    <3>3. CASE told[1] = o
      <4>1. row[o] = told[2]
        BY <2>2, <3>3 DEF IInv, RefusedStayOver
      <4>2. told[2] = "CANCELED" /\ to = "FILLED"
        BY <2>1, <3>1, <4>1, OverButFilled
      <4> QED
        BY <2>1, <3>3, <4>2 DEF IInv, TypeOK
    <3> QED
      BY <3>2, <3>3
  <2>4. CancelsAreOwn'
    BY <1>10 DEF Reported, IInv, CancelsAreOwn, TenantOf
  <2>5. /\ row' \in [Request -> Reportable \cup {"SUBMITTED", "absent"}]
        /\ \A k \in Request : row'[k] # "absent" => k \in queued
    BY <2>1, <2>2 DEF IInv, TypeOK, RowsWereProposed
  <2> QED
    BY <1>10, <2>3, <2>4, <2>5, OrderStep DEF Reported, IInv, TypeOK
<1>11. ASSUME NEW o \in Request, Filled(o) PROVE IInv'
  <2>1. PICK quantity \in fill[o].quantity + 1 .. Asks(o).quantity,
             price \in FillPrices(request[o].body) :
                 fill' = [fill EXCEPT ![o] = [quantity |-> quantity, price |-> price]]
    BY <1>11 DEF Filled
  <2>2. fill' \in [Request -> [quantity : Nat, price : Price \cup {0}]]
    <3>1. Asks(o).quantity \in Nat /\ fill[o].quantity \in Nat
      <4>1. request[o] \in LiveRequest(request[o].held) /\ o \in Request
        BY <1>11 DEF Filled, IInv, TypeOK, RowsWereProposed, Live, At
      <4>2. request[o].body \in Body
        BY <4>1 DEF LiveRequest
      <4> QED
        BY <4>2 DEF IInv, TypeOK, Asks, Proposal, Body
    <3>2. quantity \in Nat /\ price \in Price
      BY <2>1, <3>1 DEF FillPrices
    <3> QED
      BY <2>1, <3>2 DEF IInv, TypeOK
  <2>3. RefusedStayOver' /\ CancelsAreOwn'
    BY <1>11 DEF Filled, IInv, RefusedStayOver, CancelsAreOwn, TenantOf
  <2> QED
    BY <1>11, <2>2, <2>3, OrderStep DEF Filled, IInv, TypeOK, RowsWereProposed
<1>12. ASSUME NEW o \in Request, Recorded(o) PROVE IInv'
  <2>1. RefusedStayOver' /\ CancelsAreOwn'
    BY <1>12 DEF Recorded, IInv, RefusedStayOver, CancelsAreOwn, TenantOf
  <2>2. recorded' \in [Request -> [quantity : Nat, price : Price \cup {0}]]
    BY <1>12 DEF Recorded, IInv, TypeOK
  <2> QED
    BY <1>12, <2>1, <2>2, OrderStep DEF Recorded, IInv, TypeOK, RowsWereProposed
<1>13. CASE UNCHANGED vars
  <2>1. RefusedStayOver' /\ CancelsAreOwn'
    BY <1>13 DEF vars, IInv, RefusedStayOver, CancelsAreOwn, TenantOf
  <2> QED
    BY <1>13, <2>1, OrderStep DEF vars, IInv, TypeOK, RowsWereProposed
<1> QED
  BY <1>1, <1>2, <1>3, <1>4, <1>5, <1>6, <1>7, <1>8, <1>9, <1>10, <1>11, <1>12, <1>13 DEF Next

\* A desk that has seen no request satisfies it.
LEMMA DeskStarts == Init => IInv
<1> SUFFICES ASSUME Init PROVE IInv
  OBVIOUS
<1>1. \A r \in Request : request[r] = [at |-> "nowhere"]
  BY DEF Init, Ended
<1>2. TypeOK
  BY <1>1 DEF Init, TypeOK, StatusTerminal, Unfilled
<1>3. RowsWereProposed /\ DayOnlyGrows /\ LateRequestsAreRefused
  BY <1>1 DEF Init, RowsWereProposed, DayOnlyGrows, LateRequestsAreRefused, At, Live,
              Measuring, Accepted
<1>4. RefusedStayOver /\ CancelsAreOwn
  BY DEF Init, RefusedStayOver, CancelsAreOwn
<1> QED
  BY <1>2, <1>3, <1>4 DEF IInv

\* Always.
LEMMA DeskInvariant == Spec => []IInv
  BY DeskStarts, DeskInductive, PTL DEF Spec

-----------------------------------------------------------------------------
(* What it shows *)

\* The desk's variables keep their types: a request under way has all its parts.
THEOREM TypeCorrect == Spec => []TypeOK
<1>1. IInv => TypeOK
  BY DEF IInv
<1> QED
  BY <1>1, DeskInvariant, PTL

\* However many requests of a tenant are measured at the same time, one that came
\* when the day was used up never gets past the limit (place_order, assess).
THEOREM DayHolds == Spec => []LateRequestsAreRefused
<1>1. IInv => LateRequestsAreRefused
  BY DEF IInv
<1> QED
  BY <1>1, DeskInvariant, PTL

\* What a cancellation was answered stays true, but for a fill that overtakes it;
\* what can be cancelled is what is shown as working; nobody cancels for another.
THEOREM AnswersHold == Spec => []CancelsAreAnswered
<1>1. IInv => CancelsAreAnswered
  <2> SUFFICES ASSUME IInv PROVE CancelsAreAnswered
    OBVIOUS
  <2>1. \A o \in Request : row[o] # "absent" =>
            (row[o] \notin StatusTerminal <=> row[o] \in StatusWorking)
    BY DEF IInv, TypeOK, Reportable, StatusTerminal, StatusWorking
  <2>2. \A t \in Client : {o \in Scoped(t) : row[o] \notin StatusTerminal} = Working(t)
    BY <2>1 DEF Scoped, Working
  <2> QED
    BY <2>2 DEF IInv, RefusedStayOver, CancelsAreOwn, CancelsAreAnswered
<1> QED
  BY <1>1, DeskInvariant, PTL

--------------------------------------------------------------------------------
(* The limit on positions.  What a request's reading counted of an order is no more than
   the broker had filled of it, and the broker only fills more: so what a request was
   measured with stays a part of what is held, and what is held besides is what it was
   not measured with. *)

\* The broker fills no more than was asked, and what is told of it lags behind.
FillsAreBounded ==
    \A o \in Request :
        /\ o \in queued => fill[o].quantity <= Asks(o).quantity
        /\ o \notin queued => fill[o].quantity = 0
        /\ recorded[o].quantity <= fill[o].quantity

\* What a request's reading counted, on one side and in all.
CountedBy(r) == {o \in Request : knew[r][o] > 0}
Counted(r, side) == SumOver(knew[r], Sided(CountedBy(r), side))
Net(r) == Counted(r, "BUY") - Counted(r, "SELL")

\* The holding has room for the order: enough to sell, or to buy within the limit.
HasRoom(p, held, equity) ==
    /\ p.side = "SELL" => p.quantity <= held
    /\ p.side = "BUY" => ~Exceeds(p.price * (held + p.quantity), MaxPositionFraction, equity)

\* A request's reading, and what it was measured with.
Sound(r) ==
    /\ knew[r][r] = 0
    /\ \A o \in Request : knew[r][o] <= fill[o].quantity
    /\ At(r, "today") \/ At(r, "committing") \/ At(r, "accepted") =>
           CountedBy(r) \subseteq OrdersOf(TenantOf(r), Asks(r).symbol)
    /\ At(r, "today") => request[r].held = Net(r)
    /\ At(r, "committing") \/ At(r, "accepted") => HasRoom(Asks(r), Net(r), request[r].equity)
    /\ At(r, "accepted") => r \in queued
    /\ Live(r) => WellPriced(request[r].body)

MeasuredInv == FillsAreBounded /\ \A r \in Request : Sound(r)

\* A request under way has all its parts.
LEMMA LiveType ==
    ASSUME IInv, NEW r \in Request, Live(r)
    PROVE  /\ request[r] \in LiveRequest(request[r].held) /\ request[r].body \in Body
           /\ TenantOf(r) \in Client /\ request[r].equity \in Equity \cup {0}
           /\ Asks(r).symbol \in Symbol /\ Asks(r).side \in {"BUY", "SELL"}
           /\ Asks(r).quantity \in Nat \ {0}
<1>1. request[r] \in LiveRequest(request[r].held)
  BY DEF IInv, TypeOK, Live, Measuring
<1>2. /\ request[r].body \in Body /\ request[r].tenant \in Client
      /\ request[r].equity \in Equity \cup {0}
  BY <1>1 DEF LiveRequest
<1> QED
  BY <1>1, <1>2 DEF TenantOf, Asks, Proposal, Body

LEMMA QueuedIsLive ==
    ASSUME IInv, NEW o \in queued
    PROVE  o \in Request /\ Live(o)
  BY DEF IInv, TypeOK, RowsWereProposed, Live, At

QuantitiesAreAsked == \A o \in queued : Asks(o).quantity \in Nat

LEMMA QuantityType == IInv => QuantitiesAreAsked
  BY QueuedIsLive, LiveType DEF QuantitiesAreAsked

\* A proposal that is priced has a price that is a number of the market's.
LEMMA PriceType ==
    ASSUME NEW b \in Body, WellPriced(b)
    PROVE  Proposal(b).price \in Nat
<1>1. b.limit \in Price \cup {-1} /\ b.reference \in Price \cup {-1}
  BY DEF Body
<1>2. Proposal(b).price = IF b.reference # -1 THEN b.reference ELSE b.limit
  BY DEF Proposal
<1> QED
  BY <1>1, <1>2 DEF WellPriced

\* What is counted is of queued orders, and a number.
LEMMA CountedType ==
    ASSUME IInv, FillsAreBounded, NEW r \in Request, Sound(r)
    PROVE  /\ CountedBy(r) \subseteq queued /\ IsFiniteSet(CountedBy(r))
           /\ \A o \in Request : knew[r][o] \in Nat /\ fill[o].quantity \in Nat
           /\ \A side : Counted(r, side) \in Nat
<1>1. \A o \in Request : knew[r][o] \in Nat /\ fill[o].quantity \in Nat
  BY DEF IInv, TypeOK
<1>2. CountedBy(r) \subseteq queued
  BY <1>1 DEF CountedBy, Sound, FillsAreBounded
<1>3. IsFiniteSet(CountedBy(r))
  BY FS_Subset DEF CountedBy
<1>4. ASSUME NEW side PROVE Counted(r, side) \in Nat
  <2>1. IsFiniteSet(Sided(CountedBy(r), side)) /\ Sided(CountedBy(r), side) \subseteq Request
    BY <1>3, FS_Subset DEF Sided, CountedBy
  <2> QED
    BY <1>1, <2>1, SumType DEF Counted
<1> QED
  BY <1>1, <1>2, <1>3, <1>4

\* What a reading counted stays, whatever becomes of other requests.
LEMMA ReadingStays ==
    ASSUME IInv, FillsAreBounded, NEW r \in Request, Sound(r), knew'[r] = knew[r],
           \A o \in queued : request'[o] = request[o]
    PROVE  CountedBy(r)' = CountedBy(r) /\ Net(r)' = Net(r)
<1>1. CountedBy(r) \subseteq queued /\ CountedBy(r)' = CountedBy(r)
  BY CountedType DEF CountedBy
<1>2. ASSUME NEW side PROVE Counted(r, side)' = Counted(r, side)
  <2>1. Sided(CountedBy(r), side)' = Sided(CountedBy(r), side)
    BY <1>1 DEF Sided, Asks
  <2> QED
    BY <2>1 DEF Counted, SumOver, Units
<1> QED
  BY <1>1, <1>2 DEF Net

\* A request that does not step stays sound.
LEMMA OthersStaySound ==
    ASSUME IInv, IInv', FillsAreBounded, NEW r \in Request, Sound(r), knew'[r] = knew[r],
           request'[r] = request[r], queued \subseteq queued',
           \A o \in queued : request'[o] = request[o],
           \A o \in Request : fill[o].quantity <= fill'[o].quantity
    PROVE  Sound(r)'
<1>1. CountedBy(r)' = CountedBy(r) /\ Net(r)' = Net(r) /\ CountedBy(r) \subseteq queued
  BY ReadingStays, CountedType
<1>2. knew'[r][r] = 0 /\ \A o \in Request : knew'[r][o] <= fill'[o].quantity
  <2>1. \A o \in Request : fill'[o].quantity \in Nat
    BY DEF IInv, TypeOK
  <2> QED
    BY <2>1, CountedType DEF Sound
<1>3. TenantOf(r)' = TenantOf(r) /\ Asks(r)' = Asks(r)
  BY DEF TenantOf, Asks
<1>4. \A place : At(r, place)' <=> At(r, place)
  BY DEF At
<1>5. OrdersOf(TenantOf(r), Asks(r).symbol) \subseteq OrdersOf(TenantOf(r), Asks(r).symbol)'
  BY <1>3 DEF OrdersOf, TenantOf, Asks
<1> QED
  BY <1>1, <1>2, <1>3, <1>4, <1>5 DEF Sound, HasRoom, Exceeds, WellPriced, Live

\* Steps of one request, which change no fill.
LEMMA OneSteps ==
    ASSUME IInv, IInv', MeasuredInv, NEW r \in Request, r \notin queued,
           queued' = queued \/ queued' = queued \cup {r},
           UNCHANGED <<fill, recorded>>,
           \A k \in Request \ {r} : request'[k] = request[k] /\ knew'[k] = knew[k],
           Sound(r)'
    PROVE  MeasuredInv'
<1>1. \A o \in queued : o # r /\ o \in Request /\ request'[o] = request[o]
  BY QueuedIsLive
<1>2. \A o \in Request : fill[o].quantity \in Nat
  BY DEF IInv, TypeOK
<1>3. FillsAreBounded'
  <2> SUFFICES ASSUME NEW o \in Request
               PROVE  /\ o \in queued' => fill[o].quantity <= Asks(o)'.quantity
                      /\ o \notin queued' => fill[o].quantity = 0
                      /\ recorded[o].quantity <= fill[o].quantity
    BY DEF FillsAreBounded
  <2>1. CASE o = r
    <3>1. fill[r].quantity = 0 /\ recorded[r].quantity <= fill[r].quantity
      BY DEF MeasuredInv, FillsAreBounded
    <3>2. o \in queued' => Asks(o)'.quantity \in Nat
      <4>1. (IInv => QuantitiesAreAsked)'
        BY QuantityType, PTL
      <4> QED
        BY <4>1 DEF QuantitiesAreAsked
    <3> QED
      BY <2>1, <3>1, <3>2
  <2>2. CASE o # r
    BY <1>1, <2>2 DEF MeasuredInv, FillsAreBounded, Asks
  <2> QED
    BY <2>1, <2>2
<1>4. ASSUME NEW k \in Request \ {r} PROVE Sound(k)'
  BY <1>1, <1>2, OthersStaySound DEF MeasuredInv
<1> QED
  BY <1>3, <1>4 DEF MeasuredInv

\* A request comes in: it has counted nothing.
LEMMA PostIsMeasured ==
    ASSUME IInv, IInv', MeasuredInv, NEW r \in Request, NEW t \in Client, NEW b \in Bodies,
           Post(r, t, b)
    PROVE  MeasuredInv'
<1>1. /\ DOMAIN request = Request /\ At(r, "nowhere") /\ r \notin queued
      /\ UNCHANGED <<queued, fill, recorded, knew>>
  BY DEF Post, IInv, TypeOK, RowsWereProposed, At
<1>2. \A k \in Request \ {r} : request'[k] = request[k]
  BY <1>1 DEF Post
<1>3. Sound(r)'
  <2>1. knew'[r][r] = 0 /\ \A o \in Request : knew'[r][o] <= fill'[o].quantity
    BY <1>1 DEF MeasuredInv, Sound
  <2>2. CASE WellPriced(b)
    <3>1. request'[r].at = "positions" /\ request'[r].body = b
      BY <1>1, <2>2 DEF Post
    <3> QED
      BY <2>1, <2>2, <3>1 DEF Sound, At, WellPriced
  <2>3. CASE ~WellPriced(b)
    <3>1. request'[r].at = "unprocessable"
      BY <1>1, <2>3 DEF Post, Ended
    <3> QED
      BY <2>1, <3>1 DEF Sound, At, Live, Measuring
  <2> QED
    BY <2>2, <2>3
<1> QED
  BY <1>1, <1>2, <1>3, OneSteps

\* The request reads what is filled: the sum is of what it counts.
LEMMA ReadIsMeasured ==
    ASSUME IInv, IInv', MeasuredInv, NEW r \in Request, ReadPositions(r)
    PROVE  MeasuredInv'
<1> DEFINE t == TenantOf(r)
           s == Asks(r).symbol
           counted == [o \in Request |-> IF o \in FilledOf(t, s) THEN FilledQuantity(o) ELSE 0]
<1>1. /\ DOMAIN request = Request /\ At(r, "positions") /\ r \notin queued
      /\ UNCHANGED <<queued, row, fill, recorded>> /\ request[r] \in LiveRequest(request[r].held)
  BY DEF ReadPositions, IInv, TypeOK, RowsWereProposed, At
<1>2. PICK e \in Equity : request' = [request EXCEPT ![r] =
                 [request[r] EXCEPT !.at = "today", !.equity = e, !.held = Shares(t, s)]]
  BY DEF ReadPositions
<1>3. /\ \A k \in Request \ {r} : request'[k] = request[k] /\ knew'[k] = knew[k]
      /\ knew'[r] = counted
  <2> HIDE DEF counted
  <2>1. knew' = [knew EXCEPT ![r] = counted] /\ DOMAIN knew = Request
    BY Zenon DEF ReadPositions, counted, IInv, TypeOK
  <2> QED
    BY <1>1, <1>2, <2>1
<1>4. /\ request'[r].at = "today" /\ request'[r].body = request[r].body
      /\ request'[r].tenant = request[r].tenant /\ request'[r].held = Shares(t, s)
  <2> DEFINE h == Shares(t, s)
  <2> SUFFICES ASSUME NEW x, x = request[r], NEW y, y = h, NEW z, z = request'[r]
               PROVE  z.at = "today" /\ z.body = x.body /\ z.tenant = x.tenant /\ z.held = y
    OBVIOUS
  <2>1. z = [x EXCEPT !.at = "today", !.equity = e, !.held = y] /\ x \in LiveRequest(x.held)
    <3> HIDE DEF h
    <3>1. request' = [request EXCEPT ![r] = [x EXCEPT !.at = "today", !.equity = e, !.held = y]]
      BY <1>2 DEF h
    <3> QED
      BY <1>1, <3>1
  <2> QED
    BY ONLY <2>1 DEF LiveRequest
<1>5. \A o \in Request : recorded[o].quantity \in Nat /\ fill[o].quantity \in Nat
                         /\ recorded[o].quantity <= fill[o].quantity
  BY DEF IInv, TypeOK, MeasuredInv, FillsAreBounded
<1>6. knew'[r][r] = 0 /\ \A o \in Request : knew'[r][o] <= fill'[o].quantity
  <2>1. \A o \in Request : counted[o] <= fill[o].quantity
    BY <1>5 DEF FilledQuantity
  <2>2. fill[r].quantity = 0
    BY <1>1 DEF MeasuredInv, FillsAreBounded
  <2>3. counted[r] = 0
    BY <1>5, <2>2 DEF FilledQuantity
  <2> QED
    BY <1>1, <1>3, <2>1, <2>3
<1>7. \A o \in queued : o # r /\ request'[o] = request[o] /\ o \in Request
  BY <1>1, <1>3, QueuedIsLive
<1>8. CountedBy(r)' = FilledOf(t, s)
  <2>1. \A o \in Request : counted[o] > 0 <=> o \in FilledOf(t, s)
    BY DEF FilledOf
  <2>2. FilledOf(t, s) \subseteq Request
    BY DEF FilledOf, Scoped
  <2> QED
    BY <1>3, <2>1, <2>2 DEF CountedBy
<1>9. FilledOf(t, s) \subseteq OrdersOf(t, s) /\ OrdersOf(t, s) \subseteq queued
  BY DEF FilledOf, Scoped, OrdersOf, IInv, RowsWereProposed
<1>10. ASSUME NEW side
       PROVE  Counted(r, side)' = SumOver(FilledQuantities, Sided(FilledOf(t, s), side))
  <2>1. Sided(CountedBy(r), side)' = Sided(FilledOf(t, s), side)
    BY <1>7, <1>8, <1>9 DEF Sided, Asks
  <2>2. \A o \in Sided(FilledOf(t, s), side) : knew'[r][o] = FilledQuantities[o]
    BY <1>3 DEF Sided, FilledOf, Scoped, FilledQuantities
  <2>3. SumOver(knew'[r], Sided(FilledOf(t, s), side))
            = SumOver(FilledQuantities, Sided(FilledOf(t, s), side))
    BY <2>2, SumSame
  <2> QED
    BY <2>1, <2>3 DEF Counted
<1>11. request'[r].held = Net(r)'
  BY <1>4, <1>10 DEF Net, Shares
<1>12. TenantOf(r)' = t /\ Asks(r)' = Asks(r)
  BY <1>4 DEF TenantOf, Asks
<1>13. CountedBy(r)' \subseteq OrdersOf(TenantOf(r), Asks(r).symbol)'
  <2>1. OrdersOf(TenantOf(r), Asks(r).symbol)' = OrdersOf(t, s)
    BY <1>1, <1>7, <1>12 DEF OrdersOf, TenantOf, Asks
  <2> QED
    BY <1>8, <1>9, <2>1
<1>14. WellPriced(request'[r].body)
  BY <1>1, <1>4 DEF MeasuredInv, Sound, Live, Measuring, At
<1>15. Sound(r)'
  BY <1>4, <1>6, <1>11, <1>13, <1>14 DEF Sound, At, WellPriced
<1> QED
  BY <1>1, <1>3, <1>15, OneSteps

\* Nothing stands against a proposal that has room, with some equity.
LEMMA UnrefusedFits ==
    ASSUME NEW p, NEW held \in Int, NEW today, NEW equity \in Equity \cup {0},
           p.quantity \in Nat, Refusals(p, held, today, equity) = {}
    PROVE  HasRoom(p, held, equity)
<1>1. \A why \in RiskRefusal : ~Breached(p, held, today, equity)[why]
  BY DEF Refusals
<1>2. ~(p.side = "SELL" /\ held < p.quantity)
  <2>1. ~Breached(p, held, today, equity)["selling_what_is_not_held"]
    BY <1>1 DEF RiskRefusal
  <2> QED
    BY <2>1 DEF Breached
<1>3. ~(equity <= 0)
  <2>1. ~Breached(p, held, today, equity)["no_equity"]
    BY <1>1 DEF RiskRefusal
  <2> QED
    BY <2>1 DEF Breached
<1>4. ~(equity > 0 /\ p.side = "BUY"
            /\ Exceeds(p.price * (held + p.quantity), MaxPositionFraction, equity))
  <2>1. ~Breached(p, held, today, equity)["position_too_large"]
    BY <1>1 DEF RiskRefusal
  <2> QED
    BY <2>1 DEF Breached
<1>5. equity \in Equity /\ equity > 0
  BY <1>3
<1>6. p.side = "SELL" => p.quantity <= held
  BY <1>2
<1>7. p.side = "BUY" => ~Exceeds(p.price * (held + p.quantity), MaxPositionFraction, equity)
  BY <1>4, <1>5
<1> QED
  BY <1>5, <1>6, <1>7 DEF HasRoom

\* What a request goes on with, when its place changes after its reading.
LEMMA GoesOn ==
    ASSUME IInv, MeasuredInv, NEW r \in Request, r \notin queued,
           At(r, "today") \/ At(r, "committing"),
           request'[r].at \in {"committing", "accepted"},
           request'[r].at = "accepted" => r \in queued',
           request'[r].body = request[r].body, request'[r].tenant = request[r].tenant,
           request'[r].equity = request[r].equity,
           \A k \in Request \ {r} : request'[k] = request[k],
           queued \subseteq queued', UNCHANGED <<fill, recorded, knew>>,
           HasRoom(Asks(r), Net(r), request[r].equity)
    PROVE  Sound(r)'
<1>1. Sound(r)
  BY DEF MeasuredInv
<1>2. \A o \in queued : o # r /\ request'[o] = request[o] /\ o \in Request
  BY QueuedIsLive
<1>3. CountedBy(r)' = CountedBy(r) /\ Net(r)' = Net(r)
  BY <1>1, <1>2, ReadingStays DEF MeasuredInv
<1>4. TenantOf(r)' = TenantOf(r) /\ Asks(r)' = Asks(r)
  BY DEF TenantOf, Asks
<1>5. OrdersOf(TenantOf(r), Asks(r).symbol) \subseteq OrdersOf(TenantOf(r), Asks(r).symbol)'
  BY <1>2, <1>4 DEF OrdersOf, TenantOf, Asks
<1>6. CountedBy(r)' \subseteq OrdersOf(TenantOf(r), Asks(r).symbol)'
  BY <1>1, <1>3, <1>5 DEF Sound
<1>7. HasRoom(Asks(r), Net(r), request[r].equity)'
  BY <1>3, <1>4 DEF HasRoom, Exceeds
<1>8. WellPriced(request[r].body)
  BY <1>1 DEF Sound, Live, Measuring, At
<1>9. knew'[r][r] = 0 /\ \A o \in Request : knew'[r][o] <= fill'[o].quantity
  BY <1>1 DEF Sound
<1> QED
  BY <1>6, <1>7, <1>8, <1>9 DEF Sound, At, WellPriced

\* A request is measured with what it has read.
LEMMA AssessIsMeasured ==
    ASSUME IInv, IInv', MeasuredInv, NEW r \in Request, Assess(r)
    PROVE  MeasuredInv'
<1> DEFINE x == request[r]
           against == Refusals(Asks(r), x.held, OrdersToday(TenantOf(r)), x.equity)
<1>1. /\ DOMAIN request = Request /\ At(r, "today") /\ r \notin queued /\ Live(r)
      /\ UNCHANGED <<queued, fill, recorded, knew>> /\ x \in LiveRequest(x.held)
  BY DEF Assess, IInv, TypeOK, RowsWereProposed, At, Live, Measuring
<1>2. request' = [request EXCEPT ![r] =
                     IF against = {} THEN [x EXCEPT !.at = "committing"] ELSE Ended("refused")]
  BY DEF Assess
<1>3. \A k \in Request \ {r} : request'[k] = request[k]
  BY <1>2
<1>4. Sound(r)
  BY DEF MeasuredInv
<1>5. CASE against = {}
  <2>1. Net(r) \in Int /\ x.held = Net(r)
    BY <1>1, <1>4, CountedType DEF MeasuredInv, Net, Sound
  <2>2. HasRoom(Asks(r), Net(r), x.equity)
    BY <1>1, <1>5, <2>1, LiveType, UnrefusedFits
  <2>3. request'[r] = [x EXCEPT !.at = "committing"]
    <3> HIDE DEF against
    <3> QED
      BY <1>1, <1>2, <1>5
  <2>4. ASSUME NEW y, y = [x EXCEPT !.at = "committing"]
        PROVE  /\ y.at = "committing" /\ y.body = x.body /\ y.tenant = x.tenant
               /\ y.equity = x.equity
    <3> HIDE DEF x
    <3> QED
      BY <1>1, <2>4 DEF LiveRequest
  <2>5. Sound(r)'
    BY <1>1, <1>3, <2>2, <2>3, <2>4, GoesOn
  <2> QED
    BY <1>1, <1>3, <2>5, OneSteps
<1>6. CASE against # {}
  <2>1. request'[r].at = "refused"
    <3> HIDE DEF against
    <3> QED
      BY <1>1, <1>2, <1>6 DEF Ended
  <2>2. Sound(r)'
    BY <1>1, <1>4, <2>1 DEF Sound, At, Live, Measuring
  <2> QED
    BY <1>1, <1>3, <2>2, OneSteps
<1> QED
  BY <1>5, <1>6

LEMMA CommitIsMeasured ==
    ASSUME IInv, IInv', MeasuredInv, NEW r \in Request, Commit(r)
    PROVE  MeasuredInv'
<1> DEFINE x == request[r]
<1>1. /\ DOMAIN request = Request /\ At(r, "committing") /\ r \notin queued
      /\ UNCHANGED <<fill, recorded, knew>> /\ queued' = queued \cup {r}
      /\ x \in LiveRequest(x.held)
  BY DEF Commit, IInv, TypeOK, RowsWereProposed, At
<1>2. request' = [request EXCEPT ![r] = [x EXCEPT !.at = "accepted", !.held = 0]]
  BY DEF Commit
<1>3. ASSUME NEW y, y = [x EXCEPT !.at = "accepted", !.held = 0]
      PROVE  /\ y.at = "accepted" /\ y.body = x.body /\ y.tenant = x.tenant
             /\ y.equity = x.equity
  <2> HIDE DEF x
  <2> QED
    BY <1>1, <1>3 DEF LiveRequest
<1>4. request'[r] = [x EXCEPT !.at = "accepted", !.held = 0]
      /\ \A k \in Request \ {r} : request'[k] = request[k]
  BY <1>1, <1>2
<1>5. HasRoom(Asks(r), Net(r), x.equity)
  BY <1>1 DEF MeasuredInv, Sound
<1>6. Sound(r)'
  BY <1>1, <1>3, <1>4, <1>5, GoesOn
<1> QED
  BY <1>1, <1>4, <1>6, OneSteps

LEMMA FailIsMeasured ==
    ASSUME IInv, IInv', MeasuredInv, NEW r \in Request, Fail(r)
    PROVE  MeasuredInv'
<1>1. /\ DOMAIN request = Request /\ r \notin queued /\ UNCHANGED <<queued, fill, recorded, knew>>
      /\ request'[r].at = "failed" /\ \A k \in Request \ {r} : request'[k] = request[k]
  BY DEF Fail, IInv, TypeOK, RowsWereProposed, At, Measuring, Ended
<1>2. Sound(r)'
  BY <1>1 DEF MeasuredInv, Sound, At, Live, Measuring
<1> QED
  BY <1>1, <1>2, OneSteps

\* The broker fills more of an order, or the columns are brought up to what it filled.
LEMMA FillIsMeasured ==
    ASSUME IInv, IInv', MeasuredInv, UNCHANGED <<request, queued, knew>>, NEW o \in Request,
           Filled(o) \/ Recorded(o) \/ UNCHANGED <<fill, recorded>>
    PROVE  MeasuredInv'
<1>1. \A k \in Request : fill[k].quantity \in Nat /\ recorded[k].quantity \in Nat
                         /\ fill'[k].quantity \in Nat /\ recorded'[k].quantity \in Nat
  BY DEF IInv, TypeOK
<1>2. \A k \in Request : /\ fill[k].quantity <= fill'[k].quantity
                         /\ k \in queued => fill'[k].quantity <= Asks(k).quantity
                         /\ k \notin queued => fill'[k].quantity = 0
                         /\ recorded'[k].quantity <= fill'[k].quantity
  <2>1. CASE Filled(o)
    <3>1. PICK quantity \in fill[o].quantity + 1 .. Asks(o).quantity,
               price \in FillPrices(request[o].body) :
                   fill' = [fill EXCEPT ![o] = [quantity |-> quantity, price |-> price]]
      BY <2>1 DEF Filled
    <3>2. o \in queued /\ recorded' = recorded /\ Asks(o).quantity \in Nat
      BY <2>1, QuantityType DEF Filled, QuantitiesAreAsked
    <3>3. fill'[o].quantity = quantity /\ \A k \in Request \ {o} : fill'[k] = fill[k]
      BY <3>1 DEF IInv, TypeOK
    <3>4. fill[o].quantity < quantity /\ quantity <= Asks(o).quantity
      BY <1>1, <3>1, <3>2
    <3> QED
      BY <1>1, <3>2, <3>3, <3>4 DEF MeasuredInv, FillsAreBounded
  <2>2. CASE Recorded(o)
    <3>1. /\ fill' = fill /\ recorded'[o] = fill[o]
          /\ \A k \in Request \ {o} : recorded'[k] = recorded[k]
      BY <2>2 DEF Recorded, IInv, TypeOK
    <3> QED
      BY <1>1, <3>1 DEF MeasuredInv, FillsAreBounded
  <2>3. CASE UNCHANGED <<fill, recorded>>
    BY <1>1, <2>3 DEF MeasuredInv, FillsAreBounded
  <2> QED
    BY <2>1, <2>2, <2>3
<1>3. FillsAreBounded'
  BY <1>2 DEF FillsAreBounded, Asks
<1>4. ASSUME NEW k \in Request PROVE Sound(k)'
  BY <1>2, OthersStaySound DEF MeasuredInv
<1> QED
  BY <1>3, <1>4 DEF MeasuredInv

LEMMA MeasuredStep ==
    ASSUME IInv, IInv', MeasuredInv, [Next]_vars
    PROVE  MeasuredInv'
<1>1. CASE Request = {}
  BY <1>1 DEF MeasuredInv, FillsAreBounded
<1>2. ASSUME NEW o \in Request, Placed(o) \/ Reported(o) \/ Filled(o) \/ Recorded(o)
      PROVE  MeasuredInv'
  BY <1>2, FillIsMeasured DEF Placed, Reported, Filled, Recorded
<1>3. ASSUME NEW t \in Client, NEW o \in Request,
             AskCancel(t, o) \/ RefuseCancel(t, o) \/ CommitCancel(t, o)
      PROVE  MeasuredInv'
  BY <1>3, FillIsMeasured DEF AskCancel, RefuseCancel, CommitCancel
<1>4. ASSUME NEW o \in Request, UNCHANGED vars PROVE MeasuredInv'
  BY <1>4, FillIsMeasured DEF vars
<1> QED
  BY <1>1, <1>2, <1>3, <1>4, PostIsMeasured, ReadIsMeasured, AssessIsMeasured,
     CommitIsMeasured, FailIsMeasured DEF Next

LEMMA MeasuredStarts == Init => MeasuredInv
<1> SUFFICES ASSUME Init PROVE MeasuredInv
  OBVIOUS
<1>1. \A r \in Request : request[r].at = "nowhere"
  BY DEF Init, Ended
<1> QED
  BY <1>1 DEF Init, MeasuredInv, FillsAreBounded, Sound, Unfilled, At, Live, Measuring

LEMMA MeasuredInvariant == Spec => []MeasuredInv
<1>1. IInv /\ IInv' /\ MeasuredInv /\ [Next]_vars => MeasuredInv'
  BY MeasuredStep
<1> QED
  BY <1>1, MeasuredStarts, DeskInvariant, PTL DEF Spec

\* What counts less of the same price counts less.
LEMMA LessIsWithin ==
    ASSUME NEW price \in Nat, NEW fewer \in Int, NEW more \in Int, fewer <= more,
           NEW equity \in Int, NEW fraction \in Int, ~Exceeds(price * more, fraction, equity)
    PROVE  ~Exceeds(price * fewer, fraction, equity)
<1>1. price * fewer <= price * more
  OBVIOUS
<1>2. price * fewer \in Int /\ price * more \in Int /\ fraction * equity \in Int
  OBVIOUS
<1> HIDE DEF Exceeds
<1> DEFINE a == price * fewer
           b == price * more
           c == fraction * equity
<1>3. a <= b /\ a \in Int /\ b \in Int /\ c \in Int /\ ~(b * 100 > c)
  BY <1>1, <1>2 DEF Exceeds
<1>4. ~(a * 100 > c)
  <2> HIDE DEF a, b, c
  <2> QED
    BY <1>3
<1> QED
  BY <1>4 DEF Exceeds

\* What other orders have filled is what r counted of them and what it did not.
LEMMA FillsAreSeenOrNot ==
    ASSUME IInv, MeasuredInv, NEW r \in queued, NEW side
    PROVE  LET orders == Sided(OrdersOf(TenantOf(r), Asks(r).symbol), side)
           IN  /\ SumOver(Fills, orders \ {r}) = Counted(r, side) + UnseenBy(r, side)
               /\ UnseenBy(r, side) \in Nat /\ Counted(r, side) \in Nat
               /\ SumOver(Fills, orders) \in Nat
               /\ SumOver(Fills, orders) = IF Asks(r).side = side
                                           THEN SumOver(Fills, orders \ {r}) + fill[r].quantity
                                           ELSE SumOver(Fills, orders \ {r})
<1> DEFINE orders == Sided(OrdersOf(TenantOf(r), Asks(r).symbol), side)
           others == orders \ {r}
<1>1. /\ r \in Request /\ Sound(r) /\ At(r, "accepted") /\ queued \subseteq Request
  BY DEF MeasuredInv, IInv, TypeOK, RowsWereProposed
<1>2. orders \subseteq queued /\ IsFiniteSet(orders) /\ IsFiniteSet(others)
  <2>1. orders \subseteq queued
    BY DEF Sided, OrdersOf
  <2> QED
    BY <1>1, <2>1, FS_Subset
<1>3. \A o \in orders : /\ Fills[o] \in Nat /\ knew[r][o] \in Nat /\ Unseen(r)[o] \in Nat
                        /\ Fills[o] = knew[r][o] + Unseen(r)[o] /\ Fills[o] = fill[o].quantity
  <2>1. \A o \in Request : knew[r][o] \in Nat /\ fill[o].quantity \in Nat
                           /\ knew[r][o] <= fill[o].quantity
    BY <1>1, CountedType DEF MeasuredInv, Sound
  <2> QED
    BY <1>1, <1>2, <2>1 DEF Fills, Unseen
<1>4. SumOver(Fills, others) = SumOver(knew[r], others) + SumOver(Unseen(r), others)
  <2>1. \A o \in others : /\ knew[r][o] \in Nat /\ Unseen(r)[o] \in Nat
                          /\ Fills[o] = knew[r][o] + Unseen(r)[o]
    BY <1>3
  <2> HIDE DEF others
  <2> QED
    BY <1>2, <2>1, SumOfParts
<1>5. SumOver(knew[r], others) = Counted(r, side)
  <2>1. Sided(CountedBy(r), side) \subseteq others
    <3>1. CountedBy(r) \subseteq OrdersOf(TenantOf(r), Asks(r).symbol) /\ r \notin CountedBy(r)
      BY <1>1 DEF Sound, CountedBy
    <3> QED
      BY <3>1 DEF Sided
  <2>2. \A o \in others \ Sided(CountedBy(r), side) : knew[r][o] = 0
    <3>1. \A o \in others : knew[r][o] \in Nat /\ o \in Request /\ Asks(o).side = side
      BY <1>1, <1>2, <1>3 DEF Sided
    <3> QED
      BY <3>1 DEF Sided, CountedBy
  <2> HIDE DEF others
  <2> QED
    BY <2>1, <2>2, SumOfSupport DEF Counted
<1>6. UnseenBy(r, side) \in Nat /\ SumOver(Fills, others) \in Nat /\ SumOver(Fills, orders) \in Nat
  <2>1. UnseenBy(r, side) = SumOver(Unseen(r), others)
    BY DEF UnseenBy
  <2>2. \A o \in others : Unseen(r)[o] \in Nat /\ Fills[o] \in Nat
    BY <1>3
  <2>3. \A o \in orders : Fills[o] \in Nat
    BY <1>3
  <2> HIDE DEF others, orders
  <2> QED
    BY <1>2, <2>1, <2>2, <2>3, SumType
<1>7. CASE Asks(r).side = side
  <2>1. r \in orders
    BY <1>7 DEF Sided, OrdersOf
  <2>2. \A o \in orders : Fills[o] \in Nat
    BY <1>3
  <2>3. SumOver(Fills, orders \ {r}) = SumOver(Fills, orders) - Fills[r]
    <3> HIDE DEF orders
    <3> QED
      BY <1>2, <2>1, <2>2, SumRemove
  <2>4. Fills[r] \in Nat /\ Fills[r] = fill[r].quantity
    BY <1>3, <2>1
  <2>5. SumOver(Fills, orders) = SumOver(Fills, others) + fill[r].quantity
    BY <1>6, <2>3, <2>4
  <2> QED
    BY <1>1, <1>4, <1>5, <1>6, <1>7, <2>5, CountedType DEF UnseenBy, MeasuredInv
<1>8. CASE Asks(r).side # side
  <2>1. others = orders
    BY <1>8 DEF Sided
  <2> QED
    BY <1>1, <1>4, <1>5, <1>6, <1>8, <2>1, CountedType DEF UnseenBy, MeasuredInv
<1> QED
  BY <1>7, <1>8

\* However requests, fills and what is told of them overlap, a position passes its limit
\* or falls below zero only by what filled that an accepted request was not measured
\* with, never by the request itself (place_order, _account_state, assess).
THEOREM NoRequestExceedsAlone == Spec => []NoneAloneExceeds
<1>1. ASSUME IInv, MeasuredInv, NEW r \in Request, Accepted(r), r \in queued
      PROVE  LET p == Asks(r)
                 held == Held(TenantOf(r), p.symbol)
             IN  /\ p.side = "BUY" =>
                     ~Exceeds(p.price * (held - UnseenBy(r, "BUY")), MaxPositionFraction,
                              request[r].equity)
                 /\ p.side = "SELL" => held + UnseenBy(r, "SELL") >= 0
  <2> DEFINE p == Asks(r)
             held == Held(TenantOf(r), p.symbol)
             bought == SumOver(Fills, Sided(OrdersOf(TenantOf(r), p.symbol), "BUY"))
             sold == SumOver(Fills, Sided(OrdersOf(TenantOf(r), p.symbol), "SELL"))
  <2>1. /\ Counted(r, "BUY") \in Nat /\ Counted(r, "SELL") \in Nat
        /\ UnseenBy(r, "BUY") \in Nat /\ UnseenBy(r, "SELL") \in Nat
        /\ fill[r].quantity \in Nat /\ p.quantity \in Nat /\ fill[r].quantity <= p.quantity
        /\ HasRoom(p, Net(r), request[r].equity)
        /\ p.side \in {"BUY", "SELL"}
    BY <1>1, FillsAreSeenOrNot, QueuedIsLive, LiveType DEF MeasuredInv, Sound, Accepted,
       FillsAreBounded, IInv, TypeOK
  <2>2. bought = Counted(r, "BUY") + UnseenBy(r, "BUY")
                 + IF p.side = "BUY" THEN fill[r].quantity ELSE 0
    <3> DEFINE orders == Sided(OrdersOf(TenantOf(r), Asks(r).symbol), "BUY")
    <3>1. /\ SumOver(Fills, orders \ {r}) = Counted(r, "BUY") + UnseenBy(r, "BUY")
          /\ SumOver(Fills, orders) = IF Asks(r).side = "BUY"
                                      THEN SumOver(Fills, orders \ {r}) + fill[r].quantity
                                      ELSE SumOver(Fills, orders \ {r})
      BY <1>1, FillsAreSeenOrNot
    <3>2. bought = SumOver(Fills, orders)
      OBVIOUS
    <3> HIDE DEF orders, bought
    <3> QED
      BY <2>1, <3>1, <3>2
  <2>3. sold = Counted(r, "SELL") + UnseenBy(r, "SELL")
               + IF p.side = "SELL" THEN fill[r].quantity ELSE 0
    <3> DEFINE orders == Sided(OrdersOf(TenantOf(r), Asks(r).symbol), "SELL")
    <3>1. /\ SumOver(Fills, orders \ {r}) = Counted(r, "SELL") + UnseenBy(r, "SELL")
          /\ SumOver(Fills, orders) = IF Asks(r).side = "SELL"
                                      THEN SumOver(Fills, orders \ {r}) + fill[r].quantity
                                      ELSE SumOver(Fills, orders \ {r})
      BY <1>1, FillsAreSeenOrNot
    <3>2. sold = SumOver(Fills, orders)
      OBVIOUS
    <3> HIDE DEF orders, sold
    <3> QED
      BY <2>1, <3>1, <3>2
  <2>4. held = bought - sold /\ Net(r) = Counted(r, "BUY") - Counted(r, "SELL")
    BY DEF Held, Net
  <2> HIDE DEF bought, sold, held
  <2>5. CASE p.side = "BUY"
    <3>1. /\ held - UnseenBy(r, "BUY") \in Int /\ Net(r) + p.quantity \in Int
          /\ held - UnseenBy(r, "BUY") <= Net(r) + p.quantity
      BY <2>1, <2>2, <2>3, <2>4, <2>5
    <3>2. p.price \in Nat /\ request[r].equity \in Int
      <4>1. Live(r) /\ request[r].body \in Body /\ WellPriced(request[r].body)
            /\ request[r].equity \in Equity \cup {0}
        BY <1>1, QueuedIsLive, LiveType DEF MeasuredInv, Sound
      <4>2. Proposal(request[r].body).price \in Nat
        BY ONLY <4>1, PriceType
      <4>3. p.price \in Nat
        BY <4>2 DEF Asks
      <4>4. Equity \cup {0} \subseteq Int
        OBVIOUS
      <4> QED
        BY ONLY <4>1, <4>3, <4>4
    <3>3. ~Exceeds(p.price * (Net(r) + p.quantity), MaxPositionFraction, request[r].equity)
      BY <2>1, <2>5 DEF HasRoom
    <3>4. MaxPositionFraction \in Int
      BY DEF IsEnvelope
    <3>5. ~Exceeds(p.price * (held - UnseenBy(r, "BUY")), MaxPositionFraction, request[r].equity)
      <4> HIDE DEF p
      <4> QED
        BY <3>1, <3>2, <3>3, <3>4, LessIsWithin
    <3> QED
      BY <2>5, <3>5 DEF held
  <2>6. CASE p.side = "SELL"
    <3>1. p.quantity <= Net(r)
      BY <2>1, <2>6 DEF HasRoom
    <3>2. held + UnseenBy(r, "SELL") >= 0
      BY <2>1, <2>2, <2>3, <2>4, <2>6, <3>1
    <3> QED
      BY <2>6, <3>2 DEF held
  <2> QED
    BY <2>1, <2>5, <2>6
<1>2. IInv /\ MeasuredInv => NoneAloneExceeds
  BY <1>1 DEF NoneAloneExceeds, MeasuredInv, Sound, Accepted
<1> QED
  BY <1>2, DeskInvariant, MeasuredInvariant, PTL

--------------------------------------------------------------------------------
(* The average cost.  The run over the book is a recursive function: what it makes of
   a row follows from the row before (RowByRow), and what holds of every row by the least
   one of which it would not. *)

\* What holds at the start, and from a row to the next, holds of every row.
LEMMA AlongTheBook ==
    ASSUME NEW m \in Nat, NEW holds, 0 \in holds,
           \A n \in 1..m : n - 1 \in holds => n \in holds
    PROVE  \A n \in 0..m : n \in holds
<1> SUFFICES ASSUME NEW k \in 0..m, k \notin holds PROVE FALSE
  OBVIOUS
<1> DEFINE Without == {n \in 0..m : n \notin holds}
<1>1. PICK n \in Without : \A i \in Without : n <= i
  <2>1. Without \subseteq Nat /\ k \in Without
    OBVIOUS
  <2> HIDE DEF Without
  <2> QED
    BY <2>1, LeastExists
<1>2. n # 0 /\ n \in 1..m /\ n - 1 \in 0..m /\ ~(n <= n - 1)
  OBVIOUS
<1>3. n - 1 \in holds
  BY <1>1, <1>2
<1> QED
  BY <1>2, <1>3

\* The holding after each row of the book, row by row.
Swept(t, s, held, o) ==
    IF o \in FilledOf(t, s) THEN Traded(held, Asks(o).side, recorded[o].quantity, recorded[o].price) ELSE held

RowByRow ==
    \A t, s :
        /\ Running(t, s)[0] = Nothing
        /\ \A n \in 1..Len(book) :
               Running(t, s)[n] = Swept(t, s, Running(t, s)[n - 1], book[n])

LEMMA RunningRowByRow == Len(book) \in Nat => RowByRow
<1> SUFFICES ASSUME Len(book) \in Nat, NEW t, NEW s
             PROVE  /\ Running(t, s)[0] = Nothing
                    /\ \A n \in 1..Len(book) :
                           Running(t, s)[n] = Swept(t, s, Running(t, s)[n - 1], book[n])
  BY DEF RowByRow
<1> DEFINE Run(f, m) ==
              f = [n \in 0..m |-> IF n = 0 THEN Nothing ELSE Swept(t, s, f[n - 1], book[n])]
<1>1. Running(t, s) = CHOOSE f : Run(f, Len(book))
  BY DEF Running, Swept
<1>2. \E f : Run(f, Len(book))
  <2> DEFINE Missing == {m \in Nat : \A f : ~Run(f, m)}
  <2> SUFFICES ASSUME Missing # {} PROVE FALSE
    OBVIOUS
  <2>1. PICK m \in Missing : \A i \in Missing : m <= i
    <3>1. Missing \subseteq Nat
      OBVIOUS
    <3> HIDE DEF Missing
    <3> QED
      BY <3>1, LeastExists
  <2>2. CASE m = 0
    <3> DEFINE f == [n \in 0..0 |-> Nothing]
    <3>1. f = [n \in 0..0 |-> IF n = 0 THEN Nothing ELSE Swept(t, s, f[n - 1], book[n])]
      OBVIOUS
    <3> QED
      BY <2>1, <2>2, <3>1
  <2>3. CASE m # 0
    <3>1. m \in Nat /\ m - 1 \in Nat /\ ~(m <= m - 1)
      BY <2>3
    <3>2. PICK f : Run(f, m - 1)
      BY <2>1, <3>1
    <3> DEFINE g == [n \in 0..m |-> IF n = m THEN Swept(t, s, f[m - 1], book[m]) ELSE f[n]]
    <3>3. ASSUME NEW n \in 0..m
          PROVE  g[n] = IF n = 0 THEN Nothing ELSE Swept(t, s, g[n - 1], book[n])
      <4>1. CASE n = m
        <5>1. n # 0 /\ n - 1 \in 0..m /\ n - 1 # m
          BY <3>1, <4>1
        <5>2. g[n - 1] = f[m - 1]
          BY <4>1, <5>1
        <5> QED
          BY <4>1, <5>1, <5>2
      <4>2. CASE n # m
        <5>1. n \in 0..(m - 1) /\ g[n] = f[n]
          BY <3>1, <4>2
        <5>2. CASE n = 0
          BY <3>2, <5>1, <5>2
        <5>3. CASE n # 0
          <6>1. n - 1 \in 0..m /\ n - 1 # m
            BY <3>1, <5>3
          <6>2. g[n - 1] = f[n - 1]
            BY <6>1
          <6>3. f[n] = Swept(t, s, f[n - 1], book[n])
            BY <3>2, <5>1, <5>3
          <6> QED
            BY <5>1, <5>3, <6>2, <6>3
        <5> QED
          BY <5>2, <5>3
      <4> QED
        BY <4>1, <4>2
    <3>4. Run(g, m)
      <4>1. g = [n \in 0..m |-> g[n]]
        OBVIOUS
      <4> HIDE DEF g
      <4> QED
        BY <3>3, <4>1, Zenon
    <3> QED
      BY <2>1, <3>4
  <2> QED
    BY <2>2, <2>3
<1>3. Run(Running(t, s), Len(book))
  <2> HIDE DEF Run
  <2> QED
    BY <1>1, <1>2, Zenon
<1> QED
  BY <1>3

\* An average cost lies between the prices paid.
Between(held, paid) ==
    /\ \E p \in paid : p * held.units <= held.spent
    /\ \E p \in paid : p * held.units >= held.spent

\* A share of what was bought at more than x, and at more than y, cost more than the
\* lower of the two.
LEMMA WeightedBelow ==
    ASSUME NEW q \in Nat, NEW n \in Nat, NEW u \in Nat, NEW w \in Int, NEW x \in Int, NEW y \in Int,
           x * u <= w
    PROVE  \/ x * (u * (q + n)) <= w * q + y * n * u
           \/ y * (u * (q + n)) <= w * q + y * n * u
<1>1. u * n \in Nat /\ u * q \in Nat /\ x * u \in Int /\ w * q \in Int
  OBVIOUS
<1>2. (x * u) * q <= w * q
  OBVIOUS
<1>3. /\ x * (u * (q + n)) = (x * u) * q + x * (u * n)
      /\ y * (u * (q + n)) = y * (u * q) + y * (u * n)
      /\ y * n * u = y * (u * n)
      /\ (x * u) * q = x * (u * q)
  OBVIOUS
<1>4. CASE x <= y
  <2>1. x * (u * n) <= y * (u * n)
    <3> DEFINE k == u * n
    <3>1. k \in Nat
      BY <1>1
    <3> HIDE DEF k
    <3>2. x * k <= y * k
      BY <1>4, <3>1
    <3> QED
      BY <3>2 DEF k
  <2>2. x * (u * n) \in Int /\ y * (u * n) \in Int /\ (x * u) * q \in Int
    OBVIOUS
  <2> DEFINE a == x * (u * n)
             b == y * (u * n)
             c == (x * u) * q
             d == w * q
  <2>3. a \in Int /\ b \in Int /\ c \in Int /\ d \in Int /\ a <= b /\ c <= d
    BY <1>1, <1>2, <2>1, <2>2
  <2>4. c + a <= d + b
    <3> HIDE DEF a, b, c, d
    <3> QED
      BY <2>3
  <2> QED
    BY <1>3, <2>4
<1>5. CASE y <= x
  <2>1. y * (u * q) <= x * (u * q)
    <3> DEFINE k == u * q
    <3>1. k \in Nat
      BY <1>1
    <3> HIDE DEF k
    <3>2. y * k <= x * k
      BY <1>5, <3>1
    <3> QED
      BY <3>2 DEF k
  <2> DEFINE a == y * (u * q)
             b == y * (u * n)
             c == x * (u * q)
             d == w * q
  <2>2. a \in Int /\ b \in Int /\ c \in Int /\ d \in Int /\ a <= c /\ c <= d
    BY <1>1, <1>2, <1>3, <2>1
  <2>3. a + b <= d + b
    <3> HIDE DEF a, b, c, d
    <3> QED
      BY <2>2
  <2> QED
    BY <1>3, <2>3
<1> QED
  BY <1>4, <1>5

LEMMA WeightedAbove ==
    ASSUME NEW q \in Nat, NEW n \in Nat, NEW u \in Nat, NEW w \in Int, NEW x \in Int, NEW y \in Int,
           x * u >= w
    PROVE  \/ x * (u * (q + n)) >= w * q + y * n * u
           \/ y * (u * (q + n)) >= w * q + y * n * u
<1>1. -x \in Int /\ -y \in Int /\ -w \in Int /\ (-x) * u <= -w
  OBVIOUS
<1>2. \/ (-x) * (u * (q + n)) <= (-w) * q + (-y) * n * u
      \/ (-y) * (u * (q + n)) <= (-w) * q + (-y) * n * u
  BY <1>1, WeightedBelow
<1>3. /\ (-x) * (u * (q + n)) = -(x * (u * (q + n)))
      /\ (-y) * (u * (q + n)) = -(y * (u * (q + n)))
      /\ (-w) * q + (-y) * n * u = -(w * q + y * n * u)
  OBVIOUS
<1> DEFINE a == x * (u * (q + n))
           b == y * (u * (q + n))
           c == w * q + y * n * u
<1>4. a \in Int /\ b \in Int /\ c \in Int /\ (-a <= -c \/ -b <= -c)
  BY <1>2, <1>3
<1>5. a >= c \/ b >= c
  <2> HIDE DEF a, b, c
  <2> QED
    BY <1>4
<1> QED
  BY <1>5

\* A purchase keeps the average between the prices paid, its own included.
LEMMA PurchaseAverages ==
    ASSUME NEW held \in [quantity : Nat, spent : Int, units : Nat \ {0}], NEW paid, NEW price \in Int,
           NEW filled \in Nat \ {0}, paid \subseteq Int,
           held.quantity > 0 => Between(held, paid)
    PROVE  /\ Traded(held, "BUY", filled, price) \in [quantity : Int, spent : Int, units : Nat \ {0}]
           /\ Traded(held, "BUY", filled, price).quantity = held.quantity + filled
           /\ Between(Traded(held, "BUY", filled, price), paid \cup {price})
<1> DEFINE q == held.quantity
           u == held.units
           w == held.spent
           y == price
<1>1. q \in Nat /\ u \in Nat \ {0} /\ w \in Int /\ y \in Int
  OBVIOUS
<1>2. Traded(held, "BUY", filled, price) =
          [quantity |-> q + filled, spent |-> w * q + y * filled * u, units |-> u * (q + filled)]
  BY <1>1 DEF Traded
<1> SUFFICES /\ w * q + y * filled * u \in Int /\ u * (q + filled) \in Nat \ {0}
             /\ \E p \in paid \cup {y} : p * (u * (q + filled)) <= w * q + y * filled * u
             /\ \E p \in paid \cup {y} : p * (u * (q + filled)) >= w * q + y * filled * u
  <2> DEFINE more == Traded(held, "BUY", filled, price)
             spent == w * q + y * filled * u
             units == u * (q + filled)
  <2>1. more = [quantity |-> q + filled, spent |-> spent, units |-> units]
    BY <1>2
  <2>2. more.quantity = q + filled /\ more.spent = spent /\ more.units = units
    <3> HIDE DEF more, spent, units
    <3> QED
      BY <2>1
  <2>3. more \in [quantity : Int, spent : Int, units : Nat \ {0}]
    <3> HIDE DEF more
    <3> QED
      BY <1>1, <2>1
  <2> QED
    BY <2>2, <2>3 DEF Between
<1> HIDE DEF q, u, w, y
<1>3. w * q + y * filled * u \in Int
  BY <1>1
<1>4. u * (q + filled) \in Nat \ {0}
  <2>1. q + filled \in Nat \ {0}
    BY <1>1
  <2> QED
    BY <1>1, <2>1
<1>5. CASE q = 0
  <2>1. w * q + y * filled * u = y * (u * (q + filled))
    BY <1>1, <1>5
  <2> QED
    BY <1>1, <1>3, <1>4, <2>1
<1>6. CASE q # 0
  <2>1. Between(held, paid)
    BY <1>1, <1>6 DEF q
  <2>2. PICK x \in paid : x * u <= w
    BY <2>1 DEF Between, u, w
  <2>3. PICK z \in paid : z * u >= w
    BY <2>1 DEF Between, u, w
  <2>4. x \in Int /\ z \in Int /\ u \in Nat /\ filled \in Nat
    BY <1>1
  <2>5. \/ x * (u * (q + filled)) <= w * q + y * filled * u
        \/ y * (u * (q + filled)) <= w * q + y * filled * u
    BY ONLY <1>1, <2>2, <2>4, WeightedBelow
  <2>6. \/ z * (u * (q + filled)) >= w * q + y * filled * u
        \/ y * (u * (q + filled)) >= w * q + y * filled * u
    BY ONLY <1>1, <2>3, <2>4, WeightedAbove
  <2> QED
    BY <1>3, <1>4, <2>5, <2>6
<1> QED
  BY <1>5, <1>6

\* A sale leaves the average of what remains.
LEMMA SaleKeeps ==
    ASSUME NEW held \in [quantity : Int, spent : Int, units : Nat \ {0}], NEW paid, NEW price,
           NEW filled \in Nat \ {0}, held.quantity > 0 => Between(held, paid)
    PROVE  LET sold == Traded(held, "SELL", filled, price)
           IN  /\ sold \in [quantity : Int, spent : Int, units : Nat \ {0}]
               /\ sold.quantity > 0 => Between(sold, paid)
<1> DEFINE sold == Traded(held, "SELL", filled, price)
<1>1. sold = [held EXCEPT !.quantity = held.quantity + (-filled)]
  BY DEF Traded
<1>2. /\ sold \in [quantity : Int, spent : Int, units : Nat \ {0}]
      /\ sold.quantity = held.quantity - filled /\ sold.spent = held.spent /\ sold.units = held.units
  BY <1>1
<1>3. sold.quantity > 0 => held.quantity > 0
  BY <1>2
<1> QED
  BY <1>2, <1>3 DEF Between

-----------------------------------------------------------------------------
(* The book: every order that is placed, once. *)

Booked ==
    /\ \A o \in Request : row[o] # "absent" <=> \E i \in 1..Len(book) : book[i] = o
    /\ \A i, j \in 1..Len(book) : book[i] = book[j] => i = j

LEMMA BookedStep == IInv /\ Booked /\ [Next]_vars => Booked'
<1> SUFFICES ASSUME IInv, Booked, [Next]_vars PROVE Booked'
  OBVIOUS
<1>1. book \in Seq(Request) /\ Len(book) \in Nat /\ \A i \in 1..Len(book) : book[i] \in Request
  BY DEF IInv, TypeOK
<1>2. ASSUME book' = book, \A o \in Request : row'[o] = "absent" <=> row[o] = "absent" PROVE Booked'
  BY <1>2 DEF Booked
<1>3. ASSUME NEW o \in Request, Placed(o) PROVE Booked'
  <2>1. row[o] = "absent" /\ book' = Append(book, o) /\ row' = [row EXCEPT ![o] = "SUBMITTED"]
    BY <1>3 DEF Placed
  <2>2. /\ Len(book') = Len(book) + 1 /\ book'[Len(book) + 1] = o
        /\ \A i \in 1..Len(book) : book'[i] = book[i]
    BY <1>1, <2>1
  <2>3. \A i \in 1..Len(book) : book[i] # o
    BY <1>1, <2>1 DEF Booked
  <2>4. 1..Len(book') = 1..Len(book) \cup {Len(book) + 1}
    BY <1>1, <2>2
  <2>5. row'[o] # "absent" /\ \A k \in Request \ {o} : row'[k] = row[k]
    BY <2>1 DEF IInv, TypeOK
  <2>6. ASSUME NEW k \in Request PROVE row'[k] # "absent" <=> \E i \in 1..Len(book') : book'[i] = k
    BY <1>1, <2>2, <2>4, <2>5 DEF Booked
  <2>7. ASSUME NEW i \in 1..Len(book'), NEW j \in 1..Len(book'), book'[i] = book'[j] PROVE i = j
    BY <1>1, <2>2, <2>3, <2>4, <2>7 DEF Booked
  <2> QED
    BY <2>6, <2>7 DEF Booked
<1>4. ASSUME NEW o \in Request, Reported(o) PROVE Booked'
  <2>1. PICK to \in Reportable : CanTransition(row[o], to) /\ row' = [row EXCEPT ![o] = to]
    BY <1>4 DEF Reported
  <2>2. row[o] # "absent" /\ to # "absent"
    BY <2>1 DEF CanTransition, TABLE, Reportable
  <2>3. \A k \in Request : row'[k] = "absent" <=> row[k] = "absent"
    BY <2>1, <2>2 DEF IInv, TypeOK
  <2> QED
    BY <1>2, <1>4, <2>3 DEF Reported
<1> QED
  BY <1>2, <1>3, <1>4 DEF Next, vars, Post, ReadPositions, Assess, Commit, Fail, AskCancel,
     RefuseCancel, CommitCancel, Filled, Recorded

LEMMA BookedInvariant == Spec => []Booked
<1>1. Init => Booked
  BY DEF Init, Booked
<1> QED
  BY <1>1, BookedStep, DeskInvariant, PTL DEF Spec

-----------------------------------------------------------------------------
(* What positions() makes of the book *)

\* The tenant's filled orders on one side, of the first n rows.
Until(t, s, side, n) == {o \in Sided(FilledOf(t, s), side) : \E i \in 1..n : book[i] = o}

LEMMA FilledType ==
    ASSUME IInv, NEW t, NEW s
    PROVE  /\ FilledOf(t, s) \subseteq Request
           /\ \A o \in FilledOf(t, s) : /\ FilledQuantities[o] = recorded[o].quantity
                                       /\ recorded[o].quantity \in Nat \ {0}
                                       /\ recorded[o].price \in Int
                                       /\ Asks(o).side \in {"BUY", "SELL"}
<1>1. FilledOf(t, s) \subseteq Request /\ FilledOf(t, s) \subseteq queued
  BY DEF FilledOf, Scoped, IInv, RowsWereProposed
<1>2. ASSUME NEW o \in FilledOf(t, s)
      PROVE  recorded[o].quantity \in Nat \ {0} /\ recorded[o].price \in Int
  <2>1. recorded[o] \in [quantity : Nat, price : Price \cup {0}]
    BY <1>1 DEF IInv, TypeOK
  <2>2. Price \cup {0} \subseteq Int
    OBVIOUS
  <2>3. recorded[o].quantity > 0
    BY DEF FilledOf, FilledQuantity
  <2>4. recorded[o].quantity \in Nat /\ recorded[o].price \in Price \cup {0}
    BY <2>1
  <2>5. recorded[o].price \in Int
    BY ONLY <2>2, <2>4
  <2> QED
    BY <2>3, <2>4, <2>5
<1> QED
  BY <1>1, <1>2, QueuedIsLive, LiveType DEF FilledQuantities, FilledQuantity

\* One row further: the order of the row is added to its side, if it is filled.
LEMMA OneRowFurther ==
    ASSUME IInv, Booked, NEW t, NEW s, NEW side, NEW n \in 1..Len(book)
    PROVE  LET of == FilledQuantities
           IN  /\ SumOver(of, Until(t, s, side, n - 1)) \in Nat
               /\ SumOver(of, Until(t, s, side, n)) =
                      SumOver(of, Until(t, s, side, n - 1))
                      + IF book[n] \in Sided(FilledOf(t, s), side)
                        THEN recorded[book[n]].quantity ELSE 0
<1> DEFINE before == Until(t, s, side, n - 1)
<1>1. Len(book) \in Nat /\ n \in Nat /\ n - 1 \in Nat /\ 1..n = 1..(n - 1) \cup {n}
      /\ 1..(n - 1) \subseteq 1..Len(book) /\ n \notin 1..(n - 1)
  <2>1. Len(book) \in Nat
    BY DEF IInv, TypeOK
  <2> QED
    BY <2>1
<1>2. book[n] \notin before
  BY <1>1 DEF Booked, Until
<1>3. /\ IsFiniteSet(before) /\ before \subseteq FilledOf(t, s)
      /\ \A o \in before : FilledQuantities[o] \in Nat
  <2>1. before \subseteq FilledOf(t, s) /\ FilledOf(t, s) \subseteq Request
    BY FilledType DEF Until, Sided
  <2> QED
    BY <2>1, FS_Subset, FilledType
<1>4. SumOver(FilledQuantities, before) \in Nat
  <2> HIDE DEF before
  <2> QED
    BY <1>3, SumType
<1>5. CASE book[n] \in Sided(FilledOf(t, s), side)
  <2>1. Until(t, s, side, n) = before \cup {book[n]}
    BY <1>1, <1>5 DEF Until
  <2>2. book[n] \in FilledOf(t, s)
    BY <1>5 DEF Sided
  <2>3. \A o \in before \cup {book[n]} : FilledQuantities[o] \in Nat
    BY <1>3, <2>2, FilledType
  <2>4. SumOver(FilledQuantities, before \cup {book[n]})
            = SumOver(FilledQuantities, before) + FilledQuantities[book[n]]
    <3> HIDE DEF before
    <3> QED
      BY <1>2, <1>3, <2>3, SumAdd
  <2>5. FilledQuantities[book[n]] = recorded[book[n]].quantity
    BY <2>2, FilledType
  <2> QED
    BY <1>4, <1>5, <2>1, <2>4, <2>5
<1>6. CASE book[n] \notin Sided(FilledOf(t, s), side)
  <2>1. Until(t, s, side, n) = before
    BY <1>1, <1>6 DEF Until
  <2> QED
    BY <1>4, <1>6, <2>1
<1> QED
  BY <1>5, <1>6

\* The run after the first n rows holds what the first n rows bought less what they sold.
Adds(t, s, n) ==
    /\ Running(t, s)[n] \in [quantity : Int, spent : Int, units : Int]
    /\ Running(t, s)[n].quantity = SumOver(FilledQuantities, Until(t, s, "BUY", n))
                                   - SumOver(FilledQuantities, Until(t, s, "SELL", n))

\* What a trade adds to the quantity.
Signed(side, filled) == IF side = "BUY" THEN filled ELSE -filled

\* A trade of whole numbers makes whole numbers, and moves the quantity by what it fills.
LEMMA TradeMoves ==
    ASSUME NEW held \in [quantity : Int, spent : Int, units : Int], NEW side,
           NEW filled \in Nat \ {0}, NEW price \in Int
    PROVE  /\ Traded(held, side, filled, price) \in [quantity : Int, spent : Int, units : Int]
           /\ Traded(held, side, filled, price).quantity =
                  held.quantity + Signed(side, filled)
<1> DEFINE q == held.quantity + (IF side = "BUY" THEN filled ELSE -filled)
           w == held.spent * held.quantity + price * filled * held.units
           u == held.units * q
<1>1. q \in Int /\ w \in Int /\ u \in Int
  <2>1. held.quantity \in Int /\ held.spent \in Int /\ held.units \in Int /\ filled \in Int
    OBVIOUS
  <2>2. held.spent * held.quantity \in Int /\ price * filled \in Int
    BY <2>1
  <2>3. price * filled * held.units \in Int
    BY <2>1, <2>2
  <2> QED
    BY <2>1, <2>2, <2>3
<1>2. Traded(held, side, filled, price) =
          IF side = "BUY" /\ q # 0 THEN [quantity |-> q, spent |-> w, units |-> u]
          ELSE [held EXCEPT !.quantity = q]
  BY DEF Traded
<1> HIDE DEF q, w, u
<1>3. ASSUME NEW x, x = Traded(held, side, filled, price)
      PROVE  x \in [quantity : Int, spent : Int, units : Int] /\ x.quantity = q
  <2>1. CASE side = "BUY" /\ q # 0
    BY <1>1, <1>2, <1>3, <2>1
  <2>2. CASE ~(side = "BUY" /\ q # 0)
    BY <1>1, <1>2, <1>3, <2>2
  <2> QED
    BY <2>1, <2>2
<1> QED
  BY <1>3 DEF q, Signed

LEMMA RunsAdd ==
    ASSUME IInv, Booked, NEW t, NEW s
    PROVE  \A n \in 0..Len(book) : Adds(t, s, n)
<1> DEFINE holds == {n \in 0..Len(book) : Adds(t, s, n)}
<1>1. Len(book) \in Nat /\ RowByRow
  <2>1. Len(book) \in Nat
    BY DEF IInv, TypeOK
  <2> QED
    BY <2>1, RunningRowByRow
<1>2. Adds(t, s, 0)
  <2>1. Running(t, s)[0] = [quantity |-> 0, spent |-> 0, units |-> 1]
    BY <1>1 DEF RowByRow, Nothing
  <2>2. \A side : Until(t, s, side, 0) = {}
    BY DEF Until
  <2>3. \A side : SumOver(FilledQuantities, Until(t, s, side, 0)) = 0
    BY <2>2, SumOfNone
  <2>4. Running(t, s)[0] \in [quantity : Int, spent : Int, units : Int]
        /\ Running(t, s)[0].quantity = 0
    BY <2>1
  <2> QED
    BY <2>3, <2>4 DEF Adds
<1>3. ASSUME NEW n \in 1..Len(book), Adds(t, s, n - 1) PROVE Adds(t, s, n)
  <2> DEFINE before == Running(t, s)[n - 1]
             after == Running(t, s)[n]
             bought(k) == SumOver(FilledQuantities, Until(t, s, "BUY", k))
             sold(k) == SumOver(FilledQuantities, Until(t, s, "SELL", k))
             o == book[n]
  <2>1. after = Swept(t, s, before, o)
    BY <1>1 DEF RowByRow
  <2>2. /\ before \in [quantity : Int, spent : Int, units : Int]
        /\ before.quantity = bought(n - 1) - sold(n - 1)
    BY <1>3 DEF Adds
  <2>3. /\ bought(n - 1) \in Nat /\ sold(n - 1) \in Nat
        /\ bought(n) = bought(n - 1) + IF o \in Sided(FilledOf(t, s), "BUY")
                                      THEN recorded[o].quantity ELSE 0
        /\ sold(n) = sold(n - 1) + IF o \in Sided(FilledOf(t, s), "SELL")
                                  THEN recorded[o].quantity ELSE 0
    BY OneRowFurther
  <2> SUFFICES after \in [quantity : Int, spent : Int, units : Int]
               /\ after.quantity = bought(n) - sold(n)
    BY DEF Adds
  <2> HIDE DEF before, after, bought, sold
  <2>4. CASE o \in FilledOf(t, s)
    <3>1. /\ recorded[o].quantity \in Nat \ {0} /\ recorded[o].price \in Int
          /\ Asks(o).side \in {"BUY", "SELL"}
      BY <2>4, FilledType
    <3>2. after = Traded(before, Asks(o).side, recorded[o].quantity, recorded[o].price)
      BY <2>1, <2>4 DEF Swept
    <3>3. /\ bought(n) = bought(n - 1) + (IF Asks(o).side = "BUY" THEN recorded[o].quantity ELSE 0)
          /\ sold(n) = sold(n - 1) + (IF Asks(o).side = "SELL" THEN recorded[o].quantity ELSE 0)
      BY <2>3, <2>4 DEF Sided
    <3> SUFFICES ASSUME NEW filled, filled = recorded[o].quantity,
                        NEW price, price = recorded[o].price, NEW side, side = Asks(o).side
                 PROVE  /\ after \in [quantity : Int, spent : Int, units : Int]
                        /\ after.quantity = bought(n) - sold(n)
      OBVIOUS
    <3>4. /\ filled \in Nat \ {0} /\ price \in Int /\ side \in {"BUY", "SELL"}
          /\ after = Traded(before, side, filled, price)
          /\ before \in [quantity : Int, spent : Int, units : Int]
      BY <2>2, <3>1, <3>2
    <3>5. /\ after \in [quantity : Int, spent : Int, units : Int]
          /\ after.quantity = before.quantity + Signed(side, filled)
      BY ONLY <3>4, TradeMoves
    <3> DEFINE a == bought(n - 1)
               b == sold(n - 1)
               c == bought(n)
               d == sold(n)
               q == before.quantity
               r == after.quantity
    <3>6. /\ a \in Nat /\ b \in Nat /\ q = a - b
          /\ c = a + (IF side = "BUY" THEN filled ELSE 0)
          /\ d = b + (IF side = "SELL" THEN filled ELSE 0)
          /\ r = q + (IF side = "BUY" THEN filled ELSE -filled)
      BY <2>2, <2>3, <3>3, <3>5 DEF Signed
    <3>7. r = c - d
      <4> HIDE DEF a, b, c, d, q, r
      <4> QED
        BY ONLY <3>4, <3>6
    <3> QED
      BY <3>5, <3>7
  <2>5. CASE o \notin FilledOf(t, s)
    <3>1. after = before
      BY <2>1, <2>5 DEF Swept
    <3>2. bought(n) = bought(n - 1) /\ sold(n) = sold(n - 1)
      BY <2>3, <2>5 DEF Sided
    <3> QED
      BY <2>2, <3>1, <3>2
  <2> QED
    BY <2>4, <2>5
<1>4. \A n \in 0..Len(book) : n \in holds
  <2>1. 0 \in holds /\ \A n \in 1..Len(book) : n - 1 \in holds => n \in holds
    <3>1. 0 \in 0..Len(book) /\ \A n \in 1..Len(book) : n \in 0..Len(book)
      BY <1>1
    <3> QED
      BY <1>2, <1>3, <3>1
  <2> HIDE DEF holds
  <2> QED
    BY <1>1, <2>1, AlongTheBook
<1> QED
  BY <1>4

\* What the whole book bought less what it sold is what is held.
LEMMA WholeBook ==
    ASSUME IInv, Booked, NEW t, NEW s
    PROVE  Position(t, s).quantity = Shares(t, s)
<1>1. Len(book) \in 0..Len(book)
  <2>1. Len(book) \in Nat
    BY DEF IInv, TypeOK
  <2> QED
    BY <2>1
<1>2. \A side : Until(t, s, side, Len(book)) = Sided(FilledOf(t, s), side)
  BY DEF Booked, Until, Sided, FilledOf, Scoped
<1> QED
  BY <1>1, <1>2, RunsAdd DEF Adds, Position, Shares

\* The run after the first n rows has an average between the prices paid.
Averages(t, s, n) ==
    /\ Running(t, s)[n] \in [quantity : Int, spent : Int, units : Nat \ {0}]
    /\ Running(t, s)[n].quantity > 0 => Between(Running(t, s)[n], PricesPaid(t, s))

LEMMA RunsAverage ==
    ASSUME IInv, Booked, NEW t, NEW s, NeverShort(t, s)
    PROVE  \A n \in 0..Len(book) : Averages(t, s, n)
<1> DEFINE holds == {n \in 0..Len(book) : Averages(t, s, n)}
           paid == PricesPaid(t, s)
<1>1. Len(book) \in Nat /\ RowByRow
  <2>1. Len(book) \in Nat
    BY DEF IInv, TypeOK
  <2> QED
    BY <2>1, RunningRowByRow
<1>2. Averages(t, s, 0)
  <2>1. Running(t, s)[0] = [quantity |-> 0, spent |-> 0, units |-> 1]
    BY <1>1 DEF RowByRow, Nothing
  <2>2. Running(t, s)[0] \in [quantity : Int, spent : Int, units : Nat \ {0}]
        /\ Running(t, s)[0].quantity = 0
    BY <2>1
  <2> QED
    BY <2>2 DEF Averages
<1>3. paid \subseteq Int
  BY FilledType DEF PricesPaid, Sided
<1>4. ASSUME NEW n \in 1..Len(book), Averages(t, s, n - 1) PROVE Averages(t, s, n)
  <2> DEFINE before == Running(t, s)[n - 1]
             after == Running(t, s)[n]
             o == book[n]
  <2>1. after = Swept(t, s, before, o)
    BY <1>1 DEF RowByRow
  <2>2. /\ before \in [quantity : Int, spent : Int, units : Nat \ {0}]
        /\ before.quantity > 0 => Between(before, paid)
    BY <1>4 DEF Averages
  <2>3. before \in [quantity : Nat, spent : Int, units : Nat \ {0}]
    <3>1. n - 1 \in 0..Len(book)
      BY <1>1
    <3>2. before.quantity >= 0
      BY <3>1 DEF NeverShort
    <3> HIDE DEF before
    <3> QED
      BY <2>2, <3>2
  <2> SUFFICES /\ after \in [quantity : Int, spent : Int, units : Nat \ {0}]
               /\ after.quantity > 0 => Between(after, paid)
    BY DEF Averages
  <2> HIDE DEF before, after, paid
  <2>4. CASE o \notin FilledOf(t, s)
    BY <2>1, <2>2, <2>4 DEF Swept
  <2>5. CASE o \in FilledOf(t, s)
    <3>1. /\ recorded[o].quantity \in Nat \ {0} /\ recorded[o].price \in Int
          /\ Asks(o).side \in {"BUY", "SELL"}
      BY <2>5, FilledType
    <3>2. after = Traded(before, Asks(o).side, recorded[o].quantity, recorded[o].price)
      BY <2>1, <2>5 DEF Swept
    <3>3. CASE Asks(o).side = "BUY"
      <4>1. paid \cup {recorded[o].price} = paid
        BY <2>5, <3>3 DEF paid, PricesPaid, Sided
      <4>2. /\ after \in [quantity : Int, spent : Int, units : Nat \ {0}]
            /\ Between(after, paid \cup {recorded[o].price})
        BY ONLY <1>3, <2>2, <2>3, <3>1, <3>2, <3>3, PurchaseAverages
      <4> QED
        BY <4>1, <4>2
    <3>4. CASE Asks(o).side = "SELL"
      BY ONLY <2>2, <3>1, <3>2, <3>4, SaleKeeps
    <3> QED
      BY <3>1, <3>3, <3>4
  <2> QED
    BY <2>4, <2>5
<1>5. \A n \in 0..Len(book) : n \in holds
  <2>1. 0 \in holds /\ \A n \in 1..Len(book) : n - 1 \in holds => n \in holds
    <3>1. 0 \in 0..Len(book) /\ \A n \in 1..Len(book) : n \in 0..Len(book)
      BY <1>1
    <3> HIDE DEF paid
    <3> QED
      BY <1>2, <1>4, <3>1
  <2> HIDE DEF holds
  <2> QED
    BY <1>1, <2>1, AlongTheBook
<1> QED
  BY <1>5

\* What positions() makes of the tenant's rows, in whatever order they are placed, filled
\* and told of: a quantity that is the sum of them and, unless more was sold than bought
\* at a point of the book, an average cost between the lowest and the highest price paid.
THEOREM AverageHolds == Spec => []AverageIsOfPricesPaid
<1>1. IInv /\ Booked => AverageIsOfPricesPaid
  <2> SUFFICES ASSUME IInv, Booked, NEW t \in Client, NEW s \in Symbol,
                      NEW held, held = Position(t, s)
               PROVE  /\ held.quantity = Shares(t, s)
                      /\ NeverShort(t, s) /\ held.quantity > 0 => Between(held, PricesPaid(t, s))
    BY DEF AverageIsOfPricesPaid, Between
  <2>1. Len(book) \in 0..Len(book)
    <3>1. Len(book) \in Nat
      BY DEF IInv, TypeOK
    <3> QED
      BY <3>1
  <2> QED
    BY <2>1, WholeBook, RunsAverage DEF Averages, Position
<1> QED
  BY <1>1, DeskInvariant, BookedInvariant, PTL

--------------------------------------------------------------------------------
(* The worker: reports of the broker on callback threads. *)

\* The mapper only ever names the five reportable statuses.
LEMMA MapsToReportable ==
    ASSUME NEW ib \in IbStatus, NEW whyHeld \in WhyHeld, MapStatus(ib, whyHeld) # "none"
    PROVE  MapStatus(ib, whyHeld) \in Reportable
  BY DEF MapStatus, Reportable, IbStatus

\* A call that is entered is a Call.
LEMMA FreshCall ==
    ASSUME NEW o \in Order, NEW target \in Reportable
    PROVE  [pc |-> "find", order |-> o, target |-> target,
            seen |-> "absent", attempt |-> 1, beaten |-> 0] \in Call
  BY TrackerAssumption DEF Call, OrderStatus

-----------------------------------------------------------------------------
(* Types *)

\* A busy thread's call is a Call, and its order an order.
LEMMA BusyCall ==
    ASSUME TrackerTypeOK, NEW t \in Thread, Busy(t)
    PROVE  call[t] \in Call
  BY DEF TrackerTypeOK, Busy, NoCall

\* Overtaking keeps every call's type and changes nothing of it but beaten.
LEMMA OvertakeType ==
    ASSUME TrackerTypeOK, NEW t \in Thread, NEW o \in Order
    PROVE  /\ Overtake(t, o) \in [Thread -> Call \cup {NoCall}]
           /\ \A u \in Thread :
                 /\ Overtake(t, o)[u].pc = call[u].pc
                 /\ Busy(u) =>
                      /\ Overtake(t, o)[u].order = call[u].order
                      /\ Overtake(t, o)[u].target = call[u].target
                      /\ Overtake(t, o)[u].seen = call[u].seen
                      /\ Overtake(t, o)[u].attempt = call[u].attempt
                      /\ Overtake(t, o)[u].beaten >= call[u].beaten
                      /\ Overtake(t, o)[u].beaten =
                           IF u # t /\ call[u].order = o /\ call[u].beaten < MaxCasRetry
                           THEN call[u].beaten + 1 ELSE call[u].beaten
<1> SUFFICES ASSUME NEW u \in Thread
             PROVE  /\ Overtake(t, o)[u] \in Call \cup {NoCall}
                    /\ Overtake(t, o)[u].pc = call[u].pc
                    /\ Busy(u) =>
                         /\ Overtake(t, o)[u].order = call[u].order
                         /\ Overtake(t, o)[u].target = call[u].target
                         /\ Overtake(t, o)[u].seen = call[u].seen
                         /\ Overtake(t, o)[u].attempt = call[u].attempt
                         /\ Overtake(t, o)[u].beaten >= call[u].beaten
                         /\ Overtake(t, o)[u].beaten =
                              IF u # t /\ call[u].order = o /\ call[u].beaten < MaxCasRetry
                              THEN call[u].beaten + 1 ELSE call[u].beaten
  BY DEF Overtake
<1>1. CASE Busy(u)
  <2>1. call[u] \in Call
    BY <1>1, BusyCall
  <2>2. CASE u # t /\ call[u].order = o /\ call[u].beaten < MaxCasRetry
    <3>1. Overtake(t, o)[u] = [call[u] EXCEPT !.beaten = call[u].beaten + 1]
      BY <1>1, <2>2 DEF Overtake
    <3>2. call[u].beaten + 1 \in 0..MaxCasRetry
      BY <2>1, <2>2, TrackerAssumption DEF Call
    <3> QED
      BY <2>1, <2>2, <3>1, <3>2, TrackerAssumption DEF Call
  <2>3. CASE ~(u # t /\ call[u].order = o /\ call[u].beaten < MaxCasRetry)
    <3>1. Overtake(t, o)[u] = call[u]
      BY <2>3 DEF Overtake
    <3>2. call[u].beaten \in Nat
      BY <2>1, TrackerAssumption DEF Call
    <3> QED
      BY <2>1, <2>3, <3>1, <3>2
  <2> QED
    BY <2>2, <2>3
<1>2. CASE ~Busy(u)
  BY <1>2 DEF Overtake, TrackerTypeOK
<1> QED
  BY <1>1, <1>2

\* One step keeps the types.
LEMMA TypeStep == TrackerTypeOK /\ [TrackerNext]_trackerVars => TrackerTypeOK'
<1> SUFFICES ASSUME TrackerTypeOK, [TrackerNext]_trackerVars
             PROVE  TrackerTypeOK'
  OBVIOUS
<1>1. ASSUME NEW o \in Order, Register(o)
      PROVE  TrackerTypeOK'
  BY <1>1 DEF TrackerTypeOK, Register, OrderStatus
<1>2. ASSUME NEW t \in Thread, NEW o \in Order, OnStatus(t, o)
      PROVE  TrackerTypeOK'
  <2>1. PICK ib \in IbStatus, whyHeld \in WhyHeld :
          /\ MapStatus(ib, "") # "none"
          /\ call' = [call EXCEPT ![t] =
               [pc |-> "find", order |-> o, target |-> MapStatus(ib, ""),
                seen |-> "absent", attempt |-> 1, beaten |-> 0]]
          /\ refusals' = IF MapStatus(ib, whyHeld) = "REJECTED"
                         THEN refusals \cup {o} ELSE refusals
          /\ located' = IF ib = "Inactive" /\ whyHeld = "locate"
                        THEN located \cup {o} ELSE located
          /\ UNCHANGED <<statusOf, settled>>
    BY <1>2 DEF OnStatus
  <2>2. MapStatus(ib, "") \in Reportable
    BY <2>1, MapsToReportable DEF WhyHeld
  <2>3. [pc |-> "find", order |-> o, target |-> MapStatus(ib, ""),
         seen |-> "absent", attempt |-> 1, beaten |-> 0] \in Call
    BY <2>2, FreshCall
  <2>4. call' \in [Thread -> Call \cup {NoCall}]
    BY <2>1, <2>3 DEF TrackerTypeOK
  <2>5. refusals' \subseteq Order /\ located' \subseteq Order
    BY <2>1 DEF TrackerTypeOK
  <2> QED
    BY <2>1, <2>4, <2>5 DEF TrackerTypeOK
<1>3. ASSUME NEW t \in Thread, Work(t)
      PROVE  TrackerTypeOK'
  <2>1. call[t] \in Call
    BY <1>3, BusyCall DEF Work, FindAndJudge, FindUntracked, FindMoot, CasWins,
                          CasLoses, GiveUp, Busy
  <2>2. CASE FindAndJudge(t)
    <3>1. statusOf[call[t].order] \in OrderStatus \cup {"absent"}
      BY <2>1 DEF TrackerTypeOK, Call
    <3>2. [call[t] EXCEPT !.pc = "cas", !.seen = statusOf[call[t].order]] \in Call
      BY <2>1, <3>1 DEF Call
    <3>3. call' = [call EXCEPT ![t] = [call[t] EXCEPT !.pc = "cas",
                                                      !.seen = statusOf[call[t].order]]]
      BY <2>2 DEF FindAndJudge, TrackerTypeOK
    <3> QED
      BY <2>2, <3>2, <3>3 DEF TrackerTypeOK, FindAndJudge
  <2>3. CASE FindUntracked(t)
    BY <2>3 DEF TrackerTypeOK, FindUntracked
  <2>4. CASE FindMoot(t)
    BY <2>1, <2>4 DEF TrackerTypeOK, FindMoot, Call
  <2>5. CASE CasWins(t)
    <3>1. call' \in [Thread -> Call \cup {NoCall}]
      <4>1. call[t].order \in Order
        BY <2>1 DEF Call
      <4>2. Overtake(t, call[t].order) \in [Thread -> Call \cup {NoCall}]
        BY <4>1, OvertakeType
      <4> QED
        BY <2>5, <4>2 DEF CasWins
    <3>2. call[t].target \in OrderStatus
      BY <2>1 DEF Call, Reportable, OrderStatus
    <3>3. statusOf' \in [Order -> OrderStatus \cup {"absent"}]
      BY <2>5, <3>2 DEF CasWins, TrackerTypeOK
    <3>4. settled' \in [Order -> SUBSET Reportable]
      BY <2>1, <2>5 DEF CasWins, TrackerTypeOK, Call
    <3> QED
      BY <2>5, <3>1, <3>3, <3>4 DEF TrackerTypeOK, CasWins
  <2>6. CASE CasLoses(t)
    <3>1. call[t].attempt + 1 \in 1..MaxCasRetry
      BY <2>1, <2>6, TrackerAssumption DEF Call, CasLoses
    <3>2. [call[t] EXCEPT !.pc = "find", !.attempt = call[t].attempt + 1] \in Call
      BY <2>1, <3>1 DEF Call
    <3>3. call' = [call EXCEPT ![t] = [call[t] EXCEPT !.pc = "find",
                                                      !.attempt = call[t].attempt + 1]]
      BY <2>6 DEF CasLoses, TrackerTypeOK
    <3> QED
      BY <2>6, <3>2, <3>3 DEF TrackerTypeOK, CasLoses
  <2>7. CASE GiveUp(t)
    BY <2>7 DEF TrackerTypeOK, GiveUp
  <2> QED
    BY <1>3, <2>2, <2>3, <2>4, <2>5, <2>6, <2>7 DEF Work
<1>4. CASE UNCHANGED trackerVars
  BY <1>4 DEF TrackerTypeOK, trackerVars
<1> QED
  BY <1>1, <1>2, <1>3, <1>4 DEF TrackerNext

\* Every variable keeps a value of its kind.
THEOREM TrackerTypes == TrackerSpec => []TrackerTypeOK
<1>1. TrackerInit => TrackerTypeOK
  BY DEF TrackerInit, TrackerTypeOK
<1> QED
  BY <1>1, TypeStep, PTL DEF TrackerSpec

-----------------------------------------------------------------------------
(* What the table says about the statuses that reports can produce *)

Reached == {"SUBMITTED"} \cup Reportable

\* FILLED and REJECTED have no way out, and a terminal status leads to a
\* terminal one.
LEMMA LegalSteps ==
    ASSUME NEW from \in Reached, NEW to \in Reportable, CanTransition(from, to)
    PROVE  /\ from \notin {"FILLED", "REJECTED"}
           /\ from \in Terminal => to \in Terminal
           /\ to # "SUBMITTED"
  BY DEF Reached, Reportable, CanTransition, TABLE, Terminal

\* What the table refuses: a fill, only after a fill or a rejection; an ending,
\* only after an ending.
LEMMA IllegalSteps ==
    ASSUME NEW from \in Reached, NEW to \in Reportable, ~CanTransition(from, to)
    PROVE  /\ to = "FILLED" => from \in {"FILLED", "REJECTED"}
           /\ to \in Terminal => from \in Terminal
  BY DEF Reached, Reportable, CanTransition, TABLE, Terminal

\* A row that is not there cannot be moved.
LEMMA NothingFromAbsent ==
    ASSUME NEW to
    PROVE  ~CanTransition("absent", to)
  BY DEF CanTransition, TABLE

-----------------------------------------------------------------------------
(* The inductive invariant *)

\* A row holds what register or a report wrote.
RowsReached == \A o \in Order : statusOf[o] \in {"absent"} \cup Reached

\* A call that goes on to its compare-and-set has judged what it read.
JudgedBeforeCas ==
    \A t \in Thread : call[t].pc = "cas" => CanTransition(call[t].seen, call[t].target)

\* After a fill's report has been dealt with, the row tells of it, or of a refusal.
FillsAreFolded ==
    \A o \in Order : "FILLED" \in settled[o] => statusOf[o] \in {"FILLED", "REJECTED"}

\* What a row, or a call, says of a refusal, the broker has said, or that it locates.
Told(o) == o \in refusals \cup located
RejectedForAReason ==
    /\ \A o \in Order : statusOf[o] = "REJECTED" => Told(o)
    /\ \A t \in Thread : Busy(t) /\ call[t].target = "REJECTED" => Told(call[t].order)

TrackerInv ==
    /\ TrackerTypeOK
    /\ RowsReached
    /\ JudgedBeforeCas
    /\ FillsAreFolded
    /\ RejectedForAReason
    /\ ClosingReportsStick
    /\ LostAttemptsAreOthersWins

\* A row changes by register, or by one legal transition that is then settled.
RowMoves(o) ==
    \/ statusOf'[o] = statusOf[o]
    \/ statusOf[o] = "absent" /\ statusOf'[o] = "SUBMITTED"
    \/ /\ CanTransition(statusOf[o], statusOf'[o])
       /\ statusOf'[o] \in Reportable

\* The compare-and-set writes what was judged of the row as it still is.
LEMMA CasMoves ==
    ASSUME TrackerInv, NEW t \in Thread, CasWins(t), NEW o \in Order
    PROVE  /\ RowMoves(o)
           /\ o = call[t].order => statusOf'[o] = call[t].target
           /\ o # call[t].order => statusOf'[o] = statusOf[o]
<1>1. call[t] \in Call
  BY BusyCall DEF TrackerInv, CasWins, Busy
<1>2. CanTransition(statusOf[call[t].order], call[t].target)
  BY DEF TrackerInv, JudgedBeforeCas, CasWins
<1> QED
  BY <1>1, <1>2 DEF CasWins, RowMoves, TrackerInv, TrackerTypeOK, Call

LEMMA RowsMove == TrackerInv /\ [TrackerNext]_trackerVars => \A o \in Order : RowMoves(o)
<1> SUFFICES ASSUME TrackerInv, [TrackerNext]_trackerVars, NEW o \in Order
             PROVE  RowMoves(o)
  OBVIOUS
<1>1. ASSUME NEW p \in Order, Register(p)
      PROVE  RowMoves(o)
  BY <1>1 DEF Register, RowMoves, TrackerInv, TrackerTypeOK
<1>2. ASSUME NEW t \in Thread, NEW p \in Order, OnStatus(t, p)
      PROVE  RowMoves(o)
  BY <1>2 DEF OnStatus, RowMoves
<1>3. ASSUME NEW t \in Thread, Work(t)
      PROVE  RowMoves(o)
  BY <1>3, CasMoves DEF Work, FindAndJudge, FindUntracked, FindMoot, CasLoses,
                        GiveUp, RowMoves
<1>4. CASE UNCHANGED trackerVars
  BY <1>4 DEF trackerVars, RowMoves
<1> QED
  BY <1>1, <1>2, <1>3, <1>4 DEF TrackerNext

LEMMA RowsReachedStep == TrackerInv /\ [TrackerNext]_trackerVars => RowsReached'
<1> SUFFICES ASSUME TrackerInv, [TrackerNext]_trackerVars, NEW o \in Order
             PROVE  statusOf'[o] \in {"absent"} \cup Reached
  BY DEF RowsReached
<1> QED
  BY RowsMove DEF RowMoves, TrackerInv, RowsReached, Reached

\* What a step adds to settled holds of the row after it.
LEMMA SettledStep ==
    ASSUME TrackerInv, [TrackerNext]_trackerVars, NEW o \in Order
    PROVE  \/ settled'[o] = settled[o]
           \/ \E target \in Reportable :
                 /\ settled'[o] = settled[o] \cup {target}
                 /\ target = "FILLED" => statusOf'[o] \in {"FILLED", "REJECTED"}
                 /\ target \in Terminal => statusOf'[o] \in Terminal
<1>1. ASSUME NEW p \in Order, Register(p)
      PROVE  settled'[o] = settled[o]
  BY <1>1 DEF Register
<1>2. ASSUME NEW t \in Thread, NEW p \in Order, OnStatus(t, p)
      PROVE  settled'[o] = settled[o]
  BY <1>2 DEF OnStatus
<1>3. ASSUME NEW t \in Thread, FindMoot(t)
      PROVE  \/ settled'[o] = settled[o]
             \/ \E target \in Reportable :
                   /\ settled'[o] = settled[o] \cup {target}
                   /\ target = "FILLED" => statusOf'[o] \in {"FILLED", "REJECTED"}
                   /\ target \in Terminal => statusOf'[o] \in Terminal
  <2>1. call[t] \in Call
    BY <1>3, BusyCall DEF TrackerInv, FindMoot, Busy
  <2>2. CASE o # call[t].order
    BY <1>3, <2>1, <2>2 DEF FindMoot, TrackerInv, TrackerTypeOK, Call
  <2>3. CASE o = call[t].order
    <3>1. settled'[o] = settled[o] \cup {call[t].target} /\ statusOf' = statusOf
      BY <1>3, <2>1, <2>3 DEF FindMoot, TrackerInv, TrackerTypeOK, Call
    <3>2. statusOf[o] \in Reached /\ call[t].target \in Reportable
      BY <1>3, <2>1, <2>3 DEF FindMoot, TrackerInv, RowsReached, Call
    <3>3. statusOf[o] = call[t].target \/ ~CanTransition(statusOf[o], call[t].target)
      BY <1>3, <2>3 DEF FindMoot
    <3>4. /\ call[t].target = "FILLED" => statusOf[o] \in {"FILLED", "REJECTED"}
          /\ call[t].target \in Terminal => statusOf[o] \in Terminal
      BY <3>2, <3>3, IllegalSteps
    <3> QED
      BY <3>1, <3>2, <3>4
  <2> QED
    BY <2>2, <2>3
<1>4. ASSUME NEW t \in Thread, CasWins(t)
      PROVE  \/ settled'[o] = settled[o]
             \/ \E target \in Reportable :
                   /\ settled'[o] = settled[o] \cup {target}
                   /\ target = "FILLED" => statusOf'[o] \in {"FILLED", "REJECTED"}
                   /\ target \in Terminal => statusOf'[o] \in Terminal
  <2>1. call[t] \in Call
    BY <1>4, BusyCall DEF TrackerInv, CasWins, Busy
  <2>2. CASE o # call[t].order
    BY <1>4, <2>1, <2>2 DEF CasWins, TrackerInv, TrackerTypeOK, Call
  <2>3. CASE o = call[t].order
    <3>1. settled'[o] = settled[o] \cup {call[t].target}
      BY <1>4, <2>1, <2>3 DEF CasWins, TrackerInv, TrackerTypeOK, Call
    <3>2. statusOf'[o] = call[t].target
      BY <1>4, <2>3, CasMoves
    <3> QED
      BY <2>1, <3>1, <3>2 DEF Call
  <2> QED
    BY <2>2, <2>3
<1>5. ASSUME NEW t \in Thread,
             FindAndJudge(t) \/ FindUntracked(t) \/ CasLoses(t) \/ GiveUp(t)
      PROVE  settled'[o] = settled[o]
  BY <1>5 DEF FindAndJudge, FindUntracked, CasLoses, GiveUp
<1>6. CASE UNCHANGED trackerVars
  BY <1>6 DEF trackerVars
<1> QED
  BY <1>1, <1>2, <1>3, <1>4, <1>5, <1>6 DEF TrackerNext, Work

LEMMA FillsAreFoldedStep == TrackerInv /\ [TrackerNext]_trackerVars => FillsAreFolded'
<1> SUFFICES ASSUME TrackerInv, [TrackerNext]_trackerVars, NEW o \in Order, "FILLED" \in settled'[o]
             PROVE  statusOf'[o] \in {"FILLED", "REJECTED"}
  BY DEF FillsAreFolded
<1>1. CASE "FILLED" \in settled[o]
  <2>1. statusOf[o] \in {"FILLED", "REJECTED"}
    BY <1>1 DEF TrackerInv, FillsAreFolded
  <2>2. statusOf[o] \in Reached /\ statusOf[o] # "absent"
    BY <2>1 DEF Reached, Reportable
  <2> QED
    BY <2>1, <2>2, RowsMove, LegalSteps DEF RowMoves
<1>2. CASE "FILLED" \notin settled[o]
  BY <1>2, SettledStep
<1> QED
  BY <1>1, <1>2

\* The mapper says REJECTED of an order that is refused or located, for want of the reason.
LEMMA RejectedMeans ==
    ASSUME NEW ib \in IbStatus, NEW whyHeld \in WhyHeld, MapStatus(ib, "") = "REJECTED"
    PROVE  MapStatus(ib, whyHeld) = "REJECTED" \/ (ib = "Inactive" /\ whyHeld = "locate")
BY DEF MapStatus, IbStatus, WhyHeld

LEMMA RejectedForAReasonStep == TrackerInv /\ [TrackerNext]_trackerVars => RejectedForAReason'
<1> SUFFICES ASSUME TrackerInv, [TrackerNext]_trackerVars
             PROVE  RejectedForAReason'
  OBVIOUS
<1>0. TrackerTypeOK /\ RejectedForAReason
  BY DEF TrackerInv
<1>1. ASSUME NEW o \in Order, Register(o)
      PROVE  RejectedForAReason'
  BY <1>0, <1>1 DEF Register, RejectedForAReason, Told, Busy, TrackerTypeOK
<1>2. ASSUME NEW t \in Thread, NEW o \in Order, OnStatus(t, o)
      PROVE  RejectedForAReason'
  <2>1. PICK ib \in IbStatus, whyHeld \in WhyHeld :
          /\ call' = [call EXCEPT ![t] =
               [pc |-> "find", order |-> o, target |-> MapStatus(ib, ""),
                seen |-> "absent", attempt |-> 1, beaten |-> 0]]
          /\ refusals' = IF MapStatus(ib, whyHeld) = "REJECTED"
                         THEN refusals \cup {o} ELSE refusals
          /\ located' = IF ib = "Inactive" /\ whyHeld = "locate"
                        THEN located \cup {o} ELSE located
          /\ statusOf' = statusOf
    BY <1>2 DEF OnStatus
  <2>2. MapStatus(ib, "") = "REJECTED" => o \in refusals' \cup located'
    BY <2>1, RejectedMeans
  <2>3. \A k : Told(k) => Told(k)'
    BY <2>1 DEF Told
  <2>4. call'[t].target = MapStatus(ib, "") /\ call'[t].order = o
    BY <1>0, <2>1 DEF TrackerTypeOK
  <2>5. \A u \in Thread \ {t} : call'[u] = call[u]
    BY <1>0, <2>1 DEF TrackerTypeOK
  <2>6. \A k \in Order : statusOf'[k] = "REJECTED" => Told(k)'
    BY <1>0, <2>1, <2>3 DEF RejectedForAReason
  <2>7. ASSUME NEW u \in Thread, Busy(u)', call'[u].target = "REJECTED"
        PROVE  Told(call[u].order)'
    BY <1>0, <2>2, <2>3, <2>4, <2>5, <2>7 DEF RejectedForAReason, Busy, Told
  <2> QED
    BY <2>6, <2>7 DEF RejectedForAReason
<1>3. ASSUME NEW t \in Thread, Work(t)
      PROVE  RejectedForAReason'
  <2>1. call[t] \in Call /\ Busy(t)
    BY <1>0, <1>3, BusyCall DEF Work, FindAndJudge, FindUntracked, FindMoot, CasWins,
                                CasLoses, GiveUp, Busy
  <2>2. refusals' = refusals /\ located' = located
    BY <1>3 DEF Work, FindAndJudge, FindUntracked, FindMoot, CasWins, CasLoses, GiveUp
  <2>3. CASE CasWins(t)
    <3>1. call[t].order \in Order
      BY <2>1 DEF Call
    <3>2. \A k \in Order : statusOf'[k] = "REJECTED" => Told(k)
      BY <1>0, <2>1, <2>3, <3>1 DEF CasWins, RejectedForAReason, TrackerTypeOK
    <3>3. ASSUME NEW u \in Thread
          PROVE  \/ ~Busy(u)'
                 \/ Busy(u) /\ call'[u].target = call[u].target /\ call'[u].order = call[u].order
      <4>1. Overtake(t, call[t].order) \in [Thread -> Call \cup {NoCall}]
        BY <1>0, <3>1, OvertakeType
      <4>2. CASE u = t
        BY <2>3, <4>1, <4>2 DEF CasWins, Busy, NoCall
      <4>3. CASE u # t
        <5>1. call'[u] = Overtake(t, call[t].order)[u]
          BY <2>3, <4>1, <4>3 DEF CasWins
        <5>2. call[u] \in Call \cup {NoCall}
          BY <1>0 DEF TrackerTypeOK
        <5>3. CASE Busy(u)
          <6>1. call[u] \in Call
            BY <5>2, <5>3 DEF Busy, NoCall
          <6> QED
            BY <5>1, <5>3, <6>1 DEF Overtake, Call
        <5>4. CASE ~Busy(u)
          BY <5>1, <5>4 DEF Overtake, Busy
        <5> QED
          BY <5>3, <5>4
      <4> QED
        BY <4>2, <4>3
    <3> QED
      BY <1>0, <2>2, <3>2, <3>3 DEF RejectedForAReason, Told
  <2>4. CASE FindAndJudge(t) \/ FindUntracked(t) \/ FindMoot(t) \/ CasLoses(t) \/ GiveUp(t)
    <3>1. statusOf' = statusOf
      BY <2>4 DEF FindAndJudge, FindUntracked, FindMoot, CasLoses, GiveUp
    <3>2. ASSUME NEW u \in Thread
          PROVE  \/ ~Busy(u)'
                 \/ Busy(u) /\ call'[u].target = call[u].target /\ call'[u].order = call[u].order
      <4>1. CASE u # t
        BY <1>0, <2>4, <4>1 DEF FindAndJudge, FindUntracked, FindMoot, CasLoses, GiveUp,
                                Busy, TrackerTypeOK
      <4>2. CASE u = t
        BY <1>0, <2>1, <2>4, <4>2 DEF FindAndJudge, FindUntracked, FindMoot, CasLoses, GiveUp,
                                      Busy, NoCall, TrackerTypeOK, Call
      <4> QED
        BY <4>1, <4>2
    <3> QED
      BY <1>0, <2>2, <3>1, <3>2 DEF RejectedForAReason, Told
  <2> QED
    BY <1>3, <2>3, <2>4 DEF Work
<1>4. CASE UNCHANGED trackerVars
  BY <1>0, <1>4 DEF RejectedForAReason, Told, Busy, trackerVars
<1> QED
  BY <1>1, <1>2, <1>3, <1>4 DEF TrackerNext

LEMMA ClosingReportsStickStep == TrackerInv /\ [TrackerNext]_trackerVars => ClosingReportsStick'
<1> SUFFICES ASSUME TrackerInv, [TrackerNext]_trackerVars, NEW o \in Order, settled'[o] \cap Terminal # {}
             PROVE  statusOf'[o] \in Terminal
  BY DEF ClosingReportsStick
<1>1. CASE settled[o] \cap Terminal # {}
  <2>1. statusOf[o] \in Terminal
    BY <1>1 DEF TrackerInv, ClosingReportsStick
  <2>2. statusOf[o] \in Reached /\ statusOf[o] # "absent"
    BY <2>1 DEF TrackerInv, RowsReached, Terminal
  <2> QED
    BY <2>1, <2>2, RowsMove, LegalSteps DEF RowMoves
<1>2. CASE settled[o] \cap Terminal = {}
  BY <1>2, SettledStep
<1> QED
  BY <1>1, <1>2

\* A call that goes on to compare-and-set has just found the transition legal,
\* and nothing but a new read changes what it saw.
LEMMA JudgedBeforeCasStep == TrackerInv /\ [TrackerNext]_trackerVars => JudgedBeforeCas'
<1> SUFFICES ASSUME TrackerInv, [TrackerNext]_trackerVars, NEW u \in Thread, call'[u].pc = "cas"
             PROVE  CanTransition(call'[u].seen, call'[u].target)
  BY DEF JudgedBeforeCas
<1>1. CASE call'[u] = call[u]
  BY <1>1 DEF TrackerInv, JudgedBeforeCas
<1>2. ASSUME NEW t \in Thread, NEW o \in Order, OnStatus(t, o)
      PROVE  call'[u] = call[u]
  <2>1. PICK ib \in IbStatus :
          call' = [call EXCEPT ![t] =
               [pc |-> "find", order |-> o, target |-> MapStatus(ib, ""),
                seen |-> "absent", attempt |-> 1, beaten |-> 0]]
    BY <1>2 DEF OnStatus
  <2>2. call'[t].pc = "find"
    BY <2>1 DEF TrackerInv, TrackerTypeOK
  <2>3. CASE u = t
    BY <2>2, <2>3
  <2>4. CASE u # t
    BY <2>1, <2>4 DEF TrackerInv, TrackerTypeOK
  <2> QED
    BY <2>3, <2>4
<1>3. ASSUME NEW t \in Thread, FindAndJudge(t)
      PROVE  CanTransition(call'[u].seen, call'[u].target)
  <2>1. CASE u = t
    <3>1. call[t] \in Call
      BY <1>3, BusyCall DEF TrackerInv, FindAndJudge, Busy
    <3>2. call'[u].seen = statusOf[call[t].order] /\ call'[u].target = call[t].target
      BY <1>3, <2>1, <3>1 DEF FindAndJudge, TrackerInv, TrackerTypeOK, Call
    <3> QED
      BY <1>3, <3>2 DEF FindAndJudge
  <2>2. CASE u # t
    BY <1>1, <1>3, <2>2 DEF FindAndJudge, TrackerInv, TrackerTypeOK
  <2> QED
    BY <2>1, <2>2
<1>4. ASSUME NEW t \in Thread, CasWins(t)
      PROVE  CanTransition(call'[u].seen, call'[u].target)
  <2>1. u # t
    <3>1. call'[t] = NoCall
      BY <1>4, BusyCall, OvertakeType DEF CasWins, TrackerInv, Busy, Call
    <3> QED
      BY <3>1 DEF NoCall
  <2>2. call[t].order \in Order
    BY <1>4, BusyCall DEF CasWins, TrackerInv, Busy, Call
  <2>3. call'[u] = Overtake(t, call[t].order)[u]
    BY <1>4, <2>1, <2>2, OvertakeType DEF CasWins, TrackerInv
  <2>4. call[u].pc = "cas" /\ Busy(u)
    BY <2>2, <2>3, OvertakeType DEF TrackerInv, Busy
  <2>5. call'[u].seen = call[u].seen /\ call'[u].target = call[u].target
    BY <2>2, <2>3, <2>4, OvertakeType DEF TrackerInv
  <2> QED
    BY <2>4, <2>5 DEF TrackerInv, JudgedBeforeCas
<1>5. ASSUME NEW t \in Thread, FindUntracked(t) \/ FindMoot(t) \/ CasLoses(t) \/ GiveUp(t)
      PROVE  call'[u] = call[u]
  <2>1. CASE u # t
    BY <1>5, <2>1 DEF FindUntracked, FindMoot, CasLoses, GiveUp, TrackerInv, TrackerTypeOK
  <2>2. CASE u = t /\ CasLoses(t)
    <3>1. call[t] \in Call
      BY <2>2, BusyCall DEF TrackerInv, CasLoses, Busy
    <3> QED
      BY <2>2, <3>1 DEF CasLoses, TrackerInv, TrackerTypeOK, Call
  <2>3. CASE u = t /\ ~CasLoses(t)
    BY <1>5, <2>3 DEF FindUntracked, FindMoot, GiveUp, TrackerInv, TrackerTypeOK, NoCall
  <2> QED
    BY <2>1, <2>2, <2>3
<1>6. ASSUME NEW o \in Order, Register(o)
      PROVE  call'[u] = call[u]
  BY <1>6 DEF Register
<1>7. CASE UNCHANGED trackerVars
  BY <1>1, <1>7 DEF trackerVars
<1> QED
  BY <1>1, <1>2, <1>3, <1>4, <1>5, <1>6, <1>7 DEF TrackerNext, Work

-----------------------------------------------------------------------------
(* Lost attempts *)

\* What LostAttemptsAreOthersWins says of one thread.
Overtaken(t) ==
    Busy(t) =>
        /\ call[t].beaten >= call[t].attempt - 1
        /\ (call[t].pc = "cas" /\ statusOf[call[t].order] # call[t].seen)
              => call[t].beaten >= call[t].attempt

\* A row changes under a call's eyes only when another thread's compare-and-set
\* wins, which the call then counts.
LEMMA LostAttemptsStep == TrackerInv /\ [TrackerNext]_trackerVars => LostAttemptsAreOthersWins'
<1> SUFFICES ASSUME TrackerInv, [TrackerNext]_trackerVars, NEW u \in Thread
             PROVE  Overtaken(u)'
  BY DEF LostAttemptsAreOthersWins, Overtaken
<1>0. Overtaken(u)
  BY DEF TrackerInv, LostAttemptsAreOthersWins, Overtaken
<1>1. ASSUME NEW o \in Order, Register(o)
      PROVE  Overtaken(u)'
  <2>1. CASE call[u].pc = "cas" /\ call[u].order = o
    <3>1. call[u] \in Call
      BY <2>1, BusyCall DEF TrackerInv, Busy
    <3>2. call[u].seen # "absent"
      BY <2>1, NothingFromAbsent DEF TrackerInv, JudgedBeforeCas
    <3>3. call[u].beaten >= call[u].attempt
      BY <1>0, <1>1, <2>1, <3>2 DEF Overtaken, Busy, Register
    <3> QED
      BY <1>0, <1>1, <3>3 DEF Overtaken, Busy, Register
  <2>2. CASE call[u].pc # "cas" \/ call[u].order # o
    <3>1. Busy(u) => call[u] \in Call
      BY BusyCall DEF TrackerInv
    <3> QED
      BY <1>0, <1>1, <2>2, <3>1 DEF Overtaken, Busy, Register, TrackerInv, TrackerTypeOK, Call
  <2> QED
    BY <2>1, <2>2
<1>2. ASSUME NEW t \in Thread, NEW o \in Order, OnStatus(t, o)
      PROVE  Overtaken(u)'
  <2>0. PICK ib \in IbStatus :
          call' = [call EXCEPT ![t] =
               [pc |-> "find", order |-> o, target |-> MapStatus(ib, ""),
                seen |-> "absent", attempt |-> 1, beaten |-> 0]]
    BY <1>2 DEF OnStatus
  <2>1. CASE u = t
    <3>1. /\ call'[u].pc = "find"
          /\ call'[u].attempt = 1
          /\ call'[u].beaten = 0
      BY <2>0, <2>1 DEF TrackerInv, TrackerTypeOK
    <3> QED
      BY <3>1 DEF Overtaken
  <2>2. CASE u # t
    <3>1. call'[u] = call[u] /\ statusOf' = statusOf
      BY <1>2, <2>2 DEF OnStatus, TrackerInv, TrackerTypeOK
    <3> QED
      BY <1>0, <3>1 DEF Overtaken, Busy
  <2> QED
    BY <2>1, <2>2
<1>3. ASSUME NEW t \in Thread, FindAndJudge(t)
      PROVE  Overtaken(u)'
  <2>1. CASE u = t
    <3>1. call[t] \in Call
      BY <1>3, BusyCall DEF TrackerInv, FindAndJudge, Busy
    <3>2. /\ call'[u].seen = statusOf[call[t].order]
          /\ call'[u].order = call[t].order
          /\ call'[u].attempt = call[t].attempt
          /\ call'[u].beaten = call[t].beaten
          /\ statusOf' = statusOf
      BY <1>3, <2>1, <3>1 DEF FindAndJudge, TrackerInv, TrackerTypeOK, Call
    <3>3. call[t].beaten >= call[t].attempt - 1
      BY <1>0, <1>3, <2>1 DEF Overtaken, Busy, FindAndJudge
    <3> QED
      BY <3>2, <3>3 DEF Overtaken
  <2>2. CASE u # t
    <3>1. call'[u] = call[u] /\ statusOf' = statusOf
      BY <1>3, <2>2 DEF FindAndJudge, TrackerInv, TrackerTypeOK
    <3> QED
      BY <1>0, <3>1 DEF Overtaken, Busy
  <2> QED
    BY <2>1, <2>2
<1>4. ASSUME NEW t \in Thread, CasWins(t)
      PROVE  Overtaken(u)'
  <2>1. call[t] \in Call
    BY <1>4, BusyCall DEF TrackerInv, CasWins, Busy
  <2>2. CASE u = t
    <3>1. call'[u] = NoCall
      BY <1>4, <2>1, <2>2, OvertakeType DEF CasWins, TrackerInv, Call
    <3> QED
      BY <3>1 DEF Overtaken, Busy, NoCall
  <2>3. CASE u # t /\ ~Busy(u)
    <3>1. call'[u].pc = "idle"
      BY <1>4, <2>1, <2>3, OvertakeType DEF CasWins, TrackerInv, Call, Busy
    <3> QED
      BY <3>1 DEF Overtaken, Busy
  <2>4. CASE u # t /\ Busy(u)
    <3>1. call[u] \in Call
      BY <2>4, BusyCall DEF TrackerInv
    <3>2. /\ call'[u].pc = call[u].pc
          /\ call'[u].order = call[u].order
          /\ call'[u].seen = call[u].seen
          /\ call'[u].attempt = call[u].attempt
          /\ call'[u].beaten = IF call[u].order = call[t].order
                                  /\ call[u].beaten < MaxCasRetry
                               THEN call[u].beaten + 1 ELSE call[u].beaten
      BY <1>4, <2>1, <2>4, OvertakeType DEF CasWins, TrackerInv, Call
    <3>3. call[u].beaten >= call[u].attempt - 1
      BY <1>0, <2>4 DEF Overtaken
    <3>4. CASE call[u].order = call[t].order
      <4>1. call'[u].beaten >= call'[u].attempt
        BY <3>1, <3>2, <3>3, <3>4, TrackerAssumption DEF Call
      <4>2. call'[u].attempt \in Nat /\ call'[u].beaten \in Nat
        BY <3>1, <3>2, TrackerAssumption DEF Call
      <4> QED
        BY <4>1, <4>2 DEF Overtaken
    <3>5. CASE call[u].order # call[t].order
      <4>1. statusOf'[call[u].order] = statusOf[call[u].order]
        BY <1>4, <3>1, <3>5 DEF CasWins, TrackerInv, TrackerTypeOK, Call
      <4>2. call'[u].beaten = call[u].beaten
        BY <3>2, <3>5
      <4> QED
        BY <1>0, <2>4, <3>2, <4>1, <4>2 DEF Overtaken, Busy
    <3> QED
      BY <3>4, <3>5
  <2> QED
    BY <2>2, <2>3, <2>4
<1>5. ASSUME NEW t \in Thread, CasLoses(t)
      PROVE  Overtaken(u)'
  <2>1. CASE u = t
    <3>1. call[t] \in Call
      BY <1>5, BusyCall DEF TrackerInv, CasLoses, Busy
    <3>2. /\ call'[u].pc = "find"
          /\ call'[u].attempt = call[t].attempt + 1
          /\ call'[u].beaten = call[t].beaten
      BY <1>5, <2>1, <3>1 DEF CasLoses, TrackerInv, TrackerTypeOK, Call
    <3>3. call[t].beaten >= call[t].attempt
      BY <1>0, <1>5, <2>1 DEF Overtaken, Busy, CasLoses
    <3>4. call'[u].beaten >= call'[u].attempt - 1
      BY <3>1, <3>2, <3>3, TrackerAssumption DEF Call
    <3> QED
      BY <3>2, <3>4 DEF Overtaken
  <2>2. CASE u # t
    <3>1. call'[u] = call[u] /\ statusOf' = statusOf
      BY <1>5, <2>2 DEF CasLoses, TrackerInv, TrackerTypeOK
    <3> QED
      BY <1>0, <3>1 DEF Overtaken, Busy
  <2> QED
    BY <2>1, <2>2
<1>6. ASSUME NEW t \in Thread, FindUntracked(t) \/ FindMoot(t) \/ GiveUp(t)
      PROVE  Overtaken(u)'
  <2>1. statusOf' = statusOf /\ (u = t => call'[u].pc = "idle") /\ (u # t => call'[u] = call[u])
    BY <1>6 DEF FindUntracked, FindMoot, GiveUp, TrackerInv, TrackerTypeOK, NoCall
  <2> QED
    BY <1>0, <2>1 DEF Overtaken, Busy
<1>7. CASE UNCHANGED trackerVars
  BY <1>0, <1>7 DEF trackerVars, Overtaken, Busy
<1> QED
  BY <1>1, <1>2, <1>3, <1>4, <1>5, <1>6, <1>7 DEF TrackerNext, Work

-----------------------------------------------------------------------------
(* The theorems *)

\* The invariant is inductive.
THEOREM InductiveInvariant == TrackerSpec => []TrackerInv
<1>1. TrackerInit => TrackerInv
  BY DEF TrackerInit, TrackerInv, TrackerTypeOK, RowsReached, JudgedBeforeCas, FillsAreFolded, RejectedForAReason, NoCall,
         ClosingReportsStick, LostAttemptsAreOthersWins, Busy
<1>2. TrackerInv /\ [TrackerNext]_trackerVars => TrackerInv'
  BY TypeStep, RowsReachedStep, JudgedBeforeCasStep, FillsAreFoldedStep, RejectedForAReasonStep,
     ClosingReportsStickStep, LostAttemptsStep DEF TrackerInv
<1> QED
  BY <1>1, <1>2, PTL DEF TrackerSpec

\* A fill that was dealt with is never lost or overwritten, and where a REJECTED hides
\* it, the broker had refused the order or held it for a locate.
THEOREM FillsAreKept == TrackerSpec => []FillsStick
<1>1. TrackerInv => FillsStick
  BY DEF TrackerInv, FillsAreFolded, RejectedForAReason, Told, FillsStick
<1> QED
  BY <1>1, InductiveInvariant, PTL

\* An ending that was dealt with leaves the row terminal for good.
THEOREM ClosedStaysClosed == TrackerSpec => []ClosingReportsStick
  BY InductiveInvariant, PTL DEF TrackerInv

\* A report is given up only after MaxCasRetry changes by other threads.
THEOREM LosersWereOvertaken == TrackerSpec => []LostAttemptsAreOthersWins
  BY InductiveInvariant, PTL DEF TrackerInv

\* The rows implement OrderLedger: legal histories only.
THEOREM TrackerImplementsLedger == TrackerSpec => ImplementsLedger
<1>1. TrackerInit => Ledger!Init
  BY DEF TrackerInit, Ledger!Init
<1>2. TrackerInv /\ [TrackerNext]_trackerVars => [Ledger!Next]_statusOf
  <2> SUFFICES ASSUME TrackerInv, [TrackerNext]_trackerVars
               PROVE  [Ledger!Next]_statusOf
    OBVIOUS
  <2>1. ASSUME NEW o \in Order, Register(o)
        PROVE  [Ledger!Next]_statusOf
    BY <2>1 DEF Register, Ledger!Next, Ledger!Appear
  <2>2. ASSUME NEW t \in Thread, CasWins(t)
        PROVE  [Ledger!Next]_statusOf
    <3>1. call[t] \in Call
      BY <2>2, BusyCall DEF TrackerInv, CasWins, Busy
    <3>2. CanTransition(statusOf[call[t].order], call[t].target)
      BY <2>2 DEF TrackerInv, JudgedBeforeCas, CasWins
    <3>3. Ledger!Advance(call[t].order)
      BY <2>2, <3>1, <3>2 DEF Ledger!Advance, CasWins, Call, Ledger!CanTransition,
         CanTransition, Ledger!TABLE, TABLE, Ledger!Reportable, Reportable
    <3> QED
      BY <3>1, <3>3 DEF Ledger!Next, Call
  <2>3. ASSUME NEW t \in Thread, NEW o \in Order, OnStatus(t, o)
        PROVE  statusOf' = statusOf
    BY <2>3 DEF OnStatus
  <2>4. ASSUME NEW t \in Thread, FindAndJudge(t) \/ FindUntracked(t) \/ FindMoot(t)
                                 \/ CasLoses(t) \/ GiveUp(t)
        PROVE  statusOf' = statusOf
    BY <2>4 DEF FindAndJudge, FindUntracked, FindMoot, CasLoses, GiveUp
  <2>5. CASE UNCHANGED trackerVars
    BY <2>5 DEF trackerVars
  <2> QED
    BY <2>1, <2>2, <2>3, <2>4, <2>5 DEF TrackerNext, Work
<1> QED
  BY <1>1, <1>2, InductiveInvariant, PTL DEF TrackerSpec, ImplementsLedger, Ledger!Spec
================================================================================
