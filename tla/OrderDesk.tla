------------------------------ MODULE OrderDesk ------------------------------
(***************************************************************************)
(* api/http/trading.py over core/trading/risk.py, core/trading/orders.py   *)
(* and adapters/trading: the requests that propose and cancel orders, from *)
(* the body to the row of the outbox, measured against what the table of   *)
(* the execution worker says is filled.  Its statuses move as              *)
(* OrderStateMachine allows.  What the broker fills, and who writes that   *)
(* into the table's columns filled_qty and avg_px, is external, and so is  *)
(* the account service, which tells equity and the orders of the day.  A   *)
(* step runs from one await to the next; a transaction's rows are visible  *)
(* when it commits.                                                        *)
(***************************************************************************)
EXTENDS OrderStateMachine, Integers, FiniteSets, Sequences, FiniteSums

CONSTANTS
    Request,              \* POST /orders, each with a proposal id of its own
    Client,               \* tenants
    Symbol, Price, Quantity,
    Bodies,               \* bodies they send
    Equity,               \* what the account service may answer
    Universe,             \* RiskLimits.universe; empty for no restriction
    MaxOrderFraction,     \* RiskLimits, in percent of equity
    MaxPositionFraction,
    MaxOrdersPerDay       \* what a deployment may set; 0 for no limit

\* RiskLimits: what its validation accepts, in percent.
IsEnvelope(order, position) ==
    order \in 1..100 /\ position \in 1..100 /\ order <= position

ASSUME LimitsAssumption ==
    /\ Price \subseteq Nat /\ Quantity \subseteq Nat \ {0} /\ Equity \subseteq Int
    /\ Universe \subseteq Symbol
    /\ IsEnvelope(MaxOrderFraction, MaxPositionFraction)
    /\ MaxOrdersPerDay \subseteq Nat
    /\ IsFiniteSet(Request)

VARIABLES
    request,    \* each POST: its scope, its body, what it has read, its answer
    queued,     \* proposals whose outbox row is committed
    row,        \* execution.orders: status of the order of each proposal
    book,       \* its rows in the order of created_at
    asked,      \* DELETEs that have found an order which is not over
    cancels,    \* cancellations whose outbox row is committed
    conflicts,  \* history: orders a DELETE was refused for, and their status then
    perDay,     \* RiskLimits.max_orders_per_day of this deployment
    fill,       \* what the broker has filled of each order, and at what average price
    recorded,   \* columns filled_qty and avg_px
    knew        \* history: what each request's reading of positions counted of each order

vars == <<request, queued, row, book, asked, cancels, conflicts, perDay, fill, recorded, knew>>

-----------------------------------------------------------------------------
(* The vocabulary of orders *)

\* OrderStatus.terminal and .working
StatusTerminal == {"FILLED", "CANCELED", "EXPIRED", "REJECTED", "DENIED"}
StatusWorking == {"SUBMITTED", "ACCEPTED", "TRIGGERED", "PARTIALLY_FILLED",
                  "PENDING_UPDATE", "PENDING_CANCEL"}

\* OrderRequest, with -1 for a price that is not given.
Body == [symbol : Symbol, side : {"BUY", "SELL"}, quantity : Quantity,
         limit : Price \cup {-1}, reference : Price \cup {-1}]

ASSUME BodiesAssumption == Bodies \subseteq Body

\* A limit order brings its price along; a market order is given one.
WellPriced(b) == (b.limit = -1) # (b.reference = -1)

\* TradeProposal, and the price assess values it at: the limit, or the reference price
\* of the caller, which nothing compares with a market's.
Proposal(b) == [symbol |-> b.symbol, side |-> b.side, quantity |-> b.quantity,
                price |-> IF b.reference # -1 THEN b.reference ELSE b.limit]

-----------------------------------------------------------------------------
(* What is held: ExecutionOrders *)

TenantOf(o) == request[o].tenant
Asks(o) == Proposal(request[o].body)

\* _scoped: rows of the tenant of the ambient scope.
Scoped(t) == {o \in Request : row[o] # "absent" /\ TenantOf(o) = t}

\* (mutant) any row with that id.
ByBrokerIdAnyone(t, o) == row[o] # "absent"
ByBrokerId(t, o) == o \in Scoped(t)

\* working(): what a client is shown as able to fill.
Working(t) == {o \in Scoped(t) : row[o] \in StatusWorking}

\* _filled: rows of the tenant with something filled.
FilledQuantity(o) == recorded[o].quantity
FilledOf(t, s) == {o \in Scoped(t) : Asks(o).symbol = s /\ FilledQuantity(o) > 0}

\* positions(): the quantity held, what was bought less what was sold.
FilledQuantities == [o \in Request |-> FilledQuantity(o)]
Sided(orders, side) == {o \in orders : Asks(o).side = side}
Shares(t, s) == SumOver(FilledQuantities, Sided(FilledOf(t, s), "BUY"))
                - SumOver(FilledQuantities, Sided(FilledOf(t, s), "SELL"))

\* (mutant) a sale averages, too.
TradedAveraging(held, side, filled, price) ==
    LET signed == IF side = "BUY" THEN filled ELSE -filled
        quantity == held.quantity + signed
    IN  [quantity |-> quantity,
         spent |-> IF quantity = 0 THEN held.spent
                   ELSE held.spent * held.quantity + price * signed * held.units,
         units |-> IF quantity = 0 THEN held.units ELSE held.units * quantity]

\* positions(): one more row.  The quantity runs along; the average cost is the fraction
\* spent / units: a purchase averages, a sale leaves the cost of what remains.
Traded(held, side, filled, price) ==
    LET quantity == held.quantity + IF side = "BUY" THEN filled ELSE -filled
    IN  IF side = "BUY" /\ quantity # 0
        THEN [quantity |-> quantity,
              spent |-> held.spent * held.quantity + price * filled * held.units,
              units |-> held.units * quantity]
        ELSE [held EXCEPT !.quantity = quantity]

Nothing == [quantity |-> 0, spent |-> 0, units |-> 1]

\* The holding after each row of the book, of which the tenant's filled ones count.
Running(t, s) ==
    LET after[n \in 0..Len(book)] ==
            IF n = 0 THEN Nothing
            ELSE IF book[n] \in FilledOf(t, s)
                 THEN Traded(after[n - 1], Asks(book[n]).side,
                             recorded[book[n]].quantity, recorded[book[n]].price)
                 ELSE after[n - 1]
    IN  after

Position(t, s) == Running(t, s)[Len(book)]

-----------------------------------------------------------------------------
(* The envelope *)

RiskRefusal == {"not_in_universe", "daily_limit_reached", "selling_what_is_not_held",
                "no_equity", "order_too_large", "position_too_large"}

Exceeds(value, fraction, equity) == value * 100 > fraction * equity

\* (mutant) what is held is measured without what is proposed.
BreachedBeforeFill(p, held, today, equity) ==
    [not_in_universe |-> Universe # {} /\ p.symbol \notin Universe,
     daily_limit_reached |-> perDay # 0 /\ today >= perDay,
     selling_what_is_not_held |-> p.side = "SELL" /\ held < p.quantity,
     no_equity |-> equity <= 0,
     order_too_large |->
         equity > 0 /\ Exceeds(p.price * p.quantity, MaxOrderFraction, equity),
     position_too_large |->
         /\ equity > 0 /\ p.side = "BUY"
         /\ Exceeds(p.price * held, MaxPositionFraction, equity)]

\* assess: which limits a proposal breaches.  Without equity nothing is sized.
Breached(p, held, today, equity) ==
    [not_in_universe |-> Universe # {} /\ p.symbol \notin Universe,
     daily_limit_reached |-> perDay # 0 /\ today >= perDay,
     selling_what_is_not_held |-> p.side = "SELL" /\ held < p.quantity,
     no_equity |-> equity <= 0,
     order_too_large |->
         equity > 0 /\ Exceeds(p.price * p.quantity, MaxOrderFraction, equity),
     position_too_large |->
         /\ equity > 0 /\ p.side = "BUY"
         /\ Exceeds(p.price * (held + p.quantity), MaxPositionFraction, equity)]

Refusals(p, held, today, equity) ==
    LET breached == Breached(p, held, today, equity)
    IN  {why \in RiskRefusal : breached[why]}

-----------------------------------------------------------------------------
Ended(answer) == [at |-> answer]

Unfilled == [quantity |-> 0, price |-> 0]

Init ==
    /\ request = [r \in Request |-> Ended("nowhere")]
    /\ queued = {} /\ asked = {} /\ cancels = {} /\ conflicts = {}
    /\ row = [r \in Request |-> "absent"]
    /\ book = <<>>
    /\ perDay \in MaxOrdersPerDay
    /\ fill = [r \in Request |-> Unfilled] /\ recorded = fill
    /\ knew = [r \in Request |-> [o \in Request |-> 0]]

At(r, place) == request[r].at = place
Measuring == {"positions", "today", "committing"}
Live(r) == request[r].at \in Measuring \cup {"accepted"}

\* The orders a tenant has proposed, and has placed today (the account service).
QueuedBy(t) == {r \in queued : TenantOf(r) = t}
OrdersToday(t) == Cardinality(QueuedBy(t))

\* place_order: the body is turned down, or the account's equity is asked for.
Post(r, t, b) ==
    /\ At(r, "nowhere")
    /\ request' = [request EXCEPT ![r] =
           IF WellPriced(b)
           THEN [at |-> "positions", tenant |-> t, body |-> b,
                 equity |-> 0, held |-> 0, before |-> OrdersToday(t)]
           ELSE Ended("unprocessable")]
    /\ UNCHANGED <<queued, row, book, asked, cancels, conflicts, perDay, fill, recorded, knew>>

\* _account_state: equity, then positions.
ReadPositions(r) ==
    /\ At(r, "positions")
    /\ \E equity \in Equity :
           request' = [request EXCEPT ![r] =
               [@ EXCEPT !.at = "today",
                         !.equity = equity,
                         !.held = Shares(TenantOf(r), Asks(r).symbol)]]
    /\ knew' = [knew EXCEPT ![r] = [o \in Request |->
                   IF o \in FilledOf(TenantOf(r), Asks(r).symbol) THEN FilledQuantity(o) ELSE 0]]
    /\ UNCHANGED <<queued, row, book, asked, cancels, conflicts, perDay, fill, recorded>>

\* The orders of the day are the last thing awaited: the proposal is measured
\* and, if nothing stands against it, added to the transaction.
Assess(r) ==
    /\ At(r, "today")
    /\ request' = [request EXCEPT ![r] =
           IF Refusals(Asks(r), @.held, OrdersToday(TenantOf(r)), @.equity) = {}
           THEN [@ EXCEPT !.at = "committing"] ELSE Ended("refused")]
    /\ UNCHANGED <<queued, row, book, asked, cancels, conflicts, perDay, fill, recorded, knew>>

\* The request's transaction is committed, or lost.
Commit(r) ==
    /\ At(r, "committing")
    /\ queued' = queued \cup {r}
    /\ request' = [request EXCEPT ![r] = [@ EXCEPT !.at = "accepted", !.held = 0]]
    /\ UNCHANGED <<row, book, asked, cancels, conflicts, perDay, fill, recorded, knew>>

Fail(r) ==
    /\ request[r].at \in Measuring
    /\ request' = [request EXCEPT ![r] = Ended("failed")]
    /\ UNCHANGED <<queued, row, book, asked, cancels, conflicts, perDay, fill, recorded, knew>>

-----------------------------------------------------------------------------
\* cancel_order of an order that is the tenant's and is not over; otherwise 404,
\* which changes nothing, or 409.  The key is derived from the order's: once there is
\* such a row, asking again changes nothing either.
AskCancel(t, o) ==
    /\ ByBrokerId(t, o) /\ row[o] \notin StatusTerminal
    /\ <<t, o>> \notin cancels
    /\ asked' = asked \cup {<<t, o>>}
    /\ UNCHANGED <<request, queued, row, book, cancels, conflicts, perDay, fill, recorded, knew>>

RefuseCancel(t, o) ==
    /\ ByBrokerId(t, o) /\ row[o] \in StatusTerminal
    /\ conflicts' = conflicts \cup {<<o, row[o]>>}
    /\ UNCHANGED <<request, queued, row, book, asked, cancels, perDay, fill, recorded, knew>>

CommitCancel(t, o) ==
    /\ <<t, o>> \in asked
    /\ asked' = asked \ {<<t, o>>}
    /\ cancels' = cancels \cup {<<t, o>>}
    /\ UNCHANGED <<request, queued, row, book, conflicts, perDay, fill, recorded, knew>>

-----------------------------------------------------------------------------
\* The worker registers an order it has placed, and folds in what the broker says.
Placed(o) ==
    /\ o \in queued /\ row[o] = "absent"
    /\ row' = [row EXCEPT ![o] = "SUBMITTED"]
    /\ book' = Append(book, o)
    /\ UNCHANGED <<request, queued, asked, cancels, conflicts, perDay, fill, recorded, knew>>

Reported(o) ==
    /\ \E status \in Reportable :
           /\ CanTransition(row[o], status)
           /\ row' = [row EXCEPT ![o] = status]
    /\ UNCHANGED <<request, queued, book, asked, cancels, conflicts, perDay, fill, recorded, knew>>

-----------------------------------------------------------------------------
(* External: the broker, and whoever writes the columns, which no code here does *)

\* A market order fills at any price, a limit order at its limit or better.
FillPrices(b) ==
    {price \in Price : \/ b.limit = -1
                       \/ b.side = "BUY" /\ price <= b.limit
                       \/ b.side = "SELL" /\ price >= b.limit}

\* The broker fills more of an order, whatever its row says by then.
Filled(o) ==
    /\ o \in queued
    /\ \E quantity \in fill[o].quantity + 1 .. Asks(o).quantity,
          price \in FillPrices(request[o].body) :
            fill' = [fill EXCEPT ![o] = [quantity |-> quantity, price |-> price]]
    /\ UNCHANGED <<request, queued, row, book, asked, cancels, conflicts, perDay, recorded, knew>>

Recorded(o) ==
    /\ row[o] # "absent"
    /\ recorded' = [recorded EXCEPT ![o] = fill[o]]
    /\ UNCHANGED <<request, queued, row, book, asked, cancels, conflicts, perDay, fill, knew>>

Next ==
    \/ \E r \in Request :
        \/ \E t \in Client, b \in Bodies : Post(r, t, b)
        \/ ReadPositions(r) \/ Assess(r) \/ Commit(r) \/ Fail(r)
        \/ Placed(r) \/ Reported(r) \/ Filled(r) \/ Recorded(r)
    \/ \E t \in Client, o \in Request : AskCancel(t, o) \/ RefuseCancel(t, o) \/ CommitCancel(t, o)

Spec == Init /\ [][Next]_vars
=============================================================================
