-------------------------- MODULE OrderDeskProperties --------------------------
(* What the envelope and the order routes do for a tenant. *)
EXTENDS OrderDesk

Accepted(r) == At(r, "accepted")

LiveRequest(held) ==
    [at : Measuring \cup {"accepted"}, tenant : Client, body : Bodies,
     equity : Equity \cup {0}, held : {held}, before : Nat]

TypeOK ==
    /\ DOMAIN request = Request
    /\ \A r \in Request :
           \/ request[r] \in [at : {"nowhere", "unprocessable", "refused", "failed"}]
           \/ Live(r) /\ request[r] \in LiveRequest(request[r].held)
    /\ queued \subseteq Request
    /\ row \in [Request -> Reportable \cup {"SUBMITTED", "absent"}]
    /\ book \in Seq(Request)
    /\ asked \subseteq Client \X Request /\ cancels \subseteq Client \X Request
    /\ conflicts \subseteq Request \X StatusTerminal
    /\ perDay \in MaxOrdersPerDay
    /\ fill \in [Request -> [quantity : Nat, price : Price \cup {0}]]
    /\ recorded \in [Request -> [quantity : Nat, price : Price \cup {0}]]
    /\ knew \in [Request -> [Request -> Nat]]

\* A proposal that arrives when the tenant's orders of the day are used up is
\* refused, however many requests are under way: only requests that were there
\* before can go past the limit together.
LateRequestsAreRefused ==
    \A r \in Request :
        At(r, "committing") \/ Accepted(r)
            => perDay = 0 \/ request[r].before < perDay

\* What the tenant holds of a symbol, as the broker would say.
OrdersOf(t, s) == {o \in queued : TenantOf(o) = t /\ Asks(o).symbol = s}
Fills == [o \in Request |-> fill[o].quantity]
Held(t, s) == SumOver(Fills, Sided(OrdersOf(t, s), "BUY"))
              - SumOver(Fills, Sided(OrdersOf(t, s), "SELL"))

\* What other orders have filled on one side of r's symbol that r was not measured
\* with: columns not written yet, orders not filled yet, orders that came later.
Unseen(r) == [o \in Request |-> fill[o].quantity - knew[r][o]]
UnseenBy(r, side) ==
    SumOver(Unseen(r), Sided(OrdersOf(TenantOf(r), Asks(r).symbol), side) \ {r})

\* However requests, fills and what is told of them overlap: a holding passes the limit on
\* positions, or falls below zero ("short selling is not modelled", risk.py:140), only by
\* what filled that an accepted request was not measured with.  The limit is that of the
\* equity the request was measured with, at the price it was valued at, which for a market
\* order is the caller's word.
NoneAloneExceeds ==
    \A r \in Request : Accepted(r) =>
        LET p == Asks(r)
            held == Held(TenantOf(r), p.symbol)
        IN  /\ p.side = "BUY" =>
                ~Exceeds(p.price * (held - UnseenBy(r, "BUY")), MaxPositionFraction,
                         request[r].equity)
            /\ p.side = "SELL" => held + UnseenBy(r, "SELL") >= 0

PricesPaid(t, s) == {recorded[o].price : o \in Sided(FilledOf(t, s), "BUY")}

\* The average cost of a holding lies between the lowest and the highest price paid for
\* it, sales notwithstanding, and the running quantity is the sum, in whatever order rows
\* are created, filled and told of: unless more was sold than bought at a point of the
\* book, which is in the order of creation and may show that where the fills never did.
NeverShort(t, s) == \A n \in 0..Len(book) : Running(t, s)[n].quantity >= 0
AverageIsOfPricesPaid ==
    \A t \in Client, s \in Symbol :
        LET held == Position(t, s)
        IN  /\ held.quantity = Shares(t, s)
            /\ NeverShort(t, s) /\ held.quantity > 0 =>
                /\ \E p \in PricesPaid(t, s) : p * held.units <= held.spent
                /\ \E p \in PricesPaid(t, s) : p * held.units >= held.spent

\* An order whose cancellation was refused because it is over stays as it was told
\* to be, except that a cancelled one may turn out to be filled; one that can be
\* cancelled is one that is shown as able to fill; and the cancellations that
\* reach the outbox are of orders of who asked.
CancelsAreAnswered ==
    /\ \A told \in conflicts :
           row[told[1]] = told[2] \/ (told[2] = "CANCELED" /\ row[told[1]] = "FILLED")
    /\ \A t \in Client : {o \in Scoped(t) : row[o] \notin StatusTerminal} = Working(t)
    /\ \A c \in cancels \cup asked : c[2] \in queued /\ TenantOf(c[2]) = c[1]
=============================================================================
