----------------------------- MODULE MCOrderDesk -----------------------------
(* Instances of the order desk for TLC. *)
EXTENDS OrderDeskProperties, TLC

CONSTANTS r1, r2, acme, bolt, nvda, gme

Order(symbol, side, quantity, limit, reference) ==
    [symbol |-> symbol, side |-> side, quantity |-> quantity,
     limit |-> limit, reference |-> reference]

\* Bodies that go through one by one, and one for each way of being turned down.
Trades == {Order(nvda, "BUY", 2, 1, -1), Order(nvda, "BUY", 1, -1, 2),
           Order(nvda, "SELL", 1, 2, -1)}
TurnedDown == {Order(gme, "BUY", 1, 1, -1), Order(nvda, "BUY", 2, 2, -1),
               Order(nvda, "BUY", 1, 1, 2), Order(nvda, "BUY", 1, -1, -1)}
EveryBody == Trades \cup TurnedDown

\* Equity 6: an order of at most 2, a position of at most 3.
SometimesBroke == {6, 0}

Alike == Permutations(Request) \cup Permutations(Client)
=============================================================================
