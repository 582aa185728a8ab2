------------------------------ MODULE MCOutbox ------------------------------
(* Instances of the outbox for TLC. *)
EXTENDS OutboxProperties

CONSTANTS first, second, other, paper, live

\* Two proposals for one account, one for another.
AccountOf == [k \in Key |-> IF k = other THEN live ELSE paper]
=============================================================================
