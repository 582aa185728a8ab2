----------------------------- MODULE MCTurnStream -----------------------------
(* Instances of the turn stream for TLC. *)
EXTENDS TurnStreamProperties

CONSTANT m1

\* An answer that overruns its bridge.
Long == [m \in Message |-> 5]
=============================================================================
