--------------------------- MODULE MCAnalystCache ---------------------------
(* Instances of the analyst cache for TLC. *)
EXTENDS AnalystCacheProperties

CONSTANTS n1, n2, r1, r2, w1

\* A reader on the node that updates, one on the other.
Placed == [t \in Reader \cup Writer |-> IF t = r2 THEN n2 ELSE n1]
=============================================================================
