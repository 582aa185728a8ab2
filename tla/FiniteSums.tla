------------------------------ MODULE FiniteSums ------------------------------
(***************************************************************************)
(* The sum of a function of natural numbers over a finite set, as the      *)
(* number of its units: for each element as many pairs as the function     *)
(* gives it.  No fold, so that it can be reasoned about.                   *)
(***************************************************************************)
EXTENDS Naturals, FiniteSets

Units(of, S) == UNION {{s} \X (1..of[s]) : s \in S}
SumOver(of, S) == Cardinality(Units(of, S))
=============================================================================
