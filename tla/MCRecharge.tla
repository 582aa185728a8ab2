-------------------------------- MODULE MCRecharge --------------------------------
(* Two orders of one user, of two requests or of one that was clicked twice. *)
EXTENDS RechargeProperties

CONSTANTS a, b, ann, r1, r2

OneUser == [o \in Order |-> ann]
Plans == [o \in Order |-> IF o = b THEN 2 ELSE 1]
TwoRequestsOrOne == {[o \in Order |-> r1], [o \in Order |-> IF o = b THEN r2 ELSE r1]}
================================================================================
