--------------------------- MODULE MCModelInvoker ----------------------------
(* Instances of the model invoker for TLC. *)
EXTENDS ModelInvokerProperties

CONSTANTS i1, i2, acme, first, second

\* Two turns of one tenant, one of them with a fallback.
Keys == {acme} \X {first, second}
OneTenant == [c \in Invocation |-> acme]
Chains == [c \in Invocation |-> IF c = i1 THEN <<first, second>> ELSE <<first>>]
=============================================================================
