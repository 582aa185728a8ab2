-------------------------------- MODULE Quota --------------------------------
(***************************************************************************)
(* core/quota/reservation.py: a tenant's allowance for a period, and what  *)
(* reserving and settling make of it.  Tokens are the unit.                *)
(***************************************************************************)
EXTENDS Integers

CONSTANT Limit      \* Allowance.limit

ASSUME QuotaAssumption == Limit \in Nat \ {0}

Exhaustion == {"reject", "degrade", "allow"}
Allowance == [consumed : Nat, reserved : Nat, on_exhaustion : Exhaustion]
Untouched(policy) == [consumed |-> 0, reserved |-> 0, on_exhaustion |-> policy]

AtLeastZero(n) == IF n > 0 THEN n ELSE 0

\* (mutant) tokens in flight do not count.
AvailableUnreserved(a) == AtLeastZero(Limit - a.consumed)

Available(a) == AtLeastZero(Limit - a.consumed - a.reserved)

CanAfford(a, needed) == needed <= Available(a)

\* QuotaPolicy.evaluate: whether work that may need so many tokens is granted.
Granted(a, needed) == CanAfford(a, needed) \/ a.on_exhaustion # "reject"

\* The tokens a granted reservation is for.
Claim(a, needed) ==
    IF ~CanAfford(a, needed) /\ a.on_exhaustion = "degrade" THEN Available(a) ELSE needed

Reserve(a, claim) == [a EXCEPT !.reserved = @ + claim]

\* (mutant) what was spent is released, not what was reserved.
SettleActual(a, claim, actual) ==
    [a EXCEPT !.consumed = @ + actual, !.reserved = AtLeastZero(@ - actual)]

\* What was spent is charged, overrun included, and the whole claim released.
Settle(a, claim, actual) ==
    [a EXCEPT !.consumed = @ + actual, !.reserved = AtLeastZero(@ - claim)]
=============================================================================
