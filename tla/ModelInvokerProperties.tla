----------------------- MODULE ModelInvokerProperties ------------------------
(* What the breaker guarantees its callers, whatever they do to one another. *)
EXTENDS ModelInvoker

\* Every variable holds a value of its kind.
TypeOK ==
    /\ circuit \in [Key -> Circuit]
    /\ due \in [Key -> BOOLEAN]
    /\ call \in [Invocation -> Call]
    /\ \A c \in Invocation :
         /\ call[c].at \in 1..(Len(Chain[c]) + 1)
         /\ call[c].attempt \in 1..MaxAttempts
         /\ call[c].served \in 0..Len(Chain[c])
    /\ failed \in [Key -> 0..FailureThreshold]
    /\ worked \in [Key -> 0..SuccessThreshold]
    /\ probing \in [Key -> SUBSET Invocation]
    /\ leaked \in [Key -> Nat]

\* A closed circuit opens only when its own tenant's last calls to that provider,
\* failure_threshold of them, all failed, however they were interleaved with
\* other calls; a half-open one closes only after success_threshold successes
\* without a failure in between, or by reset(), a step of no invocation.
OpensForCause(k) ==
    State(k) = "closed" /\ circuit'[k].state = "open" => failed'[k] >= FailureThreshold
ClosesForCause(k) ==
    State(k) = "half_open" /\ circuit'[k].state = "closed" =>
        worked'[k] >= SuccessThreshold \/ call' = call
ChangesForCause == [][\A k \in Key : OpensForCause(k) /\ ClosesForCause(k)]_vars

\* A slot that is taken in a half-open circuit belongs to a call under way or to
\* one that ended unreported: retries, late answers and overlapping eras of the
\* circuit never take one twice or return one that is not there.
SlotsAreHeldOrLeaked ==
    \A k \in Key : State(k) = "half_open" =>
        circuit[k].probes <= Cardinality(probing[k]) + leaked[k]

\* "recovery costs one request rather than a surge" (breaker.py:106): calls let
\* through since a circuit became half-open, and still under way, exceed the
\* probe limit only by as many as calls of an earlier era have answered.
NoSurge ==
    \A k \in Key : State(k) = "half_open" =>
        Cardinality(probing[k]) <= circuit[k].probes + circuit[k].successes

\* A fallback answer is never silent: what another than the first choice
\* answered is reported as degraded (Outcome.degraded).
Degraded(c) == call[c].served > 0 /\ call[c].tries > 1
FallbacksAreReported == \A c \in Invocation : call[c].served > 1 => Degraded(c)
=============================================================================
