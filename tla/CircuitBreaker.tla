--------------------------- MODULE CircuitBreaker ---------------------------
(***************************************************************************)
(* core/resilience/breaker.py: what is remembered of each (tenant,         *)
(* provider).  A circuit that is not in the registry is a closed one       *)
(* without failures.  The clock is abstracted to due: whether              *)
(* recovery_after_seconds have passed since opened_at.                     *)
(***************************************************************************)
EXTENDS Integers

CONSTANTS Key, FailureThreshold, SuccessThreshold, HalfOpenMaxCalls

ASSUME PolicyAssumption ==
    /\ FailureThreshold \in Nat \ {0}
    /\ SuccessThreshold \in Nat \ {0}
    /\ HalfOpenMaxCalls \in Nat \ {0}

VARIABLES circuit, due

breakerVars == <<circuit, due>>

Circuit == [state : {"closed", "open", "half_open"}, failures : 0..FailureThreshold,
            successes : 0..SuccessThreshold, probes : 0..HalfOpenMaxCalls]

Closed == [state |-> "closed", failures |-> 0, successes |-> 0, probes |-> 0]

BreakerInit ==
    /\ circuit = [k \in Key |-> Closed]
    /\ due = [k \in Key |-> FALSE]

State(k) == circuit[k].state

-----------------------------------------------------------------------------
\* allows() is true.
Allows(k) ==
    \/ State(k) = "closed"
    \/ State(k) = "open" /\ due[k]
    \/ State(k) = "half_open" /\ circuit[k].probes < HalfOpenMaxCalls

Record(state, failures, successes, probes) ==
    [state |-> state, failures |-> failures, successes |-> successes, probes |-> probes]

\* (mutant) a probe that is let through is not counted.
AdmittedUncounted(c) ==
    IF c.state = "open" THEN Record("half_open", c.failures, 0, 1) ELSE c

\* The circuit of a call that is let through: an open one turns half-open, a
\* half-open one has one more probe in flight.
Admitted(c) ==
    IF c.state = "open" THEN Record("half_open", c.failures, 0, 1)
    ELSE IF c.state = "half_open"
         THEN Record("half_open", c.failures, c.successes, c.probes + 1)
         ELSE c

Admit(k) ==
    /\ Allows(k)
    /\ circuit' = [circuit EXCEPT ![k] = Admitted(@)]
    /\ UNCHANGED due

\* (mutants) failures are counted over a lifetime; a probe's slot is not returned.
AfterSuccessNoReset(c) ==
    IF c.state # "half_open" THEN c
    ELSE IF c.successes + 1 >= SuccessThreshold THEN Closed
    ELSE Record("half_open", c.failures, c.successes + 1, IF c.probes > 0 THEN c.probes - 1 ELSE 0)
AfterSuccessKeepsSlot(c) ==
    IF c.state # "half_open" THEN Record(c.state, 0, c.successes, c.probes)
    ELSE IF c.successes + 1 >= SuccessThreshold THEN Closed
    ELSE Record("half_open", c.failures, c.successes + 1, c.probes)

\* record_success: in the half-open state it returns a probe's slot, whoever
\* reports it, and enough of them forget the circuit.
AfterSuccess(c) ==
    IF c.state # "half_open" THEN Record(c.state, 0, c.successes, c.probes)
    ELSE IF c.successes + 1 >= SuccessThreshold THEN Closed
    ELSE Record("half_open", c.failures, c.successes + 1, IF c.probes > 0 THEN c.probes - 1 ELSE 0)

RecordSuccess(k) ==
    /\ circuit' = [circuit EXCEPT ![k] = AfterSuccess(@)]
    /\ UNCHANGED due

\* One failure more, up to the threshold, beyond which nothing tells counts apart.
OneMore(failures) == IF failures < FailureThreshold THEN failures + 1 ELSE failures

\* record_failure: a half-open circuit opens at once, any other when enough
\* failures came in a row.
AfterFailure(c) ==
    IF c.state = "half_open" THEN Record("open", c.failures, 0, 0)
    ELSE IF OneMore(c.failures) >= FailureThreshold
    THEN Record("open", OneMore(c.failures), 0, c.probes)
    ELSE Record(c.state, OneMore(c.failures), 0, c.probes)

\* A circuit that opens, or is open and reaches the threshold again, starts a
\* fresh timer.
RecordFailure(k) ==
    /\ circuit' = [circuit EXCEPT ![k] = AfterFailure(@)]
    /\ due' = [due EXCEPT ![k] =
                 IF State(k) = "half_open" \/ OneMore(circuit[k].failures) >= FailureThreshold
                 THEN FALSE ELSE @]

\* recovery_after_seconds have passed.
RecoveryElapses(k) ==
    /\ State(k) = "open"
    /\ ~due[k]
    /\ due' = [due EXCEPT ![k] = TRUE]
    /\ UNCHANGED circuit

\* reset(): an operator forgets the circuit.
Reset(k) ==
    /\ circuit[k] # Closed
    /\ circuit' = [circuit EXCEPT ![k] = Closed]
    /\ due' = [due EXCEPT ![k] = FALSE]
=============================================================================
