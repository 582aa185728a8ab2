---------------------------- MODULE ModelInvoker ----------------------------
(***************************************************************************)
(* adapters/llm/invoker.py: turns of several tenants run against chains of *)
(* models, retried, skipped where the breaker refuses them, and possibly   *)
(* cancelled at any await.  A step runs from one await, or one locked call *)
(* of the breaker, to the next.                                            *)
(***************************************************************************)
EXTENDS CircuitBreaker, Sequences, FiniteSets

CONSTANTS
    Invocation,     \* tasks that call invoke()
    TenantOf,       \* the tenant of each
    Chain,          \* the providers of each one's candidates, most preferred first
    MaxAttempts     \* RetryPolicy.max_attempts

ASSUME InvokerAssumption ==
    /\ MaxAttempts \in Nat \ {0}
    /\ \A c \in Invocation :
         /\ Len(Chain[c]) \in Nat \ {0}
         /\ \A i \in 1..Len(Chain[c]) : <<TenantOf[c], Chain[c][i]>> \in Key

VARIABLES
    call,       \* what each invocation is doing
    failed,     \* history: failures reported in a row, up to the threshold
    worked,     \* history: successes reported in a row, up to the threshold
    probing,    \* history: invocations let through since the circuit became half-open
    leaked      \* history: those of them that ended without a report

historyVars == <<failed, worked, probing, leaked>>
vars == <<breakerVars, call, historyVars>>

\* at: position in the chain; attempt: number of the current try there; tries:
\* entries of Outcome.attempts; served: the position that answered, or 0.
Call == [pc : {"none", "choose", "resolving", "sent", "over"},
         at : Nat, attempt : Nat, tries : Nat, served : Nat]

Place(pc, at, attempt, tries, served) ==
    [pc |-> pc, at |-> at, attempt |-> attempt, tries |-> tries, served |-> served]
NoCall == Place("none", 1, 1, 0, 0)

\* BreakerKey(tenant, model.provider).
KeyOf(c) == <<TenantOf[c], Chain[c][call[c].at]>>

Init ==
    /\ BreakerInit
    /\ call = [c \in Invocation |-> NoCall]
    /\ failed = [k \in Key |-> 0]
    /\ worked = [k \in Key |-> 0]
    /\ probing = [k \in Key |-> {}]
    /\ leaked = [k \in Key |-> 0]

-----------------------------------------------------------------------------
(* History *)

CountUp(f, k, limit) == [f EXCEPT ![k] = IF @ < limit THEN @ + 1 ELSE @]

\* c was let through: it holds a slot unless the circuit is closed.
NoteAdmission(c, k) ==
    /\ probing' = [probing EXCEPT ![k] =
                     IF State(k) = "closed" THEN @
                     ELSE IF State(k) = "open" THEN {c}
                     ELSE @ \cup {c}]
    /\ leaked' = [leaked EXCEPT ![k] = IF State(k) = "open" THEN 0 ELSE @]
    /\ UNCHANGED <<failed, worked>>

NoteSuccess(c, k) ==
    /\ worked' = CountUp(worked, k, SuccessThreshold)
    /\ failed' = [failed EXCEPT ![k] = 0]
    /\ probing' = [probing EXCEPT ![k] = IF circuit'[k].state = "half_open" THEN @ \ {c} ELSE {}]
    /\ leaked' = [leaked EXCEPT ![k] = IF circuit'[k].state = "half_open" THEN @ ELSE 0]

NoteFailure(c, k) ==
    /\ failed' = CountUp(failed, k, FailureThreshold)
    /\ worked' = [worked EXCEPT ![k] = 0]
    /\ probing' = [probing EXCEPT ![k] = {}]
    /\ leaked' = [leaked EXCEPT ![k] = 0]

\* c ends without having reported anything.
NoteSilence(c, k) ==
    /\ probing' = [probing EXCEPT ![k] = @ \ {c}]
    /\ leaked' = [leaked EXCEPT ![k] = IF c \in probing[k] THEN @ + 1 ELSE @]
    /\ UNCHANGED <<failed, worked>>

-----------------------------------------------------------------------------
Begin(c) ==
    /\ call[c].pc \in {"none", "over"}
    /\ call' = [call EXCEPT ![c] = Place("choose", 1, 1, 0, 0)]
    /\ UNCHANGED <<breakerVars, historyVars>>

\* allows() is true: the candidate's credential is resolved next.
LetThrough(c) ==
    /\ call[c].pc = "choose"
    /\ call[c].at <= Len(Chain[c])
    /\ Admit(KeyOf(c))
    /\ call' = [call EXCEPT ![c].pc = "resolving"]
    /\ NoteAdmission(c, KeyOf(c))

\* The task is cancelled at an await: CancelledError is no Exception, and neither
\* outcome is recorded.
Cancel(c) ==
    /\ call[c].pc \in {"resolving", "sent"}
    /\ call' = [call EXCEPT ![c] = NoCall]
    /\ NoteSilence(c, KeyOf(c))
    /\ UNCHANGED breakerVars

\* The next candidate is taken up with n more entries in Outcome.attempts.
NextCandidate(c, n) ==
    call' = [call EXCEPT ![c] = Place("choose", @.at + 1, 1, @.tries + n, 0)]

\* allows() is false: the candidate is skipped.
Skip(c) ==
    /\ call[c].pc = "choose"
    /\ call[c].at <= Len(Chain[c])
    /\ ~Allows(KeyOf(c))
    /\ NextCandidate(c, 1)
    /\ UNCHANGED <<breakerVars, historyVars>>

\* The chain is at its end.
Exhaust(c) ==
    /\ call[c].pc = "choose"
    /\ call[c].at > Len(Chain[c])
    /\ call' = [call EXCEPT ![c].pc = "over"]
    /\ UNCHANGED <<breakerVars, historyVars>>

\* A credential resolves: the request is encoded and sent.
Resolve(c) ==
    /\ call[c].pc = "resolving"
    /\ call' = [call EXCEPT ![c].pc = "sent"]
    /\ UNCHANGED <<breakerVars, historyVars>>

\* None does, as when the tenant has removed its key: nothing is reported, and
\* the next candidate is tried.
NoCredential(c) ==
    /\ call[c].pc = "resolving"
    /\ NextCandidate(c, 1)
    /\ NoteSilence(c, KeyOf(c))
    /\ UNCHANGED breakerVars

\* The model answers.
Answered(c) ==
    /\ call[c].pc = "sent"
    /\ RecordSuccess(KeyOf(c))
    /\ NoteSuccess(c, KeyOf(c))
    /\ call' = [call EXCEPT ![c] = Place("over", @.at, @.attempt, @.tries + 1, @.at)]

\* It refuses, or cannot be reached: the same model is tried again after a pause,
\* without asking the breaker, if that can help and tries are left.
Refused(c, retryable) ==
    /\ call[c].pc = "sent"
    /\ RecordFailure(KeyOf(c))
    /\ NoteFailure(c, KeyOf(c))
    /\ IF retryable /\ call[c].attempt < MaxAttempts
       THEN call' = [call EXCEPT ![c] = Place("sent", @.at, @.attempt + 1, @.tries + 1, 0)]
       ELSE NextCandidate(c, 1)

-----------------------------------------------------------------------------
Proceed(c) ==
    \/ LetThrough(c) \/ Skip(c) \/ Exhaust(c) \/ Resolve(c) \/ NoCredential(c)
    \/ Answered(c) \/ \E retryable \in BOOLEAN : Refused(c, retryable)

OperatorResets(k) ==
    /\ Reset(k)
    /\ probing' = [probing EXCEPT ![k] = {}]
    /\ leaked' = [leaked EXCEPT ![k] = 0]
    /\ UNCHANGED <<call, failed, worked>>

TimePasses(k) == RecoveryElapses(k) /\ UNCHANGED <<call, historyVars>>

Next ==
    \/ \E c \in Invocation : Begin(c) \/ Proceed(c) \/ Cancel(c)
    \/ \E k \in Key : TimePasses(k) \/ OperatorResets(k)

Spec == Init /\ [][Next]_vars
=============================================================================
