---------------------------- MODULE ReasoningTurn -----------------------------
(***************************************************************************)
(* core/reasoning/engine.py and turn.py: the turns of one tenant, metered  *)
(* against one allowance.  A step runs from one await to the next: a turn  *)
(* awaits the quota gate, the model, a tool, and the gate again.  The gate *)
(* is external; it applies reservation.py in one transaction per call.     *)
(***************************************************************************)
EXTENDS Quota, FiniteSets

CONSTANTS
    Turn,           \* calls of ReasoningEngine.run
    MaxIterations,  \* Budget.max_iterations
    MaxTokens,      \* Budget.max_tokens
    PromptTokens,   \* _estimate_tokens of a prompt
    CallCost,       \* tokens a model call may take
    MaxTools        \* bound: permitted tools in one reply

ASSUME BudgetAssumption ==
    /\ IsFiniteSet(Turn)
    /\ MaxIterations \in Nat \ {0}
    /\ MaxTokens \in Nat
    /\ PromptTokens \in Nat \ {0}
    /\ CallCost \subseteq Nat
    /\ MaxTools \in Nat

VARIABLES
    allowance,  \* what the gate has stored
    turns,       \* each turn, and where its task is
    late,       \* turns whose max_seconds have passed
    stream,     \* how each turn's EventStream has ended
    settled     \* history: turns whose settlement the gate has stored

turnVars == <<allowance, turns, late, stream, settled>>

Phase == {"pending", "thinking", "acting", "cancelling", "completed", "failed", "cancelled"}
TerminalPhases == {"completed", "failed", "cancelled"}
Reason == {"none", "answered", "iteration_budget", "token_budget", "time_budget",
           "cancelled", "error"}

\* _TRANSITIONS
Transitions ==
    [pending    |-> {"thinking", "cancelling", "failed"},
     thinking   |-> {"acting", "completed", "failed", "cancelling"},
     acting     |-> {"thinking", "failed", "cancelling"},
     cancelling |-> {"cancelled", "failed"},
     completed  |-> {}, failed |-> {}, cancelled |-> {}]

\* What a task awaits; "raising" is the settlement of a turn that an exception ended.
Awaiting == {"reserving", "calling", "tool", "settling", "raising"}

\* How run() is left: it returns, raises what ended the turn, raises what the gate
\* raised at the settlement or at the reservation, or is dropped at an await.
TaskEnded == {"over", "raised", "unsettled", "unreserved", "dropped"}

\* left: permitted tools still to run; claim: tokens the gate has reserved for it.
TurnState == [pc : {"none"} \cup Awaiting \cup TaskEnded, phase : Phase, reason : Reason,
              cancel : BOOLEAN, iterations : Nat, tokens : Nat, left : Nat, claim : Nat]

FreshTurn == [pc |-> "none", phase |-> "pending", reason |-> "none", cancel |-> FALSE,
            iterations |-> 0, tokens |-> 0, left |-> 0, claim |-> 0]

TurnInit ==
    /\ \E policy \in Exhaustion : allowance = Untouched(policy)
    /\ turns = [t \in Turn |-> FreshTurn]
    /\ late = {}
    /\ stream = [t \in Turn |-> "open"]
    /\ settled = {}

-----------------------------------------------------------------------------
(* Between two awaits *)

\* The turn ends, and awaits pc.
Stops(x, phase, reason, pc) == [x EXCEPT !.phase = phase, !.reason = reason, !.pc = pc]

\* (mutant) an exception leaves the turn in the phase it was in.
RaisesLive(x) == [x EXCEPT !.reason = "error", !.pc = "raising"]

\* An exception leaves the loop: the turn fails and is settled.
Raises(x) == Stops(x, "failed", "error", "raising")

\* The head of the loop: a stop, a budget, or another model call.
LoopHead(x, isLate) ==
    IF x.cancel THEN Stops(x, "cancelled", "cancelled", "settling")
    ELSE IF x.iterations >= MaxIterations THEN Stops(x, "failed", "iteration_budget", "settling")
    ELSE IF x.tokens >= MaxTokens THEN Stops(x, "failed", "token_budget", "settling")
    ELSE IF isLate THEN Stops(x, "failed", "time_budget", "settling")
    ELSE [x EXCEPT !.phase = "thinking", !.pc = "calling"]

\* (mutant) a stop is only looked at when all tools have run.
NextToolDeaf(x, n, isLate) ==
    IF n = 0 THEN LoopHead(x, isLate) ELSE [x EXCEPT !.pc = "tool", !.left = n - 1]

\* run_tools with n requests left: the next one, unless the turn is to stop; then
\* the loop again, whose first check is the one that follows run_tools.
NextTool(x, n, isLate) ==
    IF n = 0 \/ x.cancel THEN LoopHead([x EXCEPT !.left = 0], isLate)
    ELSE [x EXCEPT !.pc = "tool", !.left = n - 1]

\* (mutant) the ledger tells of the last reply only.
RecordedAnew(x, cost) == [x EXCEPT !.iterations = 1, !.tokens = cost]

\* A reply's cost is recorded before anything is done with it.
Recorded(x, cost) == [x EXCEPT !.iterations = @ + 1, !.tokens = @ + cost]

\* move_to refuses a phase that may not follow: InvalidTransition.
Moves(x, phase) == phase \in Transitions[x.phase]

-----------------------------------------------------------------------------
Begin(t) ==
    /\ turns[t].pc = "none"
    /\ turns' = [turns EXCEPT ![t].pc = "reserving"]
    /\ UNCHANGED <<allowance, late, stream, settled>>

\* The gate grants a reservation, and the loop begins.
GetReservation(t) ==
    /\ turns[t].pc = "reserving"
    /\ Granted(allowance, PromptTokens + MaxTokens)
    /\ LET claim == Claim(allowance, PromptTokens + MaxTokens)
       IN /\ allowance' = Reserve(allowance, claim)
          /\ turns' = [turns EXCEPT ![t] = LoopHead([@ EXCEPT !.claim = claim], t \in late)]
    /\ UNCHANGED <<late, stream, settled>>

\* It does not: the turn ends before it started.
Blocked(t) ==
    /\ turns[t].pc = "reserving"
    /\ ~Granted(allowance, PromptTokens + MaxTokens)
    /\ turns' = [turns EXCEPT ![t] = Stops(@, "failed", "error", "over")]
    /\ stream' = [stream EXCEPT ![t] = "error"]
    /\ UNCHANGED <<allowance, late, settled>>

\* The call to the gate raises, which run() does not catch there: the turn is left as
\* it is, and so is its stream.
ReserveRaises(t) ==
    /\ turns[t].pc = "reserving"
    /\ turns' = [turns EXCEPT ![t].pc = "unreserved"]
    /\ UNCHANGED <<allowance, late, stream, settled>>

\* The model answers and asks for no tool: complete(), which a cancelling turn
\* refuses.
FinalAnswer(t, cost) ==
    /\ turns[t].pc = "calling"
    /\ turns' = [turns EXCEPT ![t] =
                  IF Moves(@, "completed")
                  THEN Stops(Recorded(@, cost), "completed", "answered", "settling")
                  ELSE Raises(Recorded(@, cost))]
    /\ UNCHANGED <<allowance, late, stream, settled>>

\* It asks for tools, n of which the registry offers.
ToolsWanted(t, cost, n) ==
    /\ turns[t].pc = "calling"
    /\ turns' = [turns EXCEPT ![t] =
                  IF Moves(@, "acting")
                  THEN NextTool([Recorded(@, cost) EXCEPT !.phase = "acting"], n, t \in late)
                  ELSE Raises(Recorded(@, cost))]
    /\ UNCHANGED <<allowance, late, stream, settled>>

\* A tool returns, whether it succeeded or not.
ToolReturns(t) ==
    /\ turns[t].pc = "tool"
    /\ turns' = [turns EXCEPT ![t] = NextTool(@, @.left, t \in late)]
    /\ UNCHANGED <<allowance, late, stream, settled>>

\* The model call, or a tool, raises.
CallRaises(t, pc) ==
    /\ turns[t].pc = pc
    /\ turns' = [turns EXCEPT ![t] = Raises(@)]
    /\ UNCHANGED <<allowance, late, stream, settled>>

-----------------------------------------------------------------------------
(* Settlement *)

AfterSettling(t) == IF turns[t].pc = "settling" THEN "over" ELSE "raised"

SettlementStored(t, spent) ==
    /\ allowance' = Settle(allowance, turns[t].claim, spent)
    /\ settled' = settled \cup {t}

EndsStream(t) ==
    stream' = [stream EXCEPT ![t] = IF turns[t].pc = "settling" THEN "done" ELSE "error"]

\* The gate stores the settlement; the stream is closed, or fails with the
\* exception that ended the turn.
Settled(t) ==
    /\ turns[t].pc \in {"settling", "raising"}
    /\ SettlementStored(t, turns[t].tokens)
    /\ turns' = [turns EXCEPT ![t].pc = AfterSettling(t)]
    /\ EndsStream(t)
    /\ UNCHANGED late

\* The call to the gate raises, which may have stored the settlement before it did:
\* the exception leaves run() before the stream is ended.
SettleRaises(t) ==
    /\ turns[t].pc \in {"settling", "raising"}
    /\ turns' = [turns EXCEPT ![t].pc = "unsettled"]
    /\ UNCHANGED <<allowance, settled>> \/ SettlementStored(t, turns[t].tokens)
    /\ UNCHANGED <<late, stream>>

-----------------------------------------------------------------------------
(* Stopping *)

\* request_cancel(), called by whoever holds the turn, between two of its steps.
RequestCancel(t) ==
    /\ turns[t].pc \in Awaiting
    /\ turns[t].phase \notin TerminalPhases
    /\ turns' = [turns EXCEPT ![t].cancel = TRUE, ![t].phase = "cancelling"]
    /\ UNCHANGED <<allowance, late, stream, settled>>

\* The phase and reason the finally clause leaves: it only covers the loop.
Unwound(x) ==
    IF x.phase = "cancelling" /\ x.pc # "reserving"
    THEN Stops(x, "cancelled", "cancelled", "dropped")
    ELSE [x EXCEPT !.pc = "dropped"]

\* The reader disconnects and the task is cancelled at an await: CancelledError is
\* no Exception, and neither quota nor stream is seen to.  A call to the gate that
\* is under way may have reached it or not.
TaskDropped(t) ==
    /\ turns[t].pc \in Awaiting
    /\ turns' = [turns EXCEPT ![t] = Unwound(@)]
    /\ \/ UNCHANGED <<allowance, settled>>
       \/ turns[t].pc \in {"settling", "raising"} /\ SettlementStored(t, turns[t].tokens)
    /\ UNCHANGED <<late, stream>>

\* The call raises, or the task is dropped at it, when the gate has granted a
\* reservation: nobody will hear of it.
GrantUnheard(t) ==
    /\ turns[t].pc = "reserving"
    /\ Granted(allowance, PromptTokens + MaxTokens)
    /\ LET claim == Claim(allowance, PromptTokens + MaxTokens)
       IN /\ allowance' = Reserve(allowance, claim)
          /\ \E pc \in {"unreserved", "dropped"} :
               turns' = [turns EXCEPT ![t] = [@ EXCEPT !.pc = pc, !.claim = claim]]
    /\ UNCHANGED <<late, stream, settled>>

\* max_seconds have passed since the turn began.
TimePasses(t) ==
    /\ turns[t].pc \in Awaiting
    /\ t \notin late
    /\ late' = late \cup {t}
    /\ UNCHANGED <<allowance, turns, stream, settled>>

-----------------------------------------------------------------------------
GateAnswers(t) ==
    GetReservation(t) \/ Blocked(t) \/ ReserveRaises(t) \/ Settled(t) \/ SettleRaises(t)

ModelAnswers(t) ==
    \/ \E cost \in CallCost :
         FinalAnswer(t, cost) \/ \E n \in 0..MaxTools : ToolsWanted(t, cost, n)
    \/ CallRaises(t, "calling")

ToolEnds(t) == ToolReturns(t) \/ CallRaises(t, "tool")

TurnNext == \E t \in Turn :
    \/ Begin(t) \/ GateAnswers(t) \/ ModelAnswers(t) \/ ToolEnds(t)
    \/ RequestCancel(t) \/ TaskDropped(t) \/ GrantUnheard(t) \/ TimePasses(t)

TurnSpec == TurnInit /\ [][TurnNext]_turnVars
=============================================================================
