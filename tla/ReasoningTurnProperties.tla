------------------------ MODULE ReasoningTurnProperties ------------------------
(* What a turn owes its reader, and its tenant. *)
EXTENDS ReasoningTurn, FiniteSums

\* The allowance is the account of the turns: what is reserved are the claims of
\* turns not settled yet, what is consumed the cost of those that are, failed and
\* stopped ones included ("kept whether or not it succeeds", turn.py:125).
Claims == [t \in Turn |-> turns[t].claim]
Costs == [t \in Turn |-> turns[t].tokens]
AllowanceIsAccounted ==
    /\ allowance.reserved = SumOver(Claims, Turn \ settled)
    /\ allowance.consumed = SumOver(Costs, settled)

\* Concurrent turns that each pass the check never collectively overrun: only a
\* turn that costs more than its claim takes the account past the limit.
Overruns == [t \in Turn |-> AtLeastZero(turns[t].tokens - turns[t].claim)]
NoCollectiveOverrun ==
    allowance.on_exhaustion # "allow" =>
        allowance.consumed + allowance.reserved <= Limit + SumOver(Overruns, settled)

\* A turn that was asked to stop starts no model call and no tool.
StartsWork(t) ==
    /\ turns'[t].pc \in {"calling", "tool"}
    /\ turns'[t].pc # turns[t].pc \/ turns'[t].left # turns[t].left
StopStopsWork == [][\A t \in Turn : turns[t].cancel => ~StartsWork(t)]_turnVars

\* How a task left run() against the phase of its turn, its stream and its account.  No
\* exception leaves a turn "in a live phase with no owner" (engine.py:247-249), stopped
\* turns and refused transitions included, except one the gate raises at the reservation.
\* A reader is told of the end if run() returned or raised what ended the turn, of an
\* error if and only if it was one, and not before the cost is final.  A gate that raises
\* leaves the reader untold, at the reservation (engine.py:279) and at the settlement
\* (engine.py:251, 259), and so does a task that is dropped.
EndingIsTold ==
    \A t \in Turn : LET x == turns[t] IN
        /\ x.pc \in {"over", "raised", "unsettled"} => x.phase \in TerminalPhases
        /\ stream[t] # "open" <=> x.pc \in {"over", "raised"}
        /\ stream[t] # "open" =>
            /\ stream[t] = "error" <=> x.reason = "error"
            /\ x.phase = "cancelled" => stream[t] = "done"
            /\ t \in settled \/ (stream[t] = "error" /\ x.claim = 0 /\ x.tokens = 0)

\* A turn ends, however the model loops, if what it awaits returns or raises: the
\* time budget is looked at between steps only, so a tool that hangs is not caught.
FairTurnSpec == TurnSpec /\ \A t \in Turn :
    /\ WF_turnVars(GateAnswers(t))
    /\ WF_turnVars(ModelAnswers(t))
    /\ WF_turnVars(ToolEnds(t))
TurnsEnd == \A t \in Turn : turns[t].pc # "none" ~> turns[t].pc \in TaskEnded
=============================================================================
