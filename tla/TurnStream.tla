------------------------------ MODULE TurnStream ------------------------------
(***************************************************************************)
(* core/streaming/events.py, api/stream/bridge.py, api/stream/sse.py,      *)
(* api/http/threads.py and web/src/hooks/useTurnStream.ts: the answers to  *)
(* the messages of one thread, from the task of each turn through the      *)
(* queue of its bridge and the body of its response to the reader's hook.  *)
(* What a turn does between two events is ReasoningTurn's; here it says    *)
(* something, ends, or waits.  A step runs from one await to the next.     *)
(***************************************************************************)
EXTENDS Integers, Sequences, SequencesExt

CONSTANTS
    Message,      \* messages the reader may send
    Capacity,     \* DEFAULT_CAPACITY: places in the queue of a bridge
    MaxAttempts,  \* MAX_ATTEMPTS: reconnects after a disconnect
    MaxContent    \* bound: content events of a turn

ASSUME StreamAssumption ==
    /\ Capacity \in Nat /\ Capacity >= 2
    /\ MaxAttempts \in Nat \ {0}
    /\ MaxContent \in [Message -> Nat]

VARIABLES
    turn,        \* per message: its stream, its bridge, its task, its response
    seen,        \* per message: what the reader has received of the answer
    web,         \* the reader's hook
    stored,      \* messages whose transcript is kept for replay
    thread       \* whether the thread still exists

vars == <<turn, seen, web, stored, thread>>

-----------------------------------------------------------------------------
(* The stream: what is emitted, and in which order *)

\* Text, reasoning, tool, artifact, usage and notice events differ in how they
\* are shown and in nothing else.
EventKind == {"metadata", "content", "error", "done"}
Terminal == {"error", "done"}

\* The kinds a full queue makes room for.
Structural == Terminal \cup {"metadata"}

\* Transcript.validate: the order a consumer relies on.  The numbers are
\* contiguous because they are positions.
Valid(events) ==
    /\ events # <<>>
    /\ events[1] = "metadata"
    /\ events[Len(events)] \in Terminal
    /\ \A i \in 1..Len(events) - 1 : events[i] \notin Terminal

\* What the stream requires of who emits: it has been opened, and not ended.
Opened(x) == x.recorded # <<>> /\ x.recorded[1] = "metadata"
Ended(x) == \E i \in 1..Len(x.recorded) : x.recorded[i] \in Terminal

\* ResumePoint.resume_from: the numbers after a cursor; -1 is no cursor.
Since(events, cursor) == {n \in 0..Len(events) - 1 : n > cursor}

-----------------------------------------------------------------------------
(* The bridge: a bounded queue of sequence numbers *)

END == -1   \* the sentinel that ends the iteration

\* publish: content is dropped when the queue is full, a structural event takes
\* the place of the oldest one, whatever that is.
Published(b, n, kind) ==
    IF b.closed THEN b
    ELSE IF Len(b.queue) < Capacity THEN [b EXCEPT !.queue = Append(@, n)]
    ELSE IF kind \in Structural THEN [b EXCEPT !.queue = Append(Tail(@), n)]
    ELSE [b EXCEPT !.dropped = @ + 1]

\* close: the sentinel goes last, if need be in the place of the oldest event.
Closed(b) ==
    IF b.closed THEN b
    ELSE [b EXCEPT !.closed = TRUE,
                   !.queue = Append(IF Len(@) < Capacity THEN @ ELSE Tail(@), END)]

\* RecordingStream._emit: recorded, numbered and forwarded.
Emitted(x, kind) ==
    [x EXCEPT !.recorded = Append(@, kind),
              !.bridge = Published(@, Len(x.recorded), kind)]

-----------------------------------------------------------------------------
Task == {"none", "running", "cancelling", "done", "raised", "cancelled"}
Over == {"done", "raised", "cancelled"}
Response == {"none", "asked", "ready", "serving", "closing", "complete", "broken", "closed"}
Connection == {"idle", "streaming", "reconnecting", "closed"}

NewTurn == [recorded |-> <<>>,
            bridge   |-> [queue |-> <<>>, closed |-> FALSE, dropped |-> 0],
            task     |-> "none",
            response |-> "none"]

\* at: what the hook awaits: nothing, the response, its body, or a reconnect;
\* "threw" when an error has left send.
NewHook == [connection |-> "idle", at |-> "nothing", message |-> "none", attempt |-> 0]

\* live: numbers read from the response; replayed: numbers read from the
\* transcript; caughtUp: an end of either has been read.
NothingSeen == [live |-> <<>>, replayed |-> {}, caughtUp |-> FALSE]

Init ==
    /\ turn = [m \in Message |-> NewTurn]
    /\ seen = [m \in Message |-> NothingSeen]
    /\ web = NewHook
    /\ stored = {}
    /\ thread = TRUE

\* The reader holds the connection that m's response is written to.
Connected(m) == web.message = m /\ web.at \in {"response", "body"}
Busy == web.connection \in {"streaming", "reconnecting"}
Contents(x) == SelectSeq(x.recorded, LAMBDA k : k = "content")

-----------------------------------------------------------------------------
(* The hook asks, stops, and loses its line *)

\* send: whatever was running is stopped first.
Send(m) ==
    /\ turn[m].response = "none"
    /\ turn' = [turn EXCEPT ![m].response = "asked"]
    /\ web' = [connection |-> "streaming", at |-> "response", message |-> m, attempt |-> 0]
    /\ UNCHANGED <<seen, stored, thread>>

\* stop, which unmounting calls too.
Stop ==
    /\ web.connection # "closed"
    /\ web' = [web EXCEPT !.connection = "closed", !.at = "nothing"]
    /\ UNCHANGED <<turn, seen, stored, thread>>

\* readStream reports a disconnect, and resume begins: the line broke, before
\* the response or in its body.
Resuming == [web EXCEPT !.connection = "reconnecting", !.at = "reconnect", !.attempt = 1]

LineBreaks ==
    /\ web.at \in {"response", "body"}
    /\ web' = Resuming
    /\ UNCHANGED <<turn, seen, stored, thread>>

\* (mutant) the schedule starts again when it is through.
ReconnectFailsAnew ==
    /\ web.at = "reconnect"
    /\ web' = [web EXCEPT !.attempt = 1 + (@ % MaxAttempts)]
    /\ UNCHANGED <<turn, seen, stored, thread>>

\* The server cannot be reached: the next attempt of the schedule, or its end.
ReconnectFails ==
    /\ web.at = "reconnect"
    /\ web' = IF web.attempt < MaxAttempts
              THEN [web EXCEPT !.attempt = @ + 1]
              ELSE [web EXCEPT !.connection = "closed", !.at = "nothing"]
    /\ UNCHANGED <<turn, seen, stored, thread>>

\* It can: it has no route for the URL that Content-Location and reconnect name,
\* and readStream throws for an answer that is not ok, through resume and send.
ReconnectRefused ==
    /\ web.at = "reconnect"
    /\ web' = [web EXCEPT !.at = "threw"]
    /\ UNCHANGED <<turn, seen, stored, thread>>

-----------------------------------------------------------------------------
(* The route: one response to a message *)

\* send_message: the stream is opened before there is a response to write.
Accept(m) ==
    /\ turn[m].response = "asked" /\ thread
    /\ turn' = [turn EXCEPT ![m] = [Emitted(@, "metadata") EXCEPT !.response = "ready"]]
    /\ web' = IF Connected(m) THEN [web EXCEPT !.at = "body"] ELSE web
    /\ UNCHANGED <<seen, stored, thread>>

\* Not found: the error leaves send, which has set the connection and not reset it.
Refuse(m) ==
    /\ turn[m].response = "asked" /\ ~thread
    /\ turn' = [turn EXCEPT ![m].response = "closed"]
    /\ web' = IF Connected(m) THEN [web EXCEPT !.at = "threw"] ELSE web
    /\ UNCHANGED <<seen, stored, thread>>

\* The oldest event leaves for the reader, who may be gone.
Taken(x) == [x EXCEPT !.bridge.queue = Tail(@)]
Reads(m, n) == seen' = IF Connected(m) THEN [seen EXCEPT ![m].live = Append(@, n)] ELSE seen

\* run_and_stream starts the task, and reads what is in the queue before the task
\* has its first step.
Start(m) ==
    /\ turn[m].response = "ready"
    /\ turn' = [turn EXCEPT ![m] = [Taken(@) EXCEPT !.response = "serving", !.task = "running"]]
    /\ Reads(m, Head(turn[m].bridge.queue))
    /\ UNCHANGED <<web, stored, thread>>

Deliver(m) ==
    /\ turn[m].response = "serving"
    /\ turn[m].bridge.queue # <<>> /\ Head(turn[m].bridge.queue) # END
    /\ turn' = [turn EXCEPT ![m] = Taken(@)]
    /\ Reads(m, Head(turn[m].bridge.queue))
    /\ UNCHANGED <<web, stored, thread>>

\* The sentinel ends the body; awaiting the task raises what it raised, and then
\* the body breaks off.
EndBody(m) ==
    /\ turn[m].response = "serving"
    /\ turn[m].bridge.queue # <<>> /\ Head(turn[m].bridge.queue) = END
    /\ LET ending == IF turn[m].task = "raised" THEN "broken" ELSE "complete"
       IN /\ turn' = [turn EXCEPT ![m] = [Taken(@) EXCEPT !.response = ending]]
          /\ web' = IF ~Connected(m) THEN web
                    ELSE IF ending = "broken" THEN Resuming
                    ELSE [web EXCEPT !.connection = "closed", !.at = "nothing"]
          /\ seen' = IF Connected(m) THEN [seen EXCEPT ![m].caughtUp = TRUE] ELSE seen
    /\ UNCHANGED <<stored, thread>>

\* (mutant) the response is closed and the turn runs on.
LeaveRunning(m) ==
    /\ turn[m].response \in {"ready", "serving"} /\ ~Connected(m)
    /\ turn' = [turn EXCEPT ![m].response = IF @ = "ready" THEN "closed" ELSE "closing"]
    /\ UNCHANGED <<seen, web, stored, thread>>

\* The server notices that the reader has gone.  A body that was never iterated
\* has no turn; otherwise the iterator is closed, which cancels the task.
Leave(m) ==
    /\ turn[m].response \in {"ready", "serving"} /\ ~Connected(m)
    /\ turn' = [turn EXCEPT ![m].response = IF @ = "ready" THEN "closed" ELSE "closing",
                            ![m].task = IF @ = "running" THEN "cancelling" ELSE @]
    /\ UNCHANGED <<seen, web, stored, thread>>

\* The cancelled task has been awaited.
Left(m) ==
    /\ turn[m].response = "closing" /\ turn[m].task \in Over
    /\ turn' = [turn EXCEPT ![m].response = "closed"]
    /\ UNCHANGED <<seen, web, stored, thread>>

-----------------------------------------------------------------------------
(* The task *)

Says(m) ==
    /\ turn[m].task = "running" /\ Len(Contents(turn[m])) < MaxContent[m]
    /\ turn' = [turn EXCEPT ![m] = Emitted(@, "content")]
    /\ UNCHANGED <<seen, web, stored, thread>>

\* It ends: answered or out of budget, refused by the gate, failed, or failed
\* where nothing closes the stream (the settlement raised).
Endings == {<<"done", <<"done">>>>, <<"done", <<"error">>>>,
            <<"raised", <<"error">>>>, <<"raised", <<>>>>}

TaskEnds(m) ==
    /\ turn[m].task = "running"
    /\ \E ending \in Endings :
           turn' = [turn EXCEPT ![m] =
                      [IF ending[2] = <<>> THEN @ ELSE Emitted(@, ending[2][1])
                       EXCEPT !.task = ending[1]]]
    /\ UNCHANGED <<seen, web, stored, thread>>

\* CancelledError, at the await the task is in: no handler of the engine's ends
\* the stream.
TaskCancelled(m) ==
    /\ turn[m].task = "cancelling"
    /\ turn' = [turn EXCEPT ![m].task = "cancelled"]
    /\ UNCHANGED <<seen, web, stored, thread>>

\* (mutant) closing a full queue gives up the event that was put there last.
CloseBridgeOnNewest(m) ==
    /\ turn[m].task \in Over /\ ~turn[m].bridge.closed
    /\ turn' = [turn EXCEPT ![m].bridge =
                  IF Len(@.queue) < Capacity THEN Closed(@)
                  ELSE Closed([@ EXCEPT !.queue = Front(@)])]
    /\ UNCHANGED <<seen, web, stored, thread>>

\* The task's done callback.
CloseBridge(m) ==
    /\ turn[m].task \in Over /\ ~turn[m].bridge.closed
    /\ turn' = [turn EXCEPT ![m].bridge = Closed(@)]
    /\ UNCHANGED <<seen, web, stored, thread>>

-----------------------------------------------------------------------------
(* What remains: transcripts and the thread *)

\* build_transcript refuses a record that is not valid.
Store(m) ==
    /\ turn[m].task \in Over /\ m \notin stored /\ Valid(turn[m].recorded)
    /\ stored' = stored \cup {m}
    /\ UNCHANGED <<turn, seen, web, thread>>

\* ResumePoint.from_request: the query's cursor, or the header's, or none (-1).
ResumeFrom(query, header) == IF query >= 0 THEN query ELSE header

Cursor(m) == IF seen[m].live = <<>> THEN -1 ELSE Last(seen[m].live)

\* replay_thread, for a reader who is no longer reading the response: what comes
\* after the cursor, if the request has one.
Replay(m) ==
    /\ thread /\ m \in stored /\ ~Connected(m) /\ ~seen[m].caughtUp
    /\ \E query, header \in {-1, Cursor(m)} :
           seen' = [seen EXCEPT ![m].caughtUp = TRUE,
                                ![m].replayed = Since(turn[m].recorded,
                                                      ResumeFrom(query, header))]
    /\ UNCHANGED <<turn, web, stored, thread>>

\* delete_thread: the turns that run for it run on.
DeleteThread ==
    /\ thread
    /\ thread' = FALSE
    /\ UNCHANGED <<turn, seen, web, stored>>

Next ==
    \/ Stop \/ LineBreaks \/ ReconnectFails \/ ReconnectRefused \/ DeleteThread
    \/ \E m \in Message :
        \/ Send(m) \/ Accept(m) \/ Refuse(m)
        \/ Start(m) \/ Deliver(m) \/ EndBody(m) \/ Leave(m) \/ Left(m)
        \/ Says(m) \/ TaskEnds(m) \/ TaskCancelled(m) \/ CloseBridge(m)
        \/ Store(m) \/ Replay(m)

Spec == Init /\ [][Next]_vars

\* The event loop runs what is ready; the network reports a broken line; the
\* hook's timers fire.  A turn may wait for ever, and the reader need do nothing.
Fairness ==
    \A m \in Message :
        /\ WF_vars(Start(m)) /\ WF_vars(Deliver(m)) /\ WF_vars(EndBody(m))
        /\ WF_vars(Leave(m)) /\ WF_vars(Left(m))
        /\ WF_vars(TaskCancelled(m)) /\ WF_vars(CloseBridge(m))

FairSpec == Spec /\ Fairness
=============================================================================
