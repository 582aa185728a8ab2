-------------------------- MODULE TurnStreamProperties --------------------------
(* What a reader of an answer, and a server with a reader gone, may rely on. *)
EXTENDS TurnStream, FiniteSets

TypeOK ==
    /\ turn \in [Message -> [recorded : Seq(EventKind),
                             bridge : [queue : Seq(Int), closed : BOOLEAN, dropped : Nat],
                             task : Task, response : Response]]
    /\ seen \in [Message -> [live : Seq(Nat), replayed : SUBSET Nat, caughtUp : BOOLEAN]]
    /\ web \in [connection : Connection,
                at : {"nothing", "response", "body", "reconnect", "threw"},
                message : Message \cup {"none"}, attempt : 0..MaxAttempts]
    /\ stored \subseteq Message
    /\ thread \in BOOLEAN

Received(m) == {seen[m].live[i] : i \in 1..Len(seen[m].live)} \cup seen[m].replayed
Numbers(m) == 0..Len(turn[m].recorded) - 1
KindOf(m, n) == turn[m].recorded[n + 1]

\* A reader who has read to an end, of the response or of a replay from the last
\* event read, has received every event that is not content, the opening and the
\* ending among them; the content that is missing is what the bridge counted as
\* dropped and the two events it may have given up for the ending and the
\* sentinel.  What a response delivers, it delivers in order.
MissesOnlyContent ==
    \A m \in Message :
        LET missing == Numbers(m) \ Received(m)
        IN  /\ \A i, j \in 1..Len(seen[m].live) : i < j => seen[m].live[i] < seen[m].live[j]
            /\ seen[m].caughtUp =>
                   /\ \A n \in missing : KindOf(m, n) = "content"
                   /\ Cardinality(missing) <= turn[m].bridge.dropped + 2

\* A turn whose reader has gone (stopped, asked something else, or lost the line)
\* is stopped, whatever it was waiting for.
AbandonedTurnsStop ==
    \A m \in Message :
        (turn[m].task = "running" /\ ~Connected(m)) ~> (turn[m].task \in Over)

\* What makes everybody else answer: turns end, the server answers a request, and
\* a reconnect fails or is refused.
EverybodyAnswers ==
    /\ \A m \in Message : WF_vars(TaskEnds(m)) /\ WF_vars(Accept(m) \/ Refuse(m))
    /\ WF_vars(ReconnectFails \/ ReconnectRefused)

\* Then a page that shows an answer in progress stops doing so, except that a
\* request answered with an error leaves it as it was: the hook has thrown.
OnlyErrorsHoldThePage == EverybodyAnswers => (Busy ~> (~Busy \/ web.at = "threw"))
=============================================================================
