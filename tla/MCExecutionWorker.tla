-------------------------- MODULE MCExecutionWorker --------------------------
(* Instances of the execution workers for TLC. *)
EXTENDS ExecutionWorkerProperties, TLC

CONSTANTS buy, sell, acct1

\* Every proposal is for the one account.
SameAccount == [p \in Proposal |-> acct1]

Symmetry == Permutations(Worker)
=============================================================================
