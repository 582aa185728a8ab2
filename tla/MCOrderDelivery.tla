--------------------------- MODULE MCOrderDelivery ---------------------------
(* Instances of the whole path for TLC. *)
EXTENDS OrderDelivery

CONSTANTS buy, acct

OneAccount == [p \in Proposal |-> acct]
=============================================================================
