----------------------- MODULE AnalystCacheProperties -----------------------
(* What the analyst cache owes its readers, and the table behind it. *)
EXTENDS AnalystCache

CacheTypeOK ==
    /\ db \in 0..MaxVersion /\ bloom \in BOOLEAN
    /\ l1 \in [Node -> Entry \cup {None}] /\ l2 \in Entry \cup {None}
    /\ mutex \in Reader \cup {"free", "gone"}
    /\ reader \in [Reader -> [at : {"idle", "gate", "l2", "null", "lock", "recheck",
                                    "renull", "load", "fill", "put1", "put2", "unlock"},
                              hand : Entry \cup {None}]]
    /\ writer \in [Writer -> {"idle", "saved", "added", "cleared", "deleted"}]
    /\ inbox \in [Node -> Nat] /\ broadcasts \in BOOLEAN /\ undone \in BOOLEAN
    /\ loads \in Nat /\ wasted \in Nat /\ mishaps \in 0..MaxMishaps

\* An entry that is not what the table has, and that nothing but a load or a copy of
\* one put there.
Stale(entry) == entry # None /\ entry.value # db /\ entry.why = "loaded"
Underway(places) == \E w \in Writer : writer[w] \in places

\* Once an update has been answered, what is cached is what it saved: in Redis
\* unless a reader had loaded before and filled it in after the deletion, the load
\* failed, or an update did not get to its deletion; in a node's own cache also
\* unless the broadcast is on its way, or was not sent.  A rating that the filter
\* does not have is one whose update has not got there, or did not.
StaleForAReason ==
    LET Unfinished == undone \/ Underway({"saved", "added", "cleared"})
    IN  /\ Stale(l2) => Unfinished
        /\ \A n \in Node :
               Stale(l1[n]) => Unfinished \/ Underway({"deleted"}) \/ inbox[n] > 0
        /\ db > 0 /\ ~bloom => undone \/ Underway({"saved"})

\* However many readers, on however many nodes, find L2 empty, one of them reads the
\* table; another one only for a load that was lost on its way to L2, or that the
\* lease ended under, and once more where such a load replaced another's entry: a
\* reader that saw no value may then see no marker.
OneLoadPerAbsence == loads <= 1 + wasted

\* When updates come to an end, every cache comes to agree with the table for good,
\* whatever went wrong before: no entry outlives its time, a marker neither.
Agree(entry) == entry # None => entry.value = db
CachesConverge == <>[](Agree(l2) /\ \A n \in Node : Agree(l1[n]))
=============================================================================
