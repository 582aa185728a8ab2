---------------------------- MODULE AnalystCache ----------------------------
(***************************************************************************)
(* The analyst service's two-level cache (java/analyst-service): each node *)
(* has a local cache (L1, Caffeine) before the shared one (L2, Redis),     *)
(* which is before the table of ratings; a Bloom filter in Redis keeps     *)
(* symbols without a rating away from all but L1.                          *)
(*                                                                         *)
(* Key, lock and row of a symbol are no other symbol's: this is one        *)
(* symbol.  Its rating is a version number, 0 while it has none; a cache   *)
(* entry of version 0 is the null marker.  Every call of Redis, of the     *)
(* table and of Caffeine is a step, since other threads, on this node and  *)
(* on others, come in between.  Times to live and the lock's lease end at  *)
(* any time.  `why` of an entry is no part of the code: it tells how an    *)
(* entry that is not the table's came to stay.                             *)
(***************************************************************************)
EXTENDS Naturals, FiniteSets

CONSTANTS
    Node,        \* instances of the service
    Reader,      \* threads in getAnalyst
    Writer,      \* threads in updateAnalyst
    NodeOf,      \* where each thread runs
    None,        \* no entry
    MaxVersion,  \* bound: versions of the rating
    MaxMishaps   \* bound: exceptions, restarts, leases that end too early

ASSUME CacheAssumption ==
    /\ NodeOf \in [Reader \cup Writer -> Node]
    /\ IsFiniteSet(Reader) /\ Reader \cap {"free", "gone"} = {}
    /\ MaxVersion \in Nat \ {0} /\ MaxMishaps \in Nat

VARIABLES
    db,          \* the rating's version in analyst_ratings
    bloom,       \* whether the Bloom filter has the symbol
    l1, l2,      \* the entry in each node's Caffeine, the entry in Redis
    mutex,       \* the reader that holds lock:analyst:<symbol>, "free", or "gone"
    reader,      \* where each reader is in getWithMutex, and what it has in hand
    writer,      \* where each writer is in updateAnalyst
    inbox,       \* per node, broadcasts still to be received
    broadcasts,  \* cache.invalidate.mq.enabled, on every node
    loads,       \* reads of the table since L2 was last emptied
    wasted,      \* loads that a fault kept from L2 or began beside another, and
                 \* those that then replaced another's entry
    undone,      \* a writer did not get to delete what it had saved over
    mishaps      \* faults so far

cacheVars == <<db, bloom, l1, l2, mutex, reader, writer, inbox, broadcasts, loads, wasted,
               undone, mishaps>>

Why == {"loaded", "failed", "late", "missed"}
Entry == [value : 0..MaxVersion, why : Why]
ASSUME NoneAssumption == None \notin Entry
IdleReader == [at |-> "idle", hand |-> None]

-----------------------------------------------------------------------------
(* Helpers *)

Go(r, place) == reader' = [reader EXCEPT ![r] = [at |-> place, hand |-> None]]
Take(r, place, entry) == reader' = [reader EXCEPT ![r] = [at |-> place, hand |-> entry]]
InPlace(r, places) == reader[r].at \in places
Locals(n) == {r \in Reader : NodeOf[r] = n}

\* Between double-check and filling L2, and with a load to fill it with.
Refilling(r) == InPlace(r, {"recheck", "renull", "load", "put1", "put2"})
Loaded(r) == InPlace(r, {"put1", "put2"})

\* An entry the table has moved on from gets the reason that it stays.
Marked(entry, why) ==
    IF entry # None /\ entry.value # db THEN [entry EXCEPT !.why = why] ELSE entry

Mishap == mishaps < MaxMishaps /\ mishaps' = mishaps + 1
NoMishap == UNCHANGED <<mishaps, wasted, undone>>

-----------------------------------------------------------------------------
(* A service that is up: the filter was warmed with the table's symbols, and  *)
(* may have others' false positives.                                          *)
CacheInit ==
    /\ db \in 0..1
    /\ bloom \in {b \in BOOLEAN : db > 0 => b}
    /\ l1 = [n \in Node |-> None]
    /\ l2 = None
    /\ mutex = "free"
    /\ reader = [r \in Reader |-> IdleReader]
    /\ writer = [w \in Writer |-> "idle"]
    /\ inbox = [n \in Node |-> 0]
    /\ broadcasts \in BOOLEAN
    /\ loads = 0 /\ wasted = 0 /\ mishaps = 0
    /\ undone = FALSE

-----------------------------------------------------------------------------
(* CacheClient.getWithMutex *)

\* A hit in L1 is answered, and changes nothing; this is a miss.
Miss(r) ==
    /\ InPlace(r, {"idle"}) /\ l1[NodeOf[r]] = None
    /\ Go(r, "gate")
    /\ UNCHANGED <<db, bloom, l1, l2, mutex, writer, inbox, broadcasts, loads>> /\ NoMishap

\* A symbol the filter does not have is answered with nothing.
Gate(r) ==
    /\ InPlace(r, {"gate"})
    /\ Go(r, IF bloom THEN "l2" ELSE "idle")
    /\ UNCHANGED <<db, bloom, l1, l2, mutex, writer, inbox, broadcasts, loads>> /\ NoMishap

\* readRedis, before the lock and under it: a marker is no value to it.
ReadShared(r) ==
    /\ InPlace(r, {"l2", "recheck"})
    /\ IF l2 # None /\ l2.value > 0
       THEN Take(r, "fill", l2)
       ELSE Go(r, IF InPlace(r, {"l2"}) THEN "null" ELSE "renull")
    /\ UNCHANGED <<db, bloom, l1, l2, mutex, writer, inbox, broadcasts, loads>> /\ NoMishap

\* (mutant) the marker is not looked for.
ReadMarkerOnce(r) ==
    /\ InPlace(r, {"null", "renull"})
    /\ Go(r, IF InPlace(r, {"null"}) THEN "lock" ELSE "load")
    /\ UNCHANGED <<db, bloom, l1, l2, mutex, writer, inbox, broadcasts, loads>> /\ NoMishap

\* isNullCached, a second GET: what it finds may be newer than what readRedis saw.
ReadMarker(r) ==
    /\ InPlace(r, {"null", "renull"})
    /\ IF l2 # None /\ l2.value = 0
       THEN Take(r, "fill", l2)
       ELSE Go(r, IF InPlace(r, {"null"}) THEN "lock" ELSE "load")
    /\ UNCHANGED <<db, bloom, l1, l2, mutex, writer, inbox, broadcasts, loads>> /\ NoMishap

Lock(r) ==
    /\ InPlace(r, {"lock"}) /\ mutex = "free"
    /\ mutex' = r
    /\ Go(r, "recheck")
    /\ UNCHANGED <<db, bloom, l1, l2, writer, inbox, broadcasts, loads>> /\ NoMishap

\* After two seconds of waiting, L2 is looked at once more and that is the answer:
\* nothing, if it is still empty.
GiveUp(r) ==
    /\ InPlace(r, {"lock"}) /\ mutex # "free"
    /\ Go(r, "idle")
    /\ UNCHANGED <<db, bloom, l1, l2, mutex, writer, inbox, broadcasts, loads>> /\ NoMishap

\* AnalystStore.load: a query that fails is no rating, like one that finds none.
Load(r) ==
    /\ InPlace(r, {"load"})
    /\ loads' = loads + 1
    /\ \/ Take(r, "put1", [value |-> db, why |-> "loaded"]) /\ NoMishap
       \/ Take(r, "put1", [value |-> 0, why |-> "failed"])
          /\ Mishap /\ UNCHANGED <<wasted, undone>>
    /\ UNCHANGED <<db, bloom, l1, l2, mutex, writer, inbox, broadcasts>>

\* caffeine.put, of what L2 had or of what was loaded.
PutLocal(r) ==
    /\ InPlace(r, {"fill", "put1"})
    /\ l1' = [l1 EXCEPT ![NodeOf[r]] = reader[r].hand]
    /\ IF InPlace(r, {"fill"}) THEN Go(r, "unlock") ELSE Take(r, "put2", reader[r].hand)
    /\ UNCHANGED <<db, bloom, l2, mutex, writer, inbox, broadcasts, loads>> /\ NoMishap

\* The SET in Redis, on top of what a slow reader may have set.  If it fails, set()
\* swallows that for a value; for a marker it ends in an exception: L2 is as it was,
\* and finally is next either way.
PutShared(r) ==
    /\ InPlace(r, {"put2"})
    /\ Go(r, "unlock")
    /\ \/ /\ l2' = reader[r].hand /\ UNCHANGED <<mishaps, undone>>
          /\ wasted' = IF l2 # None THEN wasted + 1 ELSE wasted
       \/ UNCHANGED <<l2, undone>> /\ Mishap /\ wasted' = wasted + 1
    /\ UNCHANGED <<db, bloom, l1, mutex, writer, inbox, broadcasts, loads>>

\* finally: unlock, if this thread holds the lock (still, or at all).
Unlock(r) ==
    /\ InPlace(r, {"unlock"})
    /\ Go(r, "idle")
    /\ \/ mutex' = (IF mutex = r THEN "free" ELSE mutex) /\ NoMishap
       \/ mutex = r /\ mutex' = "gone" /\ Mishap /\ UNCHANGED <<wasted, undone>>
    /\ UNCHANGED <<db, bloom, l1, l2, writer, inbox, broadcasts, loads>>

\* Redis fails a call before the load, or the thread is interrupted in tryLock.
ReadThrows(r) ==
    /\ InPlace(r, {"gate", "l2", "null", "lock", "recheck", "renull"})
    /\ Go(r, "unlock")
    /\ Mishap
    /\ UNCHANGED <<db, bloom, l1, l2, mutex, writer, inbox, broadcasts, loads>>
    /\ UNCHANGED <<wasted, undone>>

\* The lease, which nobody renews, ends: on a holder that is gone, or is slow.
Lapse ==
    /\ mutex # "free"
    /\ mutex' = "free"
    /\ IF mutex = "gone" THEN NoMishap
       ELSE /\ Mishap
            /\ wasted' = IF Refilling(mutex) THEN wasted + 1 ELSE wasted
            /\ UNCHANGED undone
    /\ UNCHANGED <<db, bloom, l1, l2, reader, writer, inbox, broadcasts, loads>>

-----------------------------------------------------------------------------
(* AnalystServiceImpl.updateAnalyst *)

Writes(w, from, to) == writer[w] = from /\ writer' = [writer EXCEPT ![w] = to]

SaveRating(w) ==
    /\ db < MaxVersion
    /\ db' = db + 1
    /\ Writes(w, "idle", "saved")
    /\ UNCHANGED <<bloom, l1, l2, mutex, reader, inbox, broadcasts, loads>> /\ NoMishap

AddToFilter(w) ==
    /\ Writes(w, "saved", "added")
    /\ bloom' = TRUE
    /\ UNCHANGED <<db, l1, l2, mutex, reader, inbox, broadcasts, loads>> /\ NoMishap

\* CacheClient.delete: first this node's entry ...
ClearLocal(w) ==
    /\ Writes(w, "added", "cleared")
    /\ l1' = [l1 EXCEPT ![NodeOf[w]] = None]
    /\ UNCHANGED <<db, bloom, l2, mutex, reader, inbox, broadcasts, loads>> /\ NoMishap

\* (mutant) delete() clears L1 only, and leaves L2 to its time to live.
DeleteSharedNever(w) ==
    /\ Writes(w, "cleared", "deleted")
    /\ undone' = FALSE
    /\ UNCHANGED <<db, bloom, l1, l2, mutex, reader, inbox, broadcasts, loads>>
    /\ UNCHANGED <<wasted, mishaps>>

\* ... then the shared one.  What a reader has in hand by now may come late.
DeleteShared(w) ==
    /\ Writes(w, "cleared", "deleted")
    /\ l2' = None
    /\ reader' = [r \in Reader |-> [reader[r] EXCEPT !.hand = Marked(@, "late")]]
    /\ loads' = 0
    /\ undone' = FALSE
    /\ UNCHANGED <<db, bloom, l1, mutex, inbox, broadcasts, wasted, mishaps>>

\* ... and the other nodes are told, this one as well; or they are not, for want of
\* a broker or because the broker fails, and the update is answered all the same.
Broadcast(w) ==
    /\ Writes(w, "deleted", "idle")
    /\ \/ broadcasts /\ NoMishap /\ inbox' = [n \in Node |-> inbox[n] + 1] /\ l1' = l1
       \/ /\ IF broadcasts THEN Mishap /\ UNCHANGED <<wasted, undone>> ELSE NoMishap
          /\ l1' = [n \in Node |-> Marked(l1[n], "missed")]
          /\ inbox' = inbox
    /\ UNCHANGED <<db, bloom, l2, mutex, reader, broadcasts, loads>>

\* Redis fails a writer's call: the caller gets an error, the table has the rating.
WriteThrows(w) ==
    /\ writer[w] \in {"saved", "added", "cleared"}
    /\ writer' = [writer EXCEPT ![w] = "idle"]
    /\ undone' = TRUE
    /\ Mishap
    /\ UNCHANGED <<db, bloom, l1, l2, mutex, reader, inbox, broadcasts, loads, wasted>>

-----------------------------------------------------------------------------
(* CacheInvalidateConsumer, times to live, nodes *)

ReceiveInvalidation(n) ==
    /\ inbox[n] > 0
    /\ inbox' = [inbox EXCEPT ![n] = @ - 1]
    /\ l1' = [l1 EXCEPT ![n] = None]
    /\ UNCHANGED <<db, bloom, l2, mutex, reader, writer, broadcasts, loads>> /\ NoMishap

ExpireLocal(n) ==
    /\ l1[n] # None
    /\ l1' = [l1 EXCEPT ![n] = None]
    /\ UNCHANGED <<db, bloom, l2, mutex, reader, writer, inbox, broadcasts, loads>> /\ NoMishap

\* (mutant) the marker is set without its time to live.
ExpireSharedValues ==
    /\ l2 # None /\ l2.value > 0
    /\ l2' = None
    /\ loads' = 0
    /\ UNCHANGED <<db, bloom, l1, mutex, reader, writer, inbox, broadcasts>> /\ NoMishap

ExpireShared ==
    /\ l2 # None
    /\ l2' = None
    /\ loads' = 0
    /\ UNCHANGED <<db, bloom, l1, mutex, reader, writer, inbox, broadcasts>> /\ NoMishap

\* A node dies and comes back: its L1, its threads and its messages are gone, and
\* BloomFilterInitializer adds what the table has.
Restart(n) ==
    /\ Mishap
    /\ bloom' = (bloom \/ db > 0)
    /\ l1' = [m \in Node |->
                IF m = n THEN None
                ELSE IF \E w \in Writer : NodeOf[w] = n /\ writer[w] = "deleted"
                     THEN Marked(l1[m], "missed") ELSE l1[m]]
    /\ inbox' = [inbox EXCEPT ![n] = 0]
    /\ reader' = [r \in Reader |-> IF NodeOf[r] = n THEN IdleReader ELSE reader[r]]
    /\ mutex' = (IF mutex \in Locals(n) THEN "gone" ELSE mutex)
    /\ wasted' = wasted + Cardinality({r \in Locals(n) : Loaded(r)})
    /\ writer' = [w \in Writer |-> IF NodeOf[w] = n THEN "idle" ELSE writer[w]]
    /\ undone' = (undone \/ \E w \in Writer :
                      NodeOf[w] = n /\ writer[w] \in {"saved", "added", "cleared"})
    /\ UNCHANGED <<db, l2, broadcasts, loads>>

-----------------------------------------------------------------------------
ReadSteps(r) ==
    \/ Gate(r) \/ ReadShared(r) \/ ReadMarker(r) \/ Lock(r) \/ GiveUp(r)
    \/ Load(r) \/ PutLocal(r) \/ PutShared(r) \/ Unlock(r)

UpdateSteps(w) == AddToFilter(w) \/ ClearLocal(w) \/ DeleteShared(w) \/ Broadcast(w)

CacheNext ==
    \/ \E r \in Reader : Miss(r) \/ ReadSteps(r) \/ ReadThrows(r)
    \/ \E w \in Writer : SaveRating(w) \/ UpdateSteps(w) \/ WriteThrows(w)
    \/ \E n \in Node : ReceiveInvalidation(n) \/ ExpireLocal(n) \/ Restart(n)
    \/ ExpireShared \/ Lapse

CacheSpec == CacheInit /\ [][CacheNext]_cacheVars

\* Threads that are in a call go on, messages arrive, times to live end.  Nobody
\* has to read, or to update.
FairCacheSpec ==
    /\ CacheSpec
    /\ \A r \in Reader : WF_cacheVars(ReadSteps(r))
    /\ \A w \in Writer : WF_cacheVars(UpdateSteps(w))
    /\ \A n \in Node : WF_cacheVars(ReceiveInvalidation(n)) /\ WF_cacheVars(ExpireLocal(n))
    /\ WF_cacheVars(ExpireShared)
=============================================================================
