------------------------------ MODULE ModelProofs ------------------------------
(******************************************************************************)
(* Models: calling them behind circuit breakers, and choosing them.            *)
(*                                                                             *)
(* The breaker and its callers, for any candidates and policy: the argument    *)
(* rests on two accounts.  The counts a circuit keeps never exceed the         *)
(* outcomes that were reported in a row (Backed), and an invocation holds a    *)
(* slot of at most the circuit it is calling (Holders).                        *)
(*                                                                             *)
(* The settings, for any tenants, requests, catalogues and rings of keys:      *)
(* what a request has found stays what it was found for (Findings), and a      *)
(* request that is alone with a setting has found all there is of it; a row    *)
(* was acceptable when it was set, and what is served is what the chain named  *)
(* and the credentials resolved to.  No induction over data is needed, since   *)
(* a catalogue is read by positions and the first is a least number.           *)
(******************************************************************************)
EXTENDS ModelInvokerProperties, ModelSettingsProperties, FiniteSumTheorems, TLAPS

Busy(c) == call[c].pc \in {"resolving", "sent"}

\* A busy invocation is at a candidate of its chain, and every candidate passed,
\* skipped or tried, left at least one entry.
Places ==
    \A c \in Invocation :
        /\ Busy(c) => call[c].at \in 1..Len(Chain[c])
        /\ call[c].tries >= call[c].at - 1
        /\ call[c].served > 0 => call[c].tries >= call[c].served

Backed ==
    \A k \in Key : /\ State(k) = "closed" => circuit[k].failures <= failed[k]
                   /\ circuit[k].successes <= worked[k]

Holders ==
    \A k \in Key : /\ IsFiniteSet(probing[k])
                   /\ State(k) # "half_open" => probing[k] = {}
                   /\ \A c \in probing[k] : Busy(c) /\ KeyOf(c) = k

IInv == /\ TypeOK /\ Places /\ Backed /\ Holders /\ SlotsAreHeldOrLeaked /\ NoSurge

-----------------------------------------------------------------------------
THEOREM InitHolds == Init => IInv
  BY PolicyAssumption, InvokerAssumption, FS_EmptySet
     DEF Init, BreakerInit, IInv, TypeOK, Places, Backed, Holders, SlotsAreHeldOrLeaked, NoSurge,
         NoCall, Place, Call, Circuit, Closed, State, Busy

-----------------------------------------------------------------------------
(* The circuits *)

LEMMA BusyHasKey ==
  ASSUME TypeOK, Places, NEW c \in Invocation, Busy(c) \/ call[c].at <= Len(Chain[c])
  PROVE  KeyOf(c) \in Key
  BY InvokerAssumption DEF TypeOK, Places, KeyOf, Busy, Call

LEMMA AdmittedIsCircuit ==
  ASSUME NEW x \in Circuit, x.state = "half_open" => x.probes < HalfOpenMaxCalls
  PROVE  Admitted(x) \in Circuit
  BY PolicyAssumption DEF Circuit, Admitted, Record

LEMMA AfterSuccessIsCircuit ==
  ASSUME NEW x \in Circuit
  PROVE  AfterSuccess(x) \in Circuit
  <1>1. CASE x.state = "half_open" /\ x.successes + 1 >= SuccessThreshold
    BY <1>1, PolicyAssumption DEF Circuit, AfterSuccess, Record, Closed
  <1>2. CASE x.state = "half_open" /\ ~(x.successes + 1 >= SuccessThreshold)
    BY <1>2, PolicyAssumption DEF Circuit, AfterSuccess, Record
  <1>3. CASE x.state # "half_open"
    BY <1>3, PolicyAssumption DEF Circuit, AfterSuccess, Record
  <1> QED  BY <1>1, <1>2, <1>3

LEMMA AfterFailureIsCircuit ==
  ASSUME NEW x \in Circuit
  PROVE  AfterFailure(x) \in Circuit
  <1>1. CASE x.state = "half_open"
    BY <1>1, PolicyAssumption DEF Circuit, AfterFailure, OneMore, Record
  <1>2. CASE x.state # "half_open" /\ x.failures < FailureThreshold
    BY <1>2, PolicyAssumption DEF Circuit, AfterFailure, OneMore, Record
  <1>3. CASE x.state # "half_open" /\ ~(x.failures < FailureThreshold)
    BY <1>3, PolicyAssumption DEF Circuit, AfterFailure, OneMore, Record
  <1> QED  BY <1>1, <1>2, <1>3

-----------------------------------------------------------------------------
(* One invocation moves *)

\* p is a legal place for c to go to.
Legal(c, p) ==
    /\ p \in Call
    /\ p.at \in 1..(Len(Chain[c]) + 1)
    /\ p.attempt \in 1..MaxAttempts
    /\ p.served \in 0..Len(Chain[c])
    /\ p.pc \in {"resolving", "sent"} => p.at \in 1..Len(Chain[c])
    /\ p.tries >= p.at - 1
    /\ p.served > 0 => p.tries >= p.served

Moves(c, p) == Legal(c, p) /\ call' = [call EXCEPT ![c] = p]

LEMMA MovesKeepPlaces ==
  ASSUME TypeOK, Places, NEW c \in Invocation, NEW p, Moves(c, p)
  PROVE  /\ Places'
         /\ call' \in [Invocation -> Call]
         /\ \A d \in Invocation :
              /\ call'[d].at \in 1..(Len(Chain[d]) + 1)
              /\ call'[d].attempt \in 1..MaxAttempts
              /\ call'[d].served \in 0..Len(Chain[d])
         /\ call'[c] = p
         /\ \A d \in Invocation : d # c => call'[d] = call[d]
  <1>1. call' \in [Invocation -> Call] /\ call'[c] = p
    BY DEF TypeOK, Moves, Legal
  <1>2. \A d \in Invocation : d # c => call'[d] = call[d]
    BY DEF TypeOK, Moves, Legal
  <1>3. \A d \in Invocation :
              /\ call'[d].at \in 1..(Len(Chain[d]) + 1)
              /\ call'[d].attempt \in 1..MaxAttempts
              /\ call'[d].served \in 0..Len(Chain[d])
    BY <1>1, <1>2 DEF TypeOK, Moves, Legal
  <1>4. Places'
    BY <1>1, <1>2 DEF Places, Moves, Legal, Busy
  <1> QED  BY <1>1, <1>2, <1>3, <1>4

\* A step that leaves the breaker and its account alone.
LEMMA QuietStep ==
  ASSUME IInv, UNCHANGED <<breakerVars, historyVars>>,
         NEW c \in Invocation, NEW p, Moves(c, p),
         Busy(c) => p.pc \in {"resolving", "sent"} /\ p.at = call[c].at
  PROVE  IInv'
  <1>1. /\ Places' /\ TypeOK' /\ call'[c] = p
        /\ \A d \in Invocation : d # c => call'[d] = call[d]
    BY MovesKeepPlaces DEF IInv, TypeOK, breakerVars, historyVars
  <1>2. Backed' /\ SlotsAreHeldOrLeaked' /\ NoSurge'
    BY DEF IInv, Backed, SlotsAreHeldOrLeaked, NoSurge, State, breakerVars, historyVars
  <1>3. \A d \in Invocation : Busy(d) => Busy(d)' /\ KeyOf(d)' = KeyOf(d)
    BY <1>1 DEF Busy, KeyOf
  <1>4. Holders'
    <2>1. \A k \in Key : probing[k] \subseteq Invocation
      BY DEF IInv, TypeOK
    <2> QED  BY <1>3, <2>1 DEF IInv, Holders, State, breakerVars, historyVars
  <1> QED  BY <1>1, <1>2, <1>4 DEF IInv

LEMMA BeginHolds == ASSUME IInv, NEW c \in Invocation, Begin(c) PROVE IInv'
  <1> DEFINE p == Place("choose", 1, 1, 0, 0)
  <1>1. Moves(c, p)
    BY InvokerAssumption DEF Begin, Moves, Legal, Place, Call
  <1>2. ~Busy(c) /\ UNCHANGED <<breakerVars, historyVars>>
    BY DEF Begin, Busy
  <1> QED  BY <1>1, <1>2, QuietStep

\* The place after a candidate that is given up.
LEMMA NextCandidateMoves ==
  ASSUME TypeOK, Places, NEW c \in Invocation, call[c].at <= Len(Chain[c]), NextCandidate(c, 1)
  PROVE  Moves(c, Place("choose", call[c].at + 1, 1, call[c].tries + 1, 0))
  <1>1. call[c] \in Call /\ call[c].at \in 1..Len(Chain[c]) /\ call[c].tries >= call[c].at - 1
    BY InvokerAssumption DEF TypeOK, Places
  <1>2. Legal(c, Place("choose", call[c].at + 1, 1, call[c].tries + 1, 0))
    BY <1>1, InvokerAssumption DEF Legal, Place, Call
  <1> QED  BY <1>2 DEF Moves, NextCandidate

LEMMA SkipHolds == ASSUME IInv, NEW c \in Invocation, Skip(c) PROVE IInv'
  <1>1. call[c].at <= Len(Chain[c]) /\ NextCandidate(c, 1) /\ ~Busy(c)
        /\ UNCHANGED <<breakerVars, historyVars>>
    BY DEF Skip, Busy
  <1>2. Moves(c, Place("choose", call[c].at + 1, 1, call[c].tries + 1, 0))
    BY <1>1, NextCandidateMoves DEF IInv
  <1> QED  BY <1>1, <1>2, QuietStep

LEMMA ExhaustHolds == ASSUME IInv, NEW c \in Invocation, Exhaust(c) PROVE IInv'
  <1> DEFINE p == [call[c] EXCEPT !.pc = "over"]
  <1>1. Moves(c, p)
    BY InvokerAssumption DEF Exhaust, Moves, Legal, Call, IInv, TypeOK, Places
  <1>2. ~Busy(c) /\ UNCHANGED <<breakerVars, historyVars>>
    BY DEF Exhaust, Busy
  <1> QED  BY <1>1, <1>2, QuietStep

LEMMA ResolveHolds == ASSUME IInv, NEW c \in Invocation, Resolve(c) PROVE IInv'
  <1> DEFINE p == [call[c] EXCEPT !.pc = "sent"]
  <1>1. /\ Moves(c, p)
        /\ Busy(c) => p.pc \in {"resolving", "sent"} /\ p.at = call[c].at
    BY InvokerAssumption DEF Resolve, Moves, Legal, Call, Busy, IInv, TypeOK, Places
  <1>2. UNCHANGED <<breakerVars, historyVars>>
    BY DEF Resolve
  <1> QED  BY <1>1, <1>2, QuietStep

-----------------------------------------------------------------------------
(* One circuit and its account *)

KeyInv(k) ==
    /\ State(k) = "closed" => circuit[k].failures <= failed[k]
    /\ circuit[k].successes <= worked[k]
    /\ IsFiniteSet(probing[k])
    /\ State(k) # "half_open" => probing[k] = {}
    /\ \A c \in probing[k] : Busy(c) /\ KeyOf(c) = k
    /\ State(k) = "half_open" =>
         /\ circuit[k].probes <= Cardinality(probing[k]) + leaked[k]
         /\ Cardinality(probing[k]) <= circuit[k].probes + circuit[k].successes

LEMMA ByKeys ==
  IInv <=> TypeOK /\ Places /\ \A k \in Key : KeyInv(k)
  BY DEF IInv, Backed, Holders, SlotsAreHeldOrLeaked, NoSurge, KeyInv

LEMMA ByKeysNext ==
  ASSUME TypeOK', Places', \A k \in Key : KeyInv(k)'
  PROVE  IInv'
  BY DEF IInv, Backed, Holders, SlotsAreHeldOrLeaked, NoSurge, KeyInv

\* What k's circuit and account are after a step.
Becomes(k, ci, fa, wo, pr, le) ==
    /\ circuit' = [circuit EXCEPT ![k] = ci]
    /\ failed' = [failed EXCEPT ![k] = fa]
    /\ worked' = [worked EXCEPT ![k] = wo]
    /\ probing' = [probing EXCEPT ![k] = pr]
    /\ leaked' = [leaked EXCEPT ![k] = le]

\* A step of c on one circuit leaves the others as they were.
LEMMA OneCircuit ==
  ASSUME IInv, NEW k \in Key, NEW ci \in Circuit, NEW fa \in 0..FailureThreshold,
         NEW wo \in 0..SuccessThreshold, NEW pr \in SUBSET Invocation, NEW le \in Nat,
         Becomes(k, ci, fa, wo, pr, le), due' \in [Key -> BOOLEAN],
         NEW c \in Invocation, NEW p, Moves(c, p), Busy(c) => KeyOf(c) = k,
         KeyInv(k)'
  PROVE  IInv'
  <1> USE DEF Becomes
  <1>1. /\ TypeOK' /\ Places' /\ \A d \in Invocation : d # c => call'[d] = call[d]
    BY MovesKeepPlaces DEF IInv, TypeOK
  <1>2. ASSUME NEW j \in Key, j # k PROVE KeyInv(j)'
    <2>1. /\ circuit'[j] = circuit[j] /\ failed'[j] = failed[j] /\ worked'[j] = worked[j]
          /\ probing'[j] = probing[j] /\ leaked'[j] = leaked[j]
      BY <1>2 DEF IInv, TypeOK
    <2>2. KeyInv(j)
      BY ByKeys
    <2>3. \A d \in probing[j] : d \in Invocation /\ d # c
      BY <1>2, <2>2 DEF IInv, TypeOK, KeyInv
    <2>4. \A d \in probing[j] : (Busy(d) /\ KeyOf(d) = j)'
      BY <1>1, <2>2, <2>3 DEF KeyInv, Busy, KeyOf
    <2> QED  BY <2>1, <2>2, <2>4 DEF KeyInv, State
  <1> QED  BY <1>1, <1>2, ByKeysNext

LEMMA RemovedSlot ==
  ASSUME NEW S, NEW c, IsFiniteSet(S)
  PROVE  /\ IsFiniteSet(S \ {c})
         /\ Cardinality(S) \in Nat /\ Cardinality(S \ {c}) \in Nat
         /\ Cardinality(S \ {c}) = IF c \in S THEN Cardinality(S) - 1 ELSE Cardinality(S)
  BY FS_RemoveElement, FS_CardinalityType

LEMMA SilenceHolds ==
  ASSUME IInv, NEW c \in Invocation, Busy(c), NEW p, Moves(c, p),
         p.pc \notin {"resolving", "sent"}, NoteSilence(c, KeyOf(c)), UNCHANGED breakerVars
  PROVE  IInv'
  <1>1. PICK k \in Key : k = KeyOf(c)
    BY BusyHasKey DEF IInv
  <1> DEFINE le == IF c \in probing[k] THEN leaked[k] + 1 ELSE leaked[k]
  <1>2. KeyInv(k) /\ TypeOK
    BY ByKeys
  <1>3. Becomes(k, circuit[k], failed[k], worked[k], probing[k] \ {c}, le)
    BY <1>1, <1>2 DEF Becomes, NoteSilence, breakerVars, TypeOK
  <1>4. \A d \in Invocation : d # c => call'[d] = call[d]
    BY MovesKeepPlaces DEF IInv
  <1>5. KeyInv(k)'
    <2>1. /\ circuit'[k] = circuit[k] /\ failed'[k] = failed[k] /\ worked'[k] = worked[k]
          /\ probing'[k] = probing[k] \ {c} /\ leaked'[k] = le
      BY <1>2, <1>3 DEF Becomes, TypeOK
    <2>2. \A d \in probing[k] \ {c} : (Busy(d) /\ KeyOf(d) = k)'
      BY <1>2, <1>4 DEF KeyInv, Busy, KeyOf, TypeOK
    <2>3. /\ IsFiniteSet(probing[k] \ {c}) /\ Cardinality(probing[k]) \in Nat
          /\ Cardinality(probing[k] \ {c}) =
               IF c \in probing[k] THEN Cardinality(probing[k]) - 1 ELSE Cardinality(probing[k])
      BY <1>2, RemovedSlot DEF KeyInv
    <2>4. leaked[k] \in Nat /\ circuit[k].probes \in Nat /\ circuit[k].successes \in Nat
      BY <1>2, PolicyAssumption DEF TypeOK, Circuit
    <2> QED  BY <1>2, <2>1, <2>2, <2>3, <2>4 DEF KeyInv, State
  <1>6. /\ circuit[k] \in Circuit /\ failed[k] \in 0..FailureThreshold
        /\ worked[k] \in 0..SuccessThreshold /\ probing[k] \ {c} \in SUBSET Invocation
        /\ le \in Nat /\ due' \in [Key -> BOOLEAN]
    BY <1>2 DEF TypeOK, breakerVars
  <1> HIDE DEF le
  <1> QED  BY <1>1, <1>3, <1>5, <1>6, OneCircuit

LEMMA CancelHolds == ASSUME IInv, NEW c \in Invocation, Cancel(c) PROVE IInv'
  <1>1. Moves(c, NoCall)
    BY InvokerAssumption DEF Cancel, Moves, Legal, NoCall, Place, Call
  <1>2. Busy(c) /\ NoCall.pc = "none"
    BY DEF Cancel, Busy, NoCall, Place
  <1> QED  BY <1>1, <1>2, SilenceHolds DEF Cancel

LEMMA NoCredentialHolds == ASSUME IInv, NEW c \in Invocation, NoCredential(c) PROVE IInv'
  <1> DEFINE p == Place("choose", call[c].at + 1, 1, call[c].tries + 1, 0)
  <1>1. Busy(c) /\ call[c].at <= Len(Chain[c])
    BY InvokerAssumption DEF NoCredential, Busy, IInv, Places
  <1>2. Moves(c, p)
    BY <1>1, NextCandidateMoves DEF IInv, NoCredential
  <1>3. p.pc = "choose"
    BY DEF Place
  <1> HIDE DEF p
  <1> QED  BY <1>1, <1>2, <1>3, SilenceHolds DEF NoCredential

-----------------------------------------------------------------------------
(* Outcomes *)

LEMMA AnsweredHolds == ASSUME IInv, NEW c \in Invocation, Answered(c) PROVE IInv'
  <1>1. PICK k \in Key : k = KeyOf(c)
    BY BusyHasKey DEF IInv, Answered, Busy
  <1>2. KeyInv(k) /\ TypeOK /\ Busy(c) /\ Places
    BY ByKeys DEF Answered, Busy
  <1> DEFINE ci == AfterSuccess(circuit[k])
             wo == IF worked[k] < SuccessThreshold THEN worked[k] + 1 ELSE worked[k]
             pr == IF ci.state = "half_open" THEN probing[k] \ {c} ELSE {}
             le == IF ci.state = "half_open" THEN leaked[k] ELSE 0
             p == Place("over", call[c].at, call[c].attempt, call[c].tries + 1, call[c].at)
  <1>3. Moves(c, p)
    BY <1>2, InvokerAssumption DEF Answered, Moves, Legal, Place, Call, TypeOK, Places
  <1>4. circuit'[k] = ci
    BY <1>1, <1>2 DEF Answered, RecordSuccess, TypeOK
  <1>5. Becomes(k, ci, 0, wo, pr, le) /\ due' = due
    BY <1>1, <1>2, <1>4 DEF Becomes, Answered, RecordSuccess, NoteSuccess, CountUp, TypeOK
  <1>6. \A d \in Invocation : d # c => call'[d] = call[d]
    BY <1>3, MovesKeepPlaces DEF IInv
  <1>7. /\ failed'[k] = 0 /\ worked'[k] = wo /\ probing'[k] = pr /\ leaked'[k] = le
    BY <1>2, <1>5 DEF Becomes, TypeOK
  <1>8. /\ ci \in Circuit /\ 0 \in 0..FailureThreshold /\ wo \in 0..SuccessThreshold
        /\ pr \in SUBSET Invocation /\ le \in Nat /\ due' \in [Key -> BOOLEAN]
    BY <1>2, <1>5, AfterSuccessIsCircuit, PolicyAssumption DEF TypeOK
  <1>9. KeyInv(k)'
    <2>1. /\ IsFiniteSet(probing[k] \ {c}) /\ Cardinality(probing[k]) \in Nat
          /\ Cardinality(probing[k] \ {c}) \in Nat
          /\ Cardinality(probing[k] \ {c}) =
               IF c \in probing[k] THEN Cardinality(probing[k]) - 1 ELSE Cardinality(probing[k])
      BY <1>2, RemovedSlot DEF KeyInv
    <2>2. /\ circuit[k] \in Circuit /\ leaked[k] \in Nat /\ worked[k] \in 0..SuccessThreshold
      BY <1>2 DEF TypeOK
    <2>3. CASE ci.state = "half_open"
      <3>1. /\ circuit[k].state = "half_open" /\ ci.successes = circuit[k].successes + 1
            /\ ci.probes = IF circuit[k].probes > 0 THEN circuit[k].probes - 1 ELSE 0
            /\ circuit[k].successes + 1 < SuccessThreshold
        BY <2>3, <2>2, PolicyAssumption DEF AfterSuccess, Record, Closed, Circuit
      <3>2. \A d \in probing[k] \ {c} : (Busy(d) /\ KeyOf(d) = k)'
        BY <1>2, <1>6 DEF KeyInv, Busy, KeyOf, TypeOK
      <3>3. /\ circuit[k].probes \in Nat /\ circuit[k].successes \in Nat
            /\ circuit[k].successes <= worked[k]
        BY <1>2, <2>2, PolicyAssumption DEF Circuit, KeyInv
      <3>4. pr = probing[k] \ {c} /\ le = leaked[k]
        BY <2>3
      <3>5. ci.successes <= wo
        BY <3>1, <3>3, <2>2, PolicyAssumption
      <3>6. /\ circuit[k].probes <= Cardinality(probing[k]) + leaked[k]
            /\ Cardinality(probing[k]) <= circuit[k].probes + circuit[k].successes
        BY <1>2, <3>1 DEF KeyInv, State
      <3> HIDE DEF ci, wo, pr, le
      <3>7. /\ ci.probes <= Cardinality(probing[k] \ {c}) + leaked[k]
            /\ Cardinality(probing[k] \ {c}) <= ci.probes + ci.successes
        BY <2>1, <2>2, <3>1, <3>3, <3>6
      <3> QED  BY <1>4, <1>7, <2>1, <2>3, <3>2, <3>4, <3>5, <3>7 DEF KeyInv, State
    <2>4. CASE ci.state # "half_open"
      <3>1. pr = {} /\ le = 0 /\ ci.failures = 0
        BY <2>4, <2>2 DEF AfterSuccess, Record, Closed, Circuit
      <3>2. ci.successes <= wo
        BY <1>2, <2>2, PolicyAssumption DEF AfterSuccess, Record, Closed, Circuit, KeyInv
      <3> HIDE DEF ci, wo, pr, le
      <3> QED  BY <1>4, <1>7, <2>4, <3>1, <3>2, FS_EmptySet DEF KeyInv, State
    <2> QED  BY <2>3, <2>4
  <1> HIDE DEF ci, wo, pr, le, p
  <1> QED  BY <1>1, <1>3, <1>5, <1>8, <1>9, OneCircuit

LEMMA AddedSlot ==
  ASSUME NEW S, NEW c, IsFiniteSet(S), c \notin S
  PROVE  /\ IsFiniteSet(S \cup {c})
         /\ Cardinality(S) \in Nat
         /\ Cardinality(S \cup {c}) = Cardinality(S) + 1
  BY FS_AddElement, FS_CardinalityType

LEMMA LetThroughHolds == ASSUME IInv, NEW c \in Invocation, LetThrough(c) PROVE IInv'
  <1>1. PICK k \in Key : k = KeyOf(c)
    BY BusyHasKey DEF IInv, LetThrough
  <1>2. KeyInv(k) /\ TypeOK /\ ~Busy(c) /\ Places
    BY ByKeys DEF LetThrough, Busy
  <1>3. /\ circuit[k] \in Circuit /\ leaked[k] \in Nat /\ worked[k] \in 0..SuccessThreshold
        /\ failed[k] \in 0..FailureThreshold /\ probing[k] \in SUBSET Invocation
    BY <1>2 DEF TypeOK
  <1> DEFINE ci == Admitted(circuit[k])
             pr == IF State(k) = "closed" THEN probing[k]
                   ELSE IF State(k) = "open" THEN {c} ELSE probing[k] \cup {c}
             le == IF State(k) = "open" THEN 0 ELSE leaked[k]
             p == [call[c] EXCEPT !.pc = "resolving"]
  <1>4. Moves(c, p) /\ p.pc = "resolving" /\ p.at = call[c].at
    <2>1. /\ call[c] \in Call /\ call[c].at \in 1..(Len(Chain[c]) + 1)
          /\ call[c].attempt \in 1..MaxAttempts /\ call[c].served \in 0..Len(Chain[c])
          /\ call[c].tries >= call[c].at - 1
          /\ call[c].served > 0 => call[c].tries >= call[c].served
          /\ call[c].at <= Len(Chain[c])
      BY <1>2 DEF LetThrough, TypeOK, Places
    <2>2. /\ p \in Call /\ p.pc = "resolving" /\ p.at = call[c].at /\ p.attempt = call[c].attempt
          /\ p.tries = call[c].tries /\ p.served = call[c].served
      BY <2>1 DEF Call
    <2>3. call' = [call EXCEPT ![c] = p]
      BY <1>2 DEF LetThrough, TypeOK
    <2> HIDE DEF p
    <2> QED  BY <2>1, <2>2, <2>3, InvokerAssumption DEF Moves, Legal
  <1>5. Becomes(k, ci, failed[k], worked[k], pr, le) /\ due' = due
    BY <1>1, <1>2 DEF Becomes, LetThrough, Admit, NoteAdmission, TypeOK
  <1>6. /\ circuit'[k] = ci /\ failed'[k] = failed[k] /\ worked'[k] = worked[k]
        /\ probing'[k] = pr /\ leaked'[k] = le
    BY <1>2, <1>5 DEF Becomes, TypeOK
  <1>7. State(k) = "half_open" => circuit[k].probes < HalfOpenMaxCalls
    BY <1>1 DEF LetThrough, Admit, Allows
  <1>8. /\ ci \in Circuit /\ pr \in SUBSET Invocation
        /\ le \in Nat /\ due' \in [Key -> BOOLEAN]
    BY <1>2, <1>3, <1>5, <1>7, AdmittedIsCircuit DEF TypeOK, State
  <1>9. /\ call'[c] = p /\ \A d \in Invocation : d # c => call'[d] = call[d]
    BY <1>4, MovesKeepPlaces DEF IInv
  <1>10. /\ c \notin probing[k] /\ (Busy(c) /\ KeyOf(c) = k)'
         /\ \A d \in probing[k] : (Busy(d) /\ KeyOf(d) = k)'
    <2>1. c \notin probing[k]
      BY <1>2 DEF KeyInv
    <2>2. (Busy(c) /\ KeyOf(c) = k)'
      BY <1>1, <1>4, <1>9 DEF Busy, KeyOf
    <2>3. \A d \in probing[k] : (Busy(d) /\ KeyOf(d) = k)'
      BY <1>2, <1>3, <1>9, <2>1 DEF KeyInv, Busy, KeyOf
    <2> QED  BY <2>1, <2>2, <2>3
  <1>11. KeyInv(k)'
    <2>1. CASE State(k) = "closed"
      <3>1. ci = circuit[k] /\ pr = probing[k] /\ le = leaked[k]
        BY <2>1 DEF Admitted, State
      <3> HIDE DEF ci, pr, le
      <3> QED  BY <1>2, <1>6, <1>10, <2>1, <3>1 DEF KeyInv, State
    <2>2. CASE State(k) = "open"
      <3>1. /\ ci.state = "half_open" /\ ci.probes = 1 /\ ci.successes = 0
            /\ pr = {c} /\ le = 0
        BY <2>2 DEF Admitted, State, Record
      <3>2. IsFiniteSet({c}) /\ Cardinality({c}) = 1
        BY FS_Singleton
      <3> HIDE DEF ci, pr, le
      <3> QED  BY <1>3, <1>6, <1>10, <3>1, <3>2, PolicyAssumption DEF KeyInv, State
    <2>3. CASE State(k) = "half_open"
      <3>1. /\ ci.state = "half_open" /\ ci.probes = circuit[k].probes + 1
            /\ ci.successes = circuit[k].successes /\ pr = probing[k] \cup {c} /\ le = leaked[k]
        BY <2>3 DEF Admitted, State, Record
      <3>2. /\ IsFiniteSet(probing[k] \cup {c}) /\ Cardinality(probing[k]) \in Nat
            /\ Cardinality(probing[k] \cup {c}) = Cardinality(probing[k]) + 1
        BY <1>2, <1>10, AddedSlot DEF KeyInv
      <3>3. /\ circuit[k].probes <= Cardinality(probing[k]) + leaked[k]
            /\ Cardinality(probing[k]) <= circuit[k].probes + circuit[k].successes
            /\ circuit[k].successes <= worked[k]
            /\ circuit[k].probes \in Nat /\ circuit[k].successes \in Nat
        BY <1>2, <1>3, <2>3, PolicyAssumption DEF KeyInv, State, Circuit
      <3> HIDE DEF ci, pr, le
      <3>4. /\ ci.probes <= Cardinality(probing[k] \cup {c}) + leaked[k]
            /\ Cardinality(probing[k] \cup {c}) <= ci.probes + ci.successes
        BY <1>3, <3>1, <3>2, <3>3
      <3> QED  BY <1>6, <1>10, <3>1, <3>2, <3>3, <3>4 DEF KeyInv, State
    <2> QED  BY <1>3, <2>1, <2>2, <2>3 DEF State, Circuit
  <1> HIDE DEF ci, pr, le, p
  <1> QED  BY <1>1, <1>2, <1>3, <1>4, <1>5, <1>8, <1>11, OneCircuit

LEMMA RefusedHolds ==
  ASSUME IInv, NEW c \in Invocation, NEW retryable \in BOOLEAN, Refused(c, retryable)
  PROVE  IInv'
  <1>1. PICK k \in Key : k = KeyOf(c)
    BY BusyHasKey DEF IInv, Refused, Busy
  <1>2. KeyInv(k) /\ TypeOK /\ Busy(c) /\ Places
    BY ByKeys DEF Refused, Busy
  <1>3. /\ circuit[k] \in Circuit /\ failed[k] \in 0..FailureThreshold
        /\ call[c] \in Call /\ call[c].at \in 1..Len(Chain[c])
    BY <1>2 DEF TypeOK, Places
  <1> DEFINE ci == AfterFailure(circuit[k])
             fa == IF failed[k] < FailureThreshold THEN failed[k] + 1 ELSE failed[k]
             again == Place("sent", call[c].at, call[c].attempt + 1, call[c].tries + 1, 0)
             next == Place("choose", call[c].at + 1, 1, call[c].tries + 1, 0)
  <1>4. Moves(c, again) \/ Moves(c, next)
    <2>1. CASE retryable /\ call[c].attempt < MaxAttempts
      <3>1. Legal(c, again)
        BY <1>2, <1>3, <2>1, InvokerAssumption DEF Legal, Place, Call, TypeOK, Places
      <3> QED  BY <2>1, <3>1 DEF Refused, Moves
    <2>2. CASE ~(retryable /\ call[c].attempt < MaxAttempts)
      <3>1. NextCandidate(c, 1) /\ call[c].at <= Len(Chain[c])
        BY <1>3, <2>2, InvokerAssumption DEF Refused
      <3> QED  BY <1>2, <3>1, NextCandidateMoves
    <2> QED  BY <2>1, <2>2
  <1>5. Becomes(k, ci, fa, 0, {}, 0)
    BY <1>1, <1>2 DEF Becomes, Refused, RecordFailure, NoteFailure, CountUp, TypeOK
  <1>6. due' \in [Key -> BOOLEAN]
    BY <1>1, <1>2 DEF Refused, RecordFailure, TypeOK
  <1>7. /\ circuit'[k] = ci /\ failed'[k] = fa /\ worked'[k] = 0
        /\ probing'[k] = {} /\ leaked'[k] = 0
    BY <1>2, <1>5 DEF Becomes, TypeOK
  <1>8. ci \in Circuit /\ fa \in 0..FailureThreshold /\ 0 \in 0..SuccessThreshold
    BY <1>3, AfterFailureIsCircuit, PolicyAssumption
  <1>9. KeyInv(k)'
    <2>1. ci.state # "half_open" /\ ci.successes = 0
      BY <1>3 DEF AfterFailure, Record, Circuit
    <2>2. ci.state = "closed" => ci.failures <= fa
      BY <1>2, <1>3, PolicyAssumption DEF AfterFailure, OneMore, Record, Circuit, KeyInv, State
    <2> HIDE DEF ci, fa
    <2> QED  BY <1>7, <2>1, <2>2, FS_EmptySet DEF KeyInv, State
  <1> HIDE DEF ci, fa, again, next
  <1>10. {} \in SUBSET Invocation /\ 0 \in Nat
    OBVIOUS
  <1> QED  BY <1>1, <1>4, <1>5, <1>6, <1>8, <1>9, <1>10, OneCircuit

-----------------------------------------------------------------------------
(* Steps of no invocation *)

LEMMA TimePassesHolds == ASSUME IInv, NEW k \in Key, TimePasses(k) PROVE IInv'
  BY DEF TimePasses, RecoveryElapses, historyVars, IInv, TypeOK, Places, Backed, Holders,
         SlotsAreHeldOrLeaked, NoSurge, State, Busy, KeyOf

LEMMA OperatorResetsHolds == ASSUME IInv, NEW k \in Key, OperatorResets(k) PROVE IInv'
  <1> USE DEF OperatorResets, Reset
  <1>1. /\ TypeOK /\ Places /\ Closed \in Circuit
    BY PolicyAssumption DEF IInv, Circuit, Closed
  <1>2. TypeOK' /\ Places'
    BY <1>1 DEF TypeOK, Places, Busy
  <1>3. KeyInv(k)'
    <2>1. circuit'[k] = Closed /\ probing'[k] = {}
          /\ failed[k] \in 0..FailureThreshold /\ worked[k] \in 0..SuccessThreshold
      BY <1>1 DEF TypeOK
    <2>2. failed[k] >= 0 /\ worked[k] >= 0
      BY <2>1, PolicyAssumption
    <2> QED  BY <2>1, <2>2, FS_EmptySet DEF KeyInv, State, Closed
  <1>4. ASSUME NEW j \in Key, j # k PROVE KeyInv(j)'
    <2>1. /\ circuit'[j] = circuit[j] /\ probing'[j] = probing[j] /\ leaked'[j] = leaked[j]
      BY <1>1, <1>4 DEF TypeOK
    <2>2. KeyInv(j)
      BY ByKeys
    <2> QED  BY <2>1, <2>2 DEF KeyInv, State, Busy, KeyOf
  <1> QED  BY <1>2, <1>3, <1>4, ByKeysNext

LEMMA NextHolds == ASSUME IInv, [Next]_vars PROVE IInv'
  <1>1. ASSUME NEW c \in Invocation, Begin(c) PROVE IInv'
    BY <1>1, BeginHolds
  <1>2. ASSUME NEW c \in Invocation, Cancel(c) PROVE IInv'
    BY <1>2, CancelHolds
  <1>3. ASSUME NEW c \in Invocation, Proceed(c) PROVE IInv'
    BY <1>3, LetThroughHolds, SkipHolds, ExhaustHolds, ResolveHolds, NoCredentialHolds,
       AnsweredHolds, RefusedHolds DEF Proceed
  <1>4. ASSUME NEW k \in Key, TimePasses(k) \/ OperatorResets(k) PROVE IInv'
    BY <1>4, TimePassesHolds, OperatorResetsHolds
  <1>5. CASE UNCHANGED vars
    BY <1>5 DEF vars, breakerVars, historyVars, IInv, TypeOK, Places, Backed, Holders,
                SlotsAreHeldOrLeaked, NoSurge, State, Busy, KeyOf
  <1> QED  BY <1>1, <1>2, <1>3, <1>4, <1>5 DEF Next

-----------------------------------------------------------------------------
\* The invariant holds of every reachable state.
THEOREM InductiveInvariant == Spec => []IInv
  BY InitHolds, NextHolds, PTL DEF Spec

\* Every variable keeps to its type, so a count never leaves its limits.
THEOREM TypeCorrect == Spec => []TypeOK
  <1>1. IInv => TypeOK
    BY DEF IInv
  <1> QED  BY <1>1, InductiveInvariant, PTL

\* A slot of a half-open circuit is held by a call under way or was leaked by one
\* that ended unreported, for any number of tenants, calls and providers.
THEOREM SlotsTheorem == Spec => []SlotsAreHeldOrLeaked
  <1>1. IInv => SlotsAreHeldOrLeaked
    BY DEF IInv
  <1> QED  BY <1>1, InductiveInvariant, PTL

\* A recovering provider meets no surge.
THEOREM SurgeTheorem == Spec => []NoSurge
  <1>1. IInv => NoSurge
    BY DEF IInv
  <1> QED  BY <1>1, InductiveInvariant, PTL

\* An answer of another model than the first choice is reported as degraded.
THEOREM FallbackTheorem == Spec => []FallbacksAreReported
  <1>1. IInv => FallbacksAreReported
    BY InvokerAssumption DEF IInv, Places, TypeOK, Call, FallbacksAreReported, Degraded
  <1> QED  BY <1>1, InductiveInvariant, PTL

-----------------------------------------------------------------------------
(* No circuit changes without its cause *)

Caused(j) == OpensForCause(j) /\ ClosesForCause(j)

LEMMA SameStateIsCaused ==
  ASSUME NEW j \in Key, circuit'[j].state = circuit[j].state
  PROVE  Caused(j)
  BY DEF Caused, OpensForCause, ClosesForCause, State

LEMMA AdmissionIsCaused ==
  ASSUME IInv, NEW c \in Invocation, LetThrough(c), NEW j \in Key PROVE Caused(j)
  <1>1. PICK k \in Key : k = KeyOf(c)
    BY BusyHasKey DEF IInv, LetThrough
  <1>2. circuit' = [circuit EXCEPT ![k] = Admitted(circuit[k])] /\ circuit \in [Key -> Circuit]
    BY <1>1 DEF LetThrough, Admit, IInv, TypeOK
  <1>3. CASE j = k
    BY <1>2, <1>3 DEF Admitted, Record, Caused, OpensForCause, ClosesForCause, State
  <1>4. CASE j # k
    BY <1>2, <1>4, SameStateIsCaused
  <1> QED  BY <1>3, <1>4

LEMMA SuccessIsCaused ==
  ASSUME IInv, NEW c \in Invocation, Answered(c), NEW j \in Key PROVE Caused(j)
  <1>1. PICK k \in Key : k = KeyOf(c)
    BY BusyHasKey DEF IInv, Answered, Busy
  <1>2. /\ circuit' = [circuit EXCEPT ![k] = AfterSuccess(circuit[k])]
        /\ worked' = CountUp(worked, k, SuccessThreshold)
        /\ TypeOK /\ KeyInv(k)
    BY <1>1, ByKeys DEF Answered, RecordSuccess, NoteSuccess, TypeOK
  <1>3. CASE j = k
    <2>1. /\ circuit'[k] = AfterSuccess(circuit[k])
          /\ worked'[k] = IF worked[k] < SuccessThreshold THEN worked[k] + 1 ELSE worked[k]
          /\ circuit[k] \in Circuit /\ worked[k] \in 0..SuccessThreshold
          /\ circuit[k].successes <= worked[k]
      BY <1>2 DEF TypeOK, CountUp, KeyInv
    <2>2. OpensForCause(k)
      BY <2>1 DEF AfterSuccess, Record, OpensForCause, State
    <2>3. State(k) = "half_open" /\ circuit'[k].state = "closed" => worked'[k] >= SuccessThreshold
      BY <2>1, PolicyAssumption DEF AfterSuccess, Record, Circuit, State
    <2> QED  BY <1>3, <2>2, <2>3 DEF Caused, ClosesForCause
  <1>4. CASE j # k
    BY <1>2, <1>4, SameStateIsCaused DEF TypeOK
  <1> QED  BY <1>3, <1>4

LEMMA FailureIsCaused ==
  ASSUME IInv, NEW c \in Invocation, NEW retryable \in BOOLEAN, Refused(c, retryable),
         NEW j \in Key
  PROVE  Caused(j)
  <1>1. PICK k \in Key : k = KeyOf(c)
    BY BusyHasKey DEF IInv, Refused, Busy
  <1>2. /\ circuit' = [circuit EXCEPT ![k] = AfterFailure(circuit[k])]
        /\ failed' = CountUp(failed, k, FailureThreshold)
        /\ TypeOK /\ KeyInv(k)
    BY <1>1, ByKeys DEF Refused, RecordFailure, NoteFailure, TypeOK
  <1>3. CASE j = k
    <2>1. /\ circuit'[k] = AfterFailure(circuit[k])
          /\ failed'[k] = IF failed[k] < FailureThreshold THEN failed[k] + 1 ELSE failed[k]
          /\ circuit[k] \in Circuit /\ failed[k] \in 0..FailureThreshold
          /\ State(k) = "closed" => circuit[k].failures <= failed[k]
      BY <1>2 DEF TypeOK, CountUp, KeyInv
    <2>2. OpensForCause(k)
      BY <2>1, PolicyAssumption DEF AfterFailure, OneMore, Record, Circuit, OpensForCause, State
    <2>3. ClosesForCause(k)
      BY <2>1 DEF AfterFailure, Record, ClosesForCause, State
    <2> QED  BY <1>3, <2>2, <2>3 DEF Caused
  <1>4. CASE j # k
    BY <1>2, <1>4, SameStateIsCaused DEF TypeOK
  <1> QED  BY <1>3, <1>4

LEMMA ResetIsCaused ==
  ASSUME IInv, NEW k \in Key, OperatorResets(k), NEW j \in Key PROVE Caused(j)
  <1>1. circuit' = [circuit EXCEPT ![k] = Closed] /\ call' = call /\ circuit \in [Key -> Circuit]
    BY DEF OperatorResets, Reset, IInv, TypeOK
  <1>2. Closed.state = "closed"
    BY DEF Closed
  <1> QED  BY <1>1, <1>2 DEF Caused, OpensForCause, ClosesForCause, State

LEMMA QuietIsCaused ==
  ASSUME circuit' = circuit, NEW j \in Key PROVE Caused(j)
  BY SameStateIsCaused

\* A circuit opens only after failure_threshold failures in a row, and closes only
\* after success_threshold successes in a row or by reset(): for every interleaving
\* of calls, late answers and cancellations.
THEOREM ChangesTheorem == Spec => ChangesForCause
  <1>1. ASSUME IInv, [Next]_vars, NEW j \in Key PROVE Caused(j)
    <2>1. ASSUME NEW c \in Invocation, Begin(c) \/ Cancel(c) PROVE Caused(j)
      BY <2>1, QuietIsCaused DEF Begin, Cancel, breakerVars
    <2>2. ASSUME NEW c \in Invocation, Proceed(c) PROVE Caused(j)
      <3>1. CASE LetThrough(c)
        BY <1>1, <3>1, AdmissionIsCaused
      <3>2. CASE Answered(c)
        BY <1>1, <3>2, SuccessIsCaused
      <3>3. ASSUME NEW retryable \in BOOLEAN, Refused(c, retryable) PROVE Caused(j)
        BY <1>1, <3>3, FailureIsCaused
      <3>4. CASE Skip(c) \/ Exhaust(c) \/ Resolve(c) \/ NoCredential(c)
        BY <3>4, QuietIsCaused DEF Skip, Exhaust, Resolve, NoCredential, breakerVars
      <3> QED  BY <2>2, <3>1, <3>2, <3>3, <3>4 DEF Proceed
    <2>3. ASSUME NEW k \in Key, TimePasses(k) PROVE Caused(j)
      BY <2>3, QuietIsCaused DEF TimePasses, RecoveryElapses
    <2>4. ASSUME NEW k \in Key, OperatorResets(k) PROVE Caused(j)
      BY <1>1, <2>4, ResetIsCaused
    <2>5. CASE UNCHANGED vars
      BY <2>5, QuietIsCaused DEF vars, breakerVars
    <2> QED  BY <1>1, <2>1, <2>2, <2>3, <2>4, <2>5 DEF Next
  <1>2. IInv /\ [Next]_vars => [\A k \in Key : OpensForCause(k) /\ ClosesForCause(k)]_vars
    BY <1>1 DEF Caused
  <1> QED  BY <1>2, InductiveInvariant, PTL DEF Spec, ChangesForCause

--------------------------------------------------------------------------------
(* The settings: what an id and a position name. *)

\* A set of numbers has a least one.
LEMMA MinIsLeast ==
    ASSUME NEW S, S \subseteq Nat, S # {}
    PROVE  Min(S) \in S /\ \A y \in S : Min(S) <= y
BY LeastExists DEF Min

\* Where ids differ, an id names one descriptor.
LEMMA NamedIsTheOne ==
    ASSUME NEW s, Distinct(s), NEW i \in DOMAIN s
    PROVE  Named(s, s[i].id) = s[i] /\ s[i].id \in Ids(s)
<1>1. s[i] \in ToSet(s)
  BY DEF ToSet
<1>2. \A d \in ToSet(s) : d.id = s[i].id => d = s[i]
  BY DEF ToSet, Distinct
<1> QED
  BY <1>1, <1>2 DEF Named, Ids

LEMMA NamedIsThere ==
    ASSUME NEW s, Distinct(s), NEW id \in Ids(s)
    PROVE  \E i \in DOMAIN s : s[i].id = id /\ Named(s, id) = s[i]
<1>1. PICK i \in DOMAIN s : s[i].id = id
  BY DEF Ids, ToSet
<1> QED
  BY <1>1, NamedIsTheOne

\* A catalogue that some process has started with.
Offered(c) == c \in Offers /\ IsCatalog(c)

LEMMA SelectableIsAcceptable ==
    ASSUME NEW c, IsCatalog(c), NEW i \in Selectable(c), NEW role,
           Supports(c.models[i], Requires(role))
    PROVE  Acceptable(c, role, c.models[i].id)
<1>1. i \in DOMAIN c.models /\ c.models[i].selectable
  BY DEF Selectable
<1>2. Model(c, c.models[i].id) = c.models[i] /\ HasModel(c, c.models[i].id)
  BY <1>1, NamedIsTheOne DEF IsCatalog, Model, HasModel
<1> QED
  BY <1>1, <1>2 DEF Acceptable

LEMMA MenuIsAcceptable ==
    ASSUME NEW c, IsCatalog(c), NEW role, NEW model, <<model, role>> \in Menu(c)
    PROVE  Acceptable(c, role, model)
<1>1. PICK i \in Selectable(c) : model = c.models[i].id /\ role \in Fills(c.models[i])
  BY DEF Menu
<1> QED
  BY <1>1, SelectableIsAcceptable DEF Fills

LEMMA SelectedIsSelectable ==
    ASSUME NEW c, Offered(c), Selectable(c) # {}
    PROVE  Min(Selectable(c)) \in Selectable(c) /\ Cheapest(c) \in Selectable(c)
<1> DEFINE contexts == {c.models[i].context : i \in Selectable(c)}
           least == {i \in Selectable(c) :
                       \A j \in Selectable(c) : c.models[i].context <= c.models[j].context}
<1>1. Selectable(c) \subseteq Nat /\ contexts \subseteq Nat
  <2>1. DOMAIN c.models \subseteq Nat
    BY SettingsAssumption DEF Offered, SettingsAssumption
  <2>2. \A i \in DOMAIN c.models : c.models[i].context \in Nat
    BY SettingsAssumption DEF Offered, SettingsAssumption, ToSet
  <2> QED
    BY <2>1, <2>2 DEF Selectable
<1>2. PICK n \in contexts : \A y \in contexts : n <= y
  <2>1. contexts # {}
    OBVIOUS
  <2> HIDE DEF contexts
  <2> QED
    BY <1>1, <2>1, MinIsLeast
<1>3. least # {} /\ least \subseteq Nat
  <2>1. PICK i \in Selectable(c) : n = c.models[i].context
    BY <1>2
  <2>2. \A j \in Selectable(c) : c.models[i].context <= c.models[j].context
    BY <1>2, <2>1
  <2> QED
    BY <1>1, <2>2
<1> QED
  BY <1>1, <1>3, MinIsLeast DEF Cheapest

LEMMA BaselineIsOffered ==
    ASSUME NEW c, Offered(c), NEW role \in Role, Baseline(c)[role] # None
    PROVE  /\ HasModel(c, Baseline(c)[role])
           /\ role # "primary" => Acceptable(c, role, Baseline(c)[role])
<1>1. Selectable(c) # {}
  BY DEF Baseline
<1>2. PICK i \in Selectable(c) : Baseline(c)[role] = c.models[i].id
  BY <1>1, SelectedIsSelectable DEF Baseline
<1>3. i \in DOMAIN c.models /\ MeetsBaseline(c.models[i]) /\ c.models[i].selectable
  BY DEF Offered, IsCatalog, ToSet, Selectable
<1>4. HasModel(c, c.models[i].id)
  BY <1>3, NamedIsTheOne DEF Offered, IsCatalog, HasModel
<1>5. ASSUME role # "primary"
      PROVE  Acceptable(c, role, c.models[i].id)
  <2>1. Requires(role) = BaselineCapabilities
    BY <1>5 DEF Requires
  <2> QED
    BY <1>3, <2>1, SelectableIsAcceptable DEF Offered, MeetsBaseline, Supports
<1> QED
  BY <1>2, <1>4, <1>5

\* What the chain of resolution answers.
LEMMA ChainNames ==
    ASSUME NEW c, NEW role, NEW explicit, NEW preferences,
           NEW choice, choice = ResolveModel(c, role, explicit, preferences),
           choice # NoChoice
    PROVE  /\ choice.model # None
           /\ \/ choice.by = "explicit-request"
              \/ choice.by = "tenant-preference" /\ choice.model = preferences[role]
              \/ choice.by = "system-baseline" /\ choice.model = Baseline(c)[role]
<1> DEFINE levels == Levels(c, role, explicit, preferences)
           naming == {i \in DOMAIN levels : levels[i].model # None}
<1>1. DOMAIN levels = 1..4
  BY DEF Levels
<1>2. choice = levels[Min(naming)] /\ naming # {}
  BY DEF ResolveModel
<1>3. Min(naming) \in naming
  <2> HIDE DEF levels
  <2> QED
    BY <1>1, <1>2, MinIsLeast
<1>4. PICK i \in 1..4 : choice = levels[i] /\ levels[i].model # None
  BY <1>1, <1>2, <1>3
<1>5. i # 3
  BY <1>4 DEF Levels
<1>6. i = 1 \/ i = 2 \/ i = 4
  BY <1>4, <1>5
<1> QED
  BY <1>4, <1>6 DEF Levels

-----------------------------------------------------------------------------
(* Whose key *)

LEMMA ProvidersAreNumbered ==
    ASSUME NEW c, Offered(c)
    PROVE  Ids(c.providers) \subseteq Nat
  BY SettingsAssumption DEF SettingsAssumption, Offered, Ids

LEMMA CandidatesAreRelated ==
    ASSUME NEW c, Offered(c), NEW id \in Ids(c.providers)
    PROVE  Candidates(c, id) =
               {s \in Ids(c.providers) :
                   s = id \/ /\ Root(Provider(c, s)) = Root(Provider(c, id))
                             /\ Interchangeable(Provider(c, id), Provider(c, s))}
<1>1. FamilyOf(c, id) =
          {s \in Ids(c.providers) : Root(Provider(c, s)) = Root(Provider(c, id))}
  <2>1. \A p \in ToSet(c.providers) : Provider(c, p.id) = p
    BY NamedIsTheOne DEF Offered, IsCatalog, Provider, ToSet
  <2> QED
    BY <2>1 DEF FamilyOf, Ids
<1> QED
  BY <1>1 DEF Candidates

LEMMA NearestIsOne ==
    ASSUME NEW id, NEW stored, stored \subseteq Nat, stored # {}
    PROVE  Nearest(id, stored) \in stored /\ (id \in stored => Nearest(id, stored) = id)
  BY MinIsLeast DEF Nearest

LEMMA PlatformPaysNoTenant ==
    ASSUME NEW c, NEW id, NEW available
    PROVE  LET one == FromPlatform(c, id, available)
           IN  /\ one.payer # "tenant"
               /\ one.payer = "platform" => Provider(c, id).access # "oauth"
  BY DEF FromPlatform, Unresolved, None

\* What one endpoint's key is, asked for alone or with the others.
LEMMA KeyOfAnEndpoint ==
    ASSUME NEW c, Offered(c), NEW id \in Ids(c.providers), NEW mine, NEW available
    PROVE  LET one == Resolution(c, id, mine, available)
           IN  /\ one = ResolveMany(c, Ids(c.providers), mine, available)[id]
               /\ one.payer = "tenant" =>
                      /\ Usable(c, mine, id, one.holder)
                      /\ mine[id] # "absent" => one.holder = id
                      /\ one.url \in {mine[one.holder], Provider(c, id).url}
               /\ one.payer # "tenant" =>
                      \A s \in Ids(c.providers) : ~Usable(c, mine, id, s)
               /\ one.payer = "platform" => Provider(c, id).access # "oauth"
<1> DEFINE stored == {s \in Candidates(c, id) : mine[s] # "absent"}
           one == Resolution(c, id, mine, available)
<1>1. one = Found(c, id, stored, mine, available)
  BY DEF Resolution
<1>2. one = ResolveMany(c, Ids(c.providers), mine, available)[id]
  <2> DEFINE candidates == UNION {Candidates(c, x) : x \in Ids(c.providers)}
             prefetched == {s \in candidates : mine[s] # "absent"}
  <2>1. Candidates(c, id) \subseteq candidates
    OBVIOUS
  <2>2. Candidates(c, id) \cap prefetched = stored
    BY <2>1
  <2>3. ResolveMany(c, Ids(c.providers), mine, available) =
            [x \in Ids(c.providers) |->
                Found(c, x, Candidates(c, x) \cap prefetched, mine, available)]
    BY DEF ResolveMany
  <2> QED
    BY <1>1, <2>2, <2>3
<1>3. stored = {s \in Ids(c.providers) : Usable(c, mine, id, s)}
  BY CandidatesAreRelated DEF Usable
<1>4. stored \subseteq Nat
  BY <1>3, ProvidersAreNumbered
<1> HIDE DEF stored
<1>5. CASE stored = {}
  <2>1. one = FromPlatform(c, id, available)
    BY <1>1, <1>5 DEF Found
  <2> QED
    BY <1>2, <1>3, <1>5, <2>1, PlatformPaysNoTenant
<1>6. CASE stored # {}
  <2>1. PICK holder \in stored : holder = Nearest(id, stored) /\ (id \in stored => holder = id)
    BY <1>4, <1>6, NearestIsOne
  <2>2. one = Built(c, id, holder, mine[holder])
    BY <1>1, <1>6, <2>1 DEF Found
  <2>3. /\ one.payer = "tenant" /\ one.holder = holder
        /\ one.url \in {mine[holder], Provider(c, id).url}
    BY <2>2 DEF Built
  <2>4. Usable(c, mine, id, holder)
    BY <1>3, <2>1
  <2>5. mine[id] # "absent" => holder = id
    BY <1>3, <2>1 DEF Usable
  <2> QED
    BY <1>2, <2>3, <2>4, <2>5
<1> QED
  BY <1>5, <1>6

-----------------------------------------------------------------------------
(* The invariant.  What each stage of a request holds: *)

Asking(q) == q.ask \in Asks /\ Offered(q.offer)

Looking(q) ==
    /\ DOMAIN q = {"at", "token", "ask", "offer"}
    /\ q.token \in Token /\ Asking(q)

Handling(q) == q.tenant \in Tenant /\ Asking(q)

Writing(q) ==
    /\ DOMAIN q = {"at", "tenant", "ask", "offer", "alone", "found"}
    /\ q.tenant \in Tenant /\ Asking(q)
    /\ q.ask.op \in Writes /\ q.ask.role \in Role
    /\ q.ask.op = "set" => Acceptable(q.offer, q.ask.role, q.ask.model)

TurnedDown(q) == Asking(q) /\ ~Acceptable(q.offer, q.ask.role, q.ask.model)

\* A model of the catalogue, capable or excused, with the key that belongs to it.
Excused(q) ==
    \/ q.choice.by = "explicit-request"
    \/ q.choice.by = "tenant-preference" /\ \A p \in q.rows : p.under # q.offer
    \/ q.choice.by = "system-baseline" /\ q.role = "primary"

Served(q) ==
    /\ q.tenant \in Tenant /\ Offered(q.offer) /\ HasModel(q.offer, q.choice.model)
    /\ Acceptable(q.offer, q.role, q.choice.model) \/ Excused(q)
    /\ q.credential = Resolution(q.offer, Model(q.offer, q.choice.model).provider,
                                 keys[q.tenant], platform)

Proper(q) ==
    /\ q.at \in {"looking", "sliding"} => Looking(q)
    /\ q.at = "handling" => Handling(q)
    /\ q.at = "writing" => Writing(q)
    /\ q.at = "unprocessable" => TurnedDown(q)
    /\ q.at = "served" => Served(q)

Stages == DOMAIN request = Request /\ \A r \in Request : Proper(request[r])

\* The rows: one for a tenant's role, each acceptable when it was set, the new ones
\* by requests that are done.
SameSetting(p, q) == p.tenant = q.tenant /\ p.role = q.role

IsRow(p) ==
    /\ DOMAIN p = {"id", "tenant", "role", "model", "under"}
    /\ p.tenant \in Tenant /\ p.role \in Role
    /\ IsCatalog(p.under) /\ Acceptable(p.under, p.role, p.model)
    /\ p.id \in Request => At(p.id, "done")

Rows ==
    /\ \A p \in preference : IsRow(p)
    /\ \A p, q \in preference : p.id = q.id \/ SameSetting(p, q) => p = q

\* What a request that is about to write has found: a row of the setting it writes,
\* which may be gone, or have another model by now; nothing of the kind where the
\* request is alone with its setting.
Mine(r, p) == p.tenant = request[r].tenant /\ p.role = request[r].ask.role

Findings ==
    \A r \in Request : At(r, "writing") =>
        /\ \A p \in request[r].found :
               /\ IsRow(p) /\ Mine(r, p)
               /\ \A x \in preference : x.id = p.id => SameSetting(x, p)
        /\ request[r].alone =>
               /\ request[r].found = {p \in preference : Mine(r, p)}
               /\ Rivals(r) = {}

Offering ==
    /\ Offered(catalog)
    /\ DOMAIN outcome = Tenant \X Role

SettingsInv == Offering /\ Stages /\ Rows /\ Findings /\ SettingsAreWhatWasAsked

-----------------------------------------------------------------------------
(* Steps that leave the rows alone *)

Settled == UNCHANGED <<catalog, preference, keys, platform, outcome>>

LEMMA ARequestMovesOn ==
    ASSUME SettingsInv, NEW r \in Request, ~At(r, "done"), Settled,
           NEW v, request' = [request EXCEPT ![r] = v], v.at # "writing", Proper(v)
    PROVE  SettingsInv'
<1>1. /\ catalog' = catalog /\ preference' = preference /\ keys' = keys
      /\ platform' = platform /\ outcome' = outcome
  BY DEF Settled
<1>2. DOMAIN request = Request
  BY DEF SettingsInv, Stages
<1>3. /\ request'[r] = v /\ DOMAIN request' = Request
      /\ \A s \in Request \ {r} : request'[s] = request[s]
  BY <1>2
<1>4. \A q : Proper(q) => Proper(q)'
  BY <1>1 DEF Proper, Looking, Handling, Writing, TurnedDown, Served, Excused, Asking, Offered
<1>5. Stages'
  <2>1. \A s \in Request : Proper(request'[s])
    BY <1>3 DEF SettingsInv, Stages
  <2>2. \A q : Proper(q) => Proper(q)'
    BY <1>4
  <2> QED
    BY <1>3, <2>1, <2>2 DEF Stages
<1>6. \A p : IsRow(p) => IsRow(p)'
  BY <1>3 DEF IsRow, At
<1>7. Rows'
  BY <1>1, <1>6 DEF SettingsInv, Rows
<1>8. Findings'
  <2> SUFFICES ASSUME NEW s \in Request, At(s, "writing")'
               PROVE  /\ \A p \in request'[s].found :
                             /\ IsRow(p)' /\ Mine(s, p)'
                             /\ \A x \in preference' : x.id = p.id => SameSetting(x, p)
                      /\ request'[s].alone =>
                             /\ request'[s].found = {p \in preference' : Mine(s, p)'}
                             /\ Rivals(s)' = {}
    BY DEF Findings, SameSetting
  <2>1. s # r /\ At(s, "writing") /\ request'[s] = request[s]
    BY <1>3 DEF At
  <2>2. \A p : Mine(s, p)' <=> Mine(s, p)
    BY <2>1 DEF Mine
  <2>3. Rivals(s)' \subseteq Rivals(s)
    BY <1>3, <2>1 DEF Rivals, At
  <2> QED
    BY <1>1, <1>6, <2>1, <2>2, <2>3 DEF SettingsInv, Findings
<1>9. Offering'
  BY <1>1 DEF SettingsInv, Offering, Offered
<1>10. SettingsAreWhatWasAsked'
  BY <1>1 DEF SettingsInv, SettingsAreWhatWasAsked
<1> QED
  BY <1>5, <1>7, <1>8, <1>9, <1>10 DEF SettingsInv

LEMMA StageOf ==
    ASSUME SettingsInv, NEW r \in Request
    PROVE  DOMAIN request = Request /\ Proper(request[r]) /\ Offered(catalog)
  BY DEF SettingsInv, Stages, Offering

LEMMA ArriveKeeps ==
    ASSUME SettingsInv, NEW r \in Request, NEW h \in Presented, NEW ask \in Asks,
           Arrive(r, h, ask)
    PROVE  SettingsInv'
<1>1. At(r, "nowhere") /\ Settled /\ Offered(catalog)
  BY StageOf DEF Arrive, Settled
<1>2. CASE NeedsSession(h)
  <2> DEFINE v == [at |-> "looking", token |-> BareToken(h), ask |-> ask, offer |-> catalog]
  <2>1. request' = [request EXCEPT ![r] = v]
    BY <1>2 DEF Arrive
  <2>2. BareToken(h) \in Token
    BY <1>2, SettingsAssumption DEF SettingsAssumption, Headers, NeedsSession, BareToken
  <2>3. Looking(v)
    BY <1>1, <2>2 DEF Looking, Asking
  <2>4. Proper(v) /\ v.at # "writing"
    BY <2>3 DEF Proper
  <2> HIDE DEF v
  <2> QED
    BY <1>1, <2>1, <2>4, ARequestMovesOn DEF At
<1>3. CASE ~NeedsSession(h) /\ WithoutSession(h) = Nobody
  <2> DEFINE v == [at |-> "unauthenticated"]
  <2>1. request' = [request EXCEPT ![r] = v]
    BY <1>3 DEF Arrive
  <2>2. Proper(v) /\ v.at # "writing"
    BY DEF Proper
  <2> HIDE DEF v
  <2> QED
    BY <1>1, <2>1, <2>2, ARequestMovesOn DEF At
<1>4. CASE ~NeedsSession(h) /\ WithoutSession(h) # Nobody
  <2> DEFINE v == [at |-> "handling", tenant |-> WithoutSession(h), ask |-> ask,
                   offer |-> catalog]
  <2>1. request' = [request EXCEPT ![r] = v]
    BY <1>4 DEF Arrive
  <2>2. WithoutSession(h) \in Tenant
    BY <1>4, SettingsAssumption, IdentityAssumption
       DEF SettingsAssumption, IdentityAssumption, Headers, WithoutSession, FromServiceToken
  <2>3. Handling(v)
    BY <1>1, <2>2 DEF Handling, Asking
  <2>4. Proper(v) /\ v.at # "writing"
    BY <2>3 DEF Proper
  <2> HIDE DEF v
  <2> QED
    BY <1>1, <2>1, <2>4, ARequestMovesOn DEF At
<1> QED
  BY <1>2, <1>3, <1>4

LEMMA LookupKeeps ==
    ASSUME SettingsInv, NEW r \in Request, Lookup(r)
    PROVE  SettingsInv'
<1> DEFINE q == request[r]
<1>1. At(r, "looking") /\ Settled /\ Looking(q) /\ DOMAIN request = Request
  BY StageOf DEF Lookup, Settled, At, Proper
<1>2. CASE session[q.token] = 0
  <2>1. request' = [request EXCEPT ![r] = [at |-> "unauthenticated"]]
    BY <1>1, <1>2 DEF Lookup
  <2>2. PICK v : v = [at |-> "unauthenticated"]
    OBVIOUS
  <2>3. Proper(v) /\ v.at # "writing"
    BY <2>2 DEF Proper
  <2> QED
    BY <1>1, <2>1, <2>2, <2>3, ARequestMovesOn DEF At
<1>3. CASE session[q.token] # 0
  <2>1. PICK v : v = [q EXCEPT !.at = "sliding"]
    OBVIOUS
  <2>2. request' = [request EXCEPT ![r] = v]
    BY <1>1, <1>3, <2>1 DEF Lookup
  <2>3. Looking(v) /\ v.at = "sliding"
    BY <1>1, <2>1 DEF Looking, Asking
  <2>4. Proper(v) /\ v.at # "writing"
    BY <2>3 DEF Proper
  <2> QED
    BY <1>1, <2>2, <2>4, ARequestMovesOn DEF At
<1> QED
  BY <1>2, <1>3

LEMMA AnswerKeeps ==
    ASSUME SettingsInv, NEW r \in Request, ~At(r, "done"), Settled, NEW step,
           Answer(r, step), step \in {"unauthenticated", "no model", "unknown model", "failed"}
    PROVE  SettingsInv'
<1>1. PICK v : v = [at |-> step]
  OBVIOUS
<1>2. request' = [request EXCEPT ![r] = v]
  BY <1>1 DEF Answer
<1>3. Proper(v) /\ v.at # "writing"
  BY <1>1 DEF Proper
<1> QED
  BY <1>2, <1>3, ARequestMovesOn

LEMMA SlideKeeps ==
    ASSUME SettingsInv, NEW r \in Request, Slide(r)
    PROVE  SettingsInv'
<1> DEFINE q == request[r]
<1>1. At(r, "sliding") /\ Looking(q) /\ DOMAIN request = Request
  BY StageOf DEF Slide, At, Proper
<1>2. PICK tenant : tenant = ToScope(q.token)
  OBVIOUS
<1>3. tenant \in Tenant \cup {Nobody}
  BY <1>1, <1>2, IdentityAssumption DEF IdentityAssumption, ToScope, Looking
<1>4. CASE tenant = Nobody
  <2>1. Answer(r, "unauthenticated") /\ Settled
    BY <1>2, <1>4 DEF Slide, Settled, Answer, Handled
  <2> QED
    BY <1>1, <2>1, AnswerKeeps DEF At
<1>5. CASE tenant # Nobody
  <2>1. Handled(r, tenant) /\ Settled
    BY <1>2, <1>5 DEF Slide, Settled, Answer, Handled
  <2>2. PICK v : v = [at |-> "handling", tenant |-> tenant, ask |-> q.ask, offer |-> q.offer]
    OBVIOUS
  <2>3. request' = [request EXCEPT ![r] = v]
    BY <1>1, <2>1, <2>2 DEF Handled
  <2>4. Proper(v) /\ v.at # "writing"
    BY <1>1, <1>3, <1>5, <2>2 DEF Proper, Handling, Looking, Asking
  <2> QED
    BY <1>1, <2>1, <2>3, <2>4, ARequestMovesOn DEF At
<1> QED
  BY <1>4, <1>5

LEMMA RefuseKeeps ==
    ASSUME SettingsInv, NEW r \in Request, Refuse(r)
    PROVE  SettingsInv'
<1> DEFINE q == request[r]
<1>1. At(r, "handling") /\ Settled /\ Handling(q) /\ DOMAIN request = Request
  BY StageOf DEF Refuse, Settled, At, Proper
<1>2. PICK v : v = [at |-> Refusal(q), ask |-> q.ask, offer |-> q.offer]
  OBVIOUS
<1>3. request' = [request EXCEPT ![r] = v]
  BY <1>1, <1>2 DEF Refuse
<1>4. Refusal(q) \in {"unknown role", "unprocessable"}
  BY DEF Refuse, Refusal, None
<1>5. Refusal(q) = "unprocessable" => ~Acceptable(q.offer, q.ask.role, q.ask.model)
  BY DEF Refusal, None
<1>6. Proper(v) /\ v.at # "writing"
  BY <1>1, <1>2, <1>4, <1>5 DEF Proper, TurnedDown, Handling, Asking
<1> QED
  BY <1>1, <1>3, <1>6, ARequestMovesOn DEF At

LEMMA BrowseKeeps ==
    ASSUME SettingsInv, NEW r \in Request, Browse(r)
    PROVE  SettingsInv'
<1>1. At(r, "handling") /\ Settled
  BY DEF Browse, Settled
<1>2. PICK v : v = [at |-> "shown", menu |-> Menu(request[r].offer)]
  OBVIOUS
<1>3. request' = [request EXCEPT ![r] = v]
  BY <1>2, StageOf DEF Browse
<1>4. Proper(v) /\ v.at # "writing"
  BY <1>2 DEF Proper
<1> QED
  BY <1>1, <1>3, <1>4, ARequestMovesOn DEF At

LEMMA FailKeeps ==
    ASSUME SettingsInv, NEW r \in Request, Fail(r)
    PROVE  SettingsInv'
  BY AnswerKeeps DEF Fail, Settled, At

\* A tenant's own preference was acceptable, though it may be under another catalogue.
LEMMA PreferenceIsExcusable ==
    ASSUME SettingsInv, NEW t, NEW role \in Role, NEW c, AsMapping(t)[role] # None
    PROVE  \/ Acceptable(c, role, AsMapping(t)[role])
           \/ \A p \in Existing(t, role) : p.under # c
<1>1. PICK p \in Existing(t, role) : AsMapping(t)[role] = p.model
  BY DEF AsMapping
<1>2. p \in preference /\ p.tenant = t /\ p.role = role
  BY DEF Existing, Scoped
<1>3. Existing(t, role) = {p}
  BY <1>2 DEF SettingsInv, Rows, SameSetting, Existing, Scoped
<1>4. Acceptable(p.under, role, p.model)
  BY <1>2 DEF SettingsInv, Rows, IsRow
<1> QED
  BY <1>1, <1>3, <1>4

LEMMA ReadKeeps ==
    ASSUME SettingsInv, NEW r \in Request, Read(r)
    PROVE  SettingsInv'
<1> DEFINE q == request[r]
<1>1. At(r, "handling") /\ Settled /\ Handling(q) /\ DOMAIN request = Request
  BY StageOf DEF Read, Settled, At, Proper
<1>2. q.ask.role \in Role
  BY <1>1, SettingsAssumption DEF SettingsAssumption, Read, Handling, Asking
<1>3. PICK choice, credential :
          /\ choice = Choice(q)
          /\ credential = Resolution(q.offer, Model(q.offer, choice.model).provider,
                                     keys[q.tenant], platform)
  OBVIOUS
<1>4. CASE choice = NoChoice
  BY <1>1, <1>3, <1>4, AnswerKeeps DEF Read, At
<1>5. CASE choice # NoChoice /\ ~HasModel(q.offer, choice.model)
  BY <1>1, <1>3, <1>5, AnswerKeeps DEF Read, At
<1>6. CASE choice # NoChoice /\ HasModel(q.offer, choice.model) /\ ~Readable(credential)
  BY <1>1, <1>3, <1>6, AnswerKeeps DEF Read, At
<1>7. CASE choice # NoChoice /\ HasModel(q.offer, choice.model) /\ Readable(credential)
  <2>1. PICK v : v = [at |-> "served", tenant |-> q.tenant, role |-> q.ask.role,
                      offer |-> q.offer, choice |-> choice, credential |-> credential,
                      rows |-> Existing(q.tenant, q.ask.role)]
    OBVIOUS
  <2>2. request' = [request EXCEPT ![r] = v]
    BY <1>1, <1>3, <1>7, <2>1 DEF Read
  <2>3. Acceptable(q.offer, q.ask.role, choice.model) \/ Excused(v)
    <3>1. /\ choice.model # None
          /\ \/ choice.by = "explicit-request"
             \/ choice.by = "tenant-preference"
                    /\ choice.model = AsMapping(q.tenant)[q.ask.role]
             \/ choice.by = "system-baseline" /\ choice.model = Baseline(q.offer)[q.ask.role]
      <4>1. PICK preferences : preferences = AsMapping(q.tenant)
        OBVIOUS
      <4>2. choice = ResolveModel(q.offer, q.ask.role, q.ask.model, preferences)
        BY <1>3, <4>1 DEF Choice
      <4> HIDE DEF q
      <4> QED
        BY <1>7, <4>1, <4>2, ChainNames
    <3>2. v.choice = choice /\ v.offer = q.offer /\ v.role = q.ask.role
            /\ v.rows = Existing(q.tenant, q.ask.role)
      BY <2>1
    <3>3. CASE choice.by = "explicit-request"
      BY <3>2, <3>3 DEF Excused
    <3>4. CASE choice.by = "tenant-preference" /\ choice.model = AsMapping(q.tenant)[q.ask.role]
      BY <1>2, <3>1, <3>2, <3>4, PreferenceIsExcusable DEF Excused
    <3>5. CASE choice.by = "system-baseline" /\ choice.model = Baseline(q.offer)[q.ask.role]
      BY <1>1, <1>2, <3>1, <3>2, <3>5, BaselineIsOffered DEF Excused, Handling, Asking
    <3> QED
      BY <3>1, <3>3, <3>4, <3>5
  <2>4. Served(v) /\ v.at = "served"
    BY <1>1, <1>3, <1>7, <2>1, <2>3 DEF Served, Handling, Asking
  <2>5. Proper(v) /\ v.at # "writing"
    BY <2>4 DEF Proper
  <2> QED
    BY <1>1, <2>2, <2>5, ARequestMovesOn DEF At
<1> QED
  BY <1>4, <1>5, <1>6, <1>7

-----------------------------------------------------------------------------
(* Steps of the requests that write *)

LEMMA ReadRowKeeps ==
    ASSUME SettingsInv, NEW r \in Request, ReadRow(r)
    PROVE  SettingsInv'
<1> DEFINE q == request[r]
<1>1. /\ At(r, "handling") /\ q.ask.op \in Writes /\ Refusal(q) = None
      /\ Settled /\ Handling(q) /\ DOMAIN request = Request
  BY StageOf DEF ReadRow, Settled, At, Proper
<1>2. q.ask.role \in Role /\ (q.ask.op = "set" => Acceptable(q.offer, q.ask.role, q.ask.model))
  BY <1>1 DEF Refusal, KnownRole, None
<1>3. PICK v : v = [at |-> "writing", tenant |-> q.tenant, ask |-> q.ask, offer |-> q.offer,
                    alone |-> Rivals(r) = {}, found |-> Existing(q.tenant, q.ask.role)]
  OBVIOUS
<1>4. request' = [s \in Request |->
          IF s = r THEN v
          ELSE IF s \in Rivals(r) THEN [request[s] EXCEPT !.alone = FALSE] ELSE request[s]]
  BY <1>3 DEF ReadRow
<1>5. /\ v.at = "writing" /\ v.tenant = q.tenant /\ v.ask = q.ask /\ v.offer = q.offer
      /\ v.alone = (Rivals(r) = {}) /\ v.found = Existing(q.tenant, q.ask.role)
      /\ DOMAIN v = {"at", "tenant", "ask", "offer", "alone", "found"}
  BY <1>3
<1>6. /\ catalog' = catalog /\ preference' = preference /\ keys' = keys
      /\ platform' = platform /\ outcome' = outcome
  BY <1>1 DEF Settled
<1>7. request'[r] = v /\ DOMAIN request' = Request
  BY <1>4
<1>8. ASSUME NEW s \in Request, s \in Rivals(r)
      PROVE  /\ Writing(request[s]) /\ Writing(request'[s])
             /\ request'[s].at = "writing" /\ request'[s].tenant = request[s].tenant
             /\ request'[s].ask = request[s].ask /\ request'[s].found = request[s].found
             /\ ~request'[s].alone /\ request[s].at = "writing"
  <2>1. Writing(request[s]) /\ request[s].at = "writing"
    BY <1>8, StageOf DEF Rivals, At, Proper
  <2>2. request'[s] = [request[s] EXCEPT !.alone = FALSE]
    BY <1>4, <1>8 DEF Rivals
  <2>3. /\ request'[s].at = "writing" /\ request'[s].tenant = request[s].tenant
        /\ request'[s].ask = request[s].ask /\ request'[s].found = request[s].found
        /\ request'[s].alone = FALSE /\ request'[s].offer = request[s].offer
        /\ DOMAIN request'[s] = DOMAIN request[s]
    BY <2>1, <2>2 DEF Writing
  <2> QED
    BY <2>1, <2>3 DEF Writing, Asking
<1>9. \A s \in Request : s # r /\ s \notin Rivals(r) => request'[s] = request[s]
  BY <1>4
<1>10. \A s \in Request : s # r => (At(s, "writing")' <=> At(s, "writing"))
  BY <1>8, <1>9 DEF At
<1>11. Stages'
  <2>1. \A p : Proper(p) => Proper(p)'
    BY <1>6 DEF Proper, Looking, Handling, Writing, TurnedDown, Served, Excused, Asking, Offered
  <2>2. Proper(v)
    BY <1>1, <1>2, <1>5 DEF Proper, Writing, Handling, Asking
  <2>3. \A s \in Request : s \in Rivals(r) => Proper(request'[s])
    BY <1>8 DEF Proper
  <2>4. \A s \in Request : Proper(request'[s])
    BY <1>7, <1>9, <2>2, <2>3 DEF SettingsInv, Stages
  <2> QED
    BY <1>7, <2>1, <2>4 DEF Stages
<1>12. \A p : IsRow(p) => IsRow(p)'
  BY <1>1, <1>8, <1>9 DEF IsRow, At
<1>13. Rows'
  BY <1>6, <1>12 DEF SettingsInv, Rows
<1>14. Findings'
  <2> SUFFICES ASSUME NEW s \in Request, At(s, "writing")'
               PROVE  /\ \A p \in request'[s].found :
                             /\ IsRow(p)' /\ Mine(s, p)'
                             /\ \A x \in preference' : x.id = p.id => SameSetting(x, p)
                      /\ request'[s].alone =>
                             /\ request'[s].found = {p \in preference' : Mine(s, p)'}
                             /\ Rivals(s)' = {}
    BY DEF Findings, SameSetting
  <2>1. CASE s = r
    <3>1. v.found = {p \in preference : p.tenant = q.tenant /\ p.role = q.ask.role}
      BY <1>5 DEF Existing, Scoped
    <3>2. \A p : Mine(r, p)' <=> p.tenant = q.tenant /\ p.role = q.ask.role
      BY <1>5, <1>7 DEF Mine
    <3>3. \A p \in v.found : /\ IsRow(p)' /\ Mine(r, p)'
                             /\ \A x \in preference : x.id = p.id => SameSetting(x, p)
      BY <1>12, <3>1, <3>2 DEF SettingsInv, Rows, SameSetting
    <3>4. v.found = {p \in preference' : Mine(r, p)'}
      BY <1>6, <3>1, <3>2
    <3>5. Rivals(r)' \subseteq Rivals(r)
      BY <1>5, <1>7, <1>8, <1>9, <1>10 DEF Rivals
    <3> QED
      BY <1>5, <1>6, <1>7, <2>1, <3>3, <3>4, <3>5
  <2>2. CASE s # r
    <3>1. At(s, "writing")
      BY <1>10, <2>2
    <3>2. /\ request'[s].tenant = request[s].tenant /\ request'[s].ask = request[s].ask
          /\ request'[s].found = request[s].found
      BY <1>8, <1>9, <2>2
    <3>3. \A p : Mine(s, p)' <=> Mine(s, p)
      BY <3>2 DEF Mine
    <3>4. ASSUME request'[s].alone
          PROVE  request[s].alone /\ Rivals(s)' = {}
      <4>1. s \notin Rivals(r) /\ request'[s] = request[s]
        BY <1>8, <1>9, <2>2, <3>4
      <4>2. ~(request[s].tenant = q.tenant /\ request[s].ask.role = q.ask.role)
        BY <2>2, <3>1, <4>1 DEF Rivals
      <4>3. Rivals(s) = {}
        BY <3>1, <3>4, <4>1 DEF SettingsInv, Findings
      <4>4. ASSUME NEW x \in Rivals(s)'
            PROVE  FALSE
        <5>1. /\ x \in Request /\ x # s /\ At(x, "writing")'
              /\ request'[x].tenant = request[s].tenant
              /\ request'[x].ask.role = request[s].ask.role
          BY <3>2, <4>4 DEF Rivals
        <5>2. x # r
          BY <1>5, <1>7, <4>2, <5>1
        <5>3. /\ At(x, "writing") /\ request'[x].tenant = request[x].tenant
              /\ request'[x].ask = request[x].ask
          BY <1>8, <1>9, <1>10, <5>1, <5>2
        <5>4. x \in Rivals(s)
          BY <5>1, <5>3 DEF Rivals
        <5> QED
          BY <4>3, <5>4
      <4> QED
        BY <3>4, <4>1, <4>4
    <3> QED
      BY <1>6, <1>12, <3>1, <3>2, <3>3, <3>4 DEF SettingsInv, Findings
  <2> QED
    BY <2>1, <2>2
<1>15. Offering'
  BY <1>6 DEF SettingsInv, Offering, Offered
<1>16. SettingsAreWhatWasAsked'
  BY <1>6 DEF SettingsInv, SettingsAreWhatWasAsked
<1> QED
  BY <1>11, <1>13, <1>14, <1>15, <1>16 DEF SettingsInv

\* What becomes of the rows when r commits: a row of another setting stays as it is,
\* a row comes from r or from one with its id, and there is at most one, as told.
RowsAfter(r) ==
    /\ \A p \in preference' : IsRow(p)'
    /\ \A p, x \in preference' : p.id = x.id \/ SameSetting(p, x) => p = x
    /\ \A x : ~Mine(r, x) => (x \in preference' <=> x \in preference)
    /\ \A x \in preference' : \/ x \in preference \/ x.id = r
                              \/ \E y \in preference : y.id = x.id /\ SameSetting(x, y)
    /\ LET rows == {p \in preference' : Mine(r, p)}
           told == outcome'[<<request[r].tenant, request[r].ask.role>>]
       IN  \/ rows = {} /\ None \in told
           \/ \E p \in rows : rows = {p} /\ p.model \in told

LEMMA CommitWrites ==
    ASSUME SettingsInv, NEW r \in Request, Commit(r)
    PROVE  RowsAfter(r)
<1> DEFINE q == request[r]
           k == <<q.tenant, q.ask.role>>
<1>1. /\ At(r, "writing") /\ Writing(q) /\ Offered(q.offer) /\ DOMAIN request = Request
      /\ request' = [request EXCEPT ![r] = [at |-> "done"]] /\ Write(r) /\ Told(r)
  BY StageOf DEF Commit, Answer, At, Proper, Writing, Asking
<1>2. \A p : IsRow(p) => IsRow(p)'
  BY <1>1 DEF IsRow, At
<1>3. /\ \A p \in preference : IsRow(p)
      /\ \A p, x \in preference : p.id = x.id \/ SameSetting(p, x) => p = x
  BY DEF SettingsInv, Rows
<1>4. \A p \in q.found : /\ IsRow(p) /\ Mine(r, p)
                         /\ \A x \in preference : x.id = p.id => SameSetting(x, p)
  BY <1>1 DEF SettingsInv, Findings
<1>5. \A p, x : Mine(r, p) => (Mine(r, x) <=> SameSetting(x, p))
  BY DEF Mine, SameSetting
<1>6. PICK value : value = IF q.ask.op = "clear" THEN None ELSE q.ask.model
  OBVIOUS
<1>7. /\ value \in outcome'[k]
      /\ ~q.alone => \A other \in outcome[k] : other \in outcome'[k]
  <2>1. k \in DOMAIN outcome
    BY <1>1 DEF SettingsInv, Offering, Writing
  <2>2. outcome' = [outcome EXCEPT ![k] = IF q.alone THEN {value} ELSE @ \cup {value}]
    BY <1>1, <1>6 DEF Told
  <2> HIDE DEF k
  <2> QED
    BY <2>1, <2>2
<1>8. LET rows == {p \in preference : Mine(r, p)}
      IN  \/ rows = {} /\ None \in outcome[k]
          \/ \E p \in rows : rows = {p} /\ p.model \in outcome[k]
  <2>1. q.tenant \in Tenant /\ q.ask.role \in Role
    BY <1>1 DEF Writing
  <2> QED
    BY <2>1 DEF SettingsInv, SettingsAreWhatWasAsked, Mine
<1>9. CASE q.ask.op = "clear"
  <2>1. preference' = {x \in preference : \A p \in q.found : x.id # p.id}
    BY <1>1, <1>9 DEF Write
  <2>2. \A x : ~Mine(r, x) => (x \in preference' <=> x \in preference)
    BY <1>4, <1>5, <2>1
  <2>3. LET rows == {p \in preference' : Mine(r, p)}
        IN  \/ rows = {} /\ None \in outcome'[k]
            \/ \E p \in rows : rows = {p} /\ p.model \in outcome'[k]
    <3>1. None \in outcome'[k]
      BY <1>6, <1>7, <1>9
    <3>2. CASE q.alone
      <4>1. q.found = {p \in preference : Mine(r, p)}
        BY <1>1, <3>2 DEF SettingsInv, Findings
      <4> QED
        BY <2>1, <3>1, <4>1
    <3>3. CASE ~q.alone
      <4>1. {p \in preference' : Mine(r, p)} \subseteq {p \in preference : Mine(r, p)}
        BY <2>1
      <4> QED
        BY <1>7, <1>8, <3>1, <3>3, <4>1
    <3> QED
      BY <3>2, <3>3
  <2> QED
    BY <1>2, <1>3, <2>1, <2>2, <2>3 DEF RowsAfter
<1>10. CASE q.ask.op # "clear" /\ q.found = {} /\ Insert(r)
  <2>1. PICK n : n = Row(r)
    OBVIOUS
  <2>2. /\ preference' = preference \cup {n}
        /\ \A p \in preference : ~SameSetting(p, n)
    BY <1>10, <2>1 DEF Insert, SameSetting
  <2>3. /\ n.id = r /\ Mine(r, n) /\ n.model = value
        /\ DOMAIN n = {"id", "tenant", "role", "model", "under"}
        /\ n.under = q.offer /\ n.tenant = q.tenant /\ n.role = q.ask.role
    BY <1>6, <1>10, <2>1 DEF Row, Mine
  <2>4. IsRow(n)'
    <3>1. Acceptable(q.offer, q.ask.role, q.ask.model)
      BY <1>1, <1>10 DEF Writing, Writes
    <3>2. At(r, "done")'
      BY <1>1 DEF At
    <3> QED
      BY <1>1, <1>6, <1>10, <2>3, <3>1, <3>2 DEF IsRow, Writing, Offered
  <2>5. \A p \in preference : p.id # n.id
    BY <1>1, <1>3, <2>3 DEF IsRow, At
  <2>6. \A p \in preference : ~Mine(r, p)
    BY <1>5, <2>2, <2>3
  <2>7. {p \in preference' : Mine(r, p)} = {n}
    BY <2>2, <2>3, <2>6
  <2>8. \A p, x \in preference' : p.id = x.id \/ SameSetting(p, x) => p = x
    BY <1>3, <2>2, <2>5 DEF SameSetting
  <2> QED
    BY <1>2, <1>3, <1>7, <2>2, <2>3, <2>4, <2>7, <2>8 DEF RowsAfter
<1>11. CASE q.ask.op # "clear" /\ \E p \in q.found : Update(r, p)
  <2>1. PICK p \in q.found : Update(r, p)
    BY <1>11
  <2>2. CASE p.model = q.ask.model
    <3>1. preference' = preference
      BY <2>1, <2>2 DEF Update
    <3>2. LET rows == {x \in preference : Mine(r, x)}
          IN  \/ rows = {} /\ None \in outcome'[k]
              \/ \E x \in rows : rows = {x} /\ x.model \in outcome'[k]
      <4>1. CASE q.alone
        <5>1. q.found = {x \in preference : Mine(r, x)}
          BY <1>1, <4>1 DEF SettingsInv, Findings
        <5>2. {x \in preference : Mine(r, x)} = {p}
          BY <1>3, <1>4, <1>5, <2>1, <5>1
        <5> QED
          BY <1>6, <1>7, <1>11, <2>2, <5>2
      <4>2. CASE ~q.alone
        BY <1>7, <1>8, <4>2
      <4> QED
        BY <4>1, <4>2
    <3> QED
      BY <1>2, <1>3, <3>1, <3>2 DEF RowsAfter
  <2>3. CASE p.model # q.ask.model
    <3>1. PICK n : n = [p EXCEPT !.model = q.ask.model, !.under = q.offer]
      OBVIOUS
    <3>2. ~Gone(p) /\ preference' = {x \in preference : x.id # p.id} \cup {n}
      BY <2>1, <2>3, <3>1 DEF Update
    <3>3. PICK old \in preference : old.id = p.id
      BY <3>2 DEF Gone
    <3>4. /\ n.id = p.id /\ SameSetting(n, p) /\ n.model = q.ask.model /\ n.under = q.offer
          /\ n.role = p.role /\ n.tenant = p.tenant
          /\ DOMAIN n = {"id", "tenant", "role", "model", "under"}
      BY <1>4, <2>1, <3>1 DEF IsRow, SameSetting
    <3>5. SameSetting(n, old) /\ Mine(r, n) /\ Mine(r, old)
      BY <1>4, <1>5, <2>1, <3>3, <3>4 DEF SameSetting
    <3>6. IsRow(n)'
      <4>1. Acceptable(q.offer, q.ask.role, q.ask.model) /\ n.role = q.ask.role
        BY <1>1, <1>11, <3>5 DEF Writing, Writes, Mine
      <4>2. IsRow(p)'
        BY <1>2, <1>4, <2>1
      <4> QED
        BY <1>1, <3>4, <4>1, <4>2 DEF IsRow, Offered
    <3>7. \A x \in preference : Mine(r, x) => x = old
      BY <1>3, <1>5, <3>5
    <3>8. {x \in preference' : Mine(r, x)} = {n}
      BY <3>2, <3>3, <3>5, <3>7
    <3>9. \A x, y \in preference' : x.id = y.id \/ SameSetting(x, y) => x = y
      <4>1. \A x \in preference : SameSetting(x, n) => x = old
        BY <1>5, <3>5, <3>7
      <4> QED
        BY <1>3, <3>2, <3>3, <3>4, <4>1 DEF SameSetting
    <3>10. \A x : ~Mine(r, x) => (x \in preference' <=> x \in preference)
      BY <1>3, <3>2, <3>3, <3>5
    <3>11. n.model = value
      BY <1>6, <1>11, <3>4
    <3>12. \A x \in preference' : x \in preference \/ x = n
      BY <3>2
    <3> QED
      BY <1>2, <1>3, <1>7, <3>3, <3>4, <3>5, <3>6, <3>8, <3>9, <3>10, <3>11, <3>12 DEF RowsAfter
  <2> QED
    BY <2>2, <2>3
<1> QED
  BY <1>1, <1>9, <1>10, <1>11 DEF Write

LEMMA CommitKeeps ==
    ASSUME SettingsInv, NEW r \in Request, Commit(r)
    PROVE  SettingsInv'
<1> DEFINE q == request[r]
<1>1. /\ At(r, "writing") /\ Writing(q) /\ DOMAIN request = Request
      /\ request' = [request EXCEPT ![r] = [at |-> "done"]] /\ Told(r)
      /\ catalog' = catalog /\ keys' = keys /\ platform' = platform
  BY StageOf DEF Commit, Answer, At, Proper
<1>2. RowsAfter(r)
  BY CommitWrites
<1>3. /\ \A s \in Request \ {r} : request'[s] = request[s]
      /\ DOMAIN request' = Request /\ request'[r] = [at |-> "done"]
  BY <1>1
<1>4. Stages'
  <2>1. \A p : Proper(p) => Proper(p)'
    BY <1>1 DEF Proper, Looking, Handling, Writing, TurnedDown, Served, Excused, Asking, Offered
  <2>2. Proper(request'[r])
    BY <1>3 DEF Proper
  <2>3. \A s \in Request : Proper(request'[s])
    BY <1>3, <2>2 DEF SettingsInv, Stages
  <2> QED
    BY <1>3, <2>1, <2>3 DEF Stages
<1>5. Rows'
  BY <1>2 DEF RowsAfter, Rows, SameSetting
<1>6. Findings'
  <2> SUFFICES ASSUME NEW s \in Request, At(s, "writing")'
               PROVE  /\ \A p \in request'[s].found :
                             /\ IsRow(p)' /\ Mine(s, p)'
                             /\ \A x \in preference' : x.id = p.id => SameSetting(x, p)
                      /\ request'[s].alone =>
                             /\ request'[s].found = {p \in preference' : Mine(s, p)'}
                             /\ Rivals(s)' = {}
    BY DEF Findings, SameSetting
  <2>1. s # r /\ At(s, "writing") /\ request'[s] = request[s]
    BY <1>3 DEF At
  <2>2. \A p : Mine(s, p)' <=> Mine(s, p)
    BY <2>1 DEF Mine
  <2>3. \A p : IsRow(p) => IsRow(p)'
    BY <1>1 DEF IsRow, At
  <2>4. ASSUME NEW p \in request[s].found
        PROVE  /\ IsRow(p) /\ Mine(s, p)
               /\ \A x \in preference' : x.id = p.id => SameSetting(x, p)
    <3>1. /\ IsRow(p) /\ Mine(s, p)
          /\ \A x \in preference : x.id = p.id => SameSetting(x, p)
      BY <2>1 DEF SettingsInv, Findings
    <3>2. p.id # r
      BY <1>1, <3>1 DEF IsRow, At
    <3> QED
      BY <1>2, <3>1, <3>2 DEF RowsAfter, SameSetting
  <2>5. ASSUME request[s].alone
        PROVE  /\ request[s].found = {p \in preference' : Mine(s, p)}
               /\ Rivals(s)' = {}
    <3>1. request[s].found = {p \in preference : Mine(s, p)} /\ Rivals(s) = {}
      BY <2>1, <2>5 DEF SettingsInv, Findings
    <3>2. \A p : Mine(s, p) => ~Mine(r, p)
      BY <1>1, <2>1, <3>1 DEF Rivals, Mine
    <3>3. Rivals(s)' \subseteq Rivals(s)
      BY <1>3, <2>1 DEF Rivals, At
    <3> QED
      BY <1>2, <3>1, <3>2, <3>3 DEF RowsAfter
  <2> QED
    BY <2>1, <2>2, <2>3, <2>4, <2>5
<1>7. Offering'
  <2>1. DOMAIN outcome' = DOMAIN outcome
    BY <1>1 DEF Told
  <2> QED
    BY <1>1, <2>1 DEF SettingsInv, Offering, Offered
<1>8. SettingsAreWhatWasAsked'
  <2> SUFFICES ASSUME NEW t \in Tenant, NEW role \in Role
               PROVE  LET rows == {p \in preference' : p.tenant = t /\ p.role = role}
                      IN  \/ rows = {} /\ None \in outcome'[<<t, role>>]
                          \/ \E p \in rows : rows = {p} /\ p.model \in outcome'[<<t, role>>]
    BY DEF SettingsAreWhatWasAsked
  <2>1. CASE t = q.tenant /\ role = q.ask.role
    BY <1>2, <2>1 DEF RowsAfter, Mine
  <2>2. CASE ~(t = q.tenant /\ role = q.ask.role)
    <3>1. outcome'[<<t, role>>] = outcome[<<t, role>>]
      <4>1. <<t, role>> \in DOMAIN outcome /\ <<t, role>> # <<q.tenant, q.ask.role>>
        BY <2>2 DEF SettingsInv, Offering
      <4> QED
        BY <1>1, <4>1 DEF Told
    <3>2. {p \in preference' : p.tenant = t /\ p.role = role} =
              {p \in preference : p.tenant = t /\ p.role = role}
      BY <1>2, <2>2 DEF RowsAfter, Mine
    <3> QED
      BY <3>1, <3>2 DEF SettingsInv, SettingsAreWhatWasAsked
  <2> QED
    BY <2>1, <2>2
<1> QED
  BY <1>4, <1>5, <1>6, <1>7, <1>8 DEF SettingsInv

-----------------------------------------------------------------------------
(* The theorems *)

\* It holds of what a process finds when it starts.
THEOREM SettingsStart == SettingsInit => SettingsInv
<1> SUFFICES ASSUME SettingsInit
             PROVE  SettingsInv
  OBVIOUS
<1>1. Offered(catalog) /\ preference \in Before /\ KeptRows(preference)
  BY SettingsAssumption DEF SettingsInit, Offered, SettingsAssumption
<1>2. Stages /\ Findings
  BY DEF SettingsInit, Stages, Findings, Proper, At
<1>3. Rows
  BY <1>1 DEF Rows, KeptRows, IsRow, SameSetting
<1>4. Offering
  BY <1>1 DEF SettingsInit, Offering
<1>5. SettingsAreWhatWasAsked
  <2> SUFFICES ASSUME NEW t \in Tenant, NEW role \in Role
               PROVE  LET rows == {p \in preference : p.tenant = t /\ p.role = role}
                      IN  \/ rows = {} /\ None \in outcome[<<t, role>>]
                          \/ \E p \in rows : rows = {p} /\ p.model \in outcome[<<t, role>>]
    BY DEF SettingsAreWhatWasAsked
  <2> DEFINE rows == {p \in preference : p.tenant = t /\ p.role = role}
  <2>1. outcome[<<t, role>>] = IF rows = {} THEN {None} ELSE {p.model : p \in rows}
    <3>1. {p \in preference : <<p.tenant, p.role>> = <<t, role>>} = rows
      OBVIOUS
    <3> QED
      BY <3>1 DEF SettingsInit
  <2>2. \A p, x \in rows : p = x
    BY <1>3 DEF Rows, SameSetting
  <2> HIDE DEF rows
  <2>3. \/ rows = {} /\ None \in outcome[<<t, role>>]
        \/ \E p \in rows : rows = {p} /\ p.model \in outcome[<<t, role>>]
    BY <2>1, <2>2
  <2> QED
    BY <2>3 DEF rows
<1> QED
  BY <1>2, <1>3, <1>4, <1>5 DEF SettingsInv

\* The other steps touch no request, but may offer another catalogue.
LEMMA OnlySessionsMove ==
    ASSUME SettingsInv, Offered(catalog'),
           UNCHANGED <<preference, keys, platform, request, outcome>>
    PROVE  SettingsInv'
<1>1. /\ preference' = preference /\ keys' = keys /\ platform' = platform
      /\ request' = request /\ outcome' = outcome
  OBVIOUS
<1>2. Offering'
  BY <1>1 DEF SettingsInv, Offering, Offered
<1>3. Stages'
  <2>1. \A q : Proper(q) => Proper(q)'
    BY <1>1 DEF Proper, Looking, Handling, Writing, TurnedDown, Served, Excused, Asking, Offered
  <2>2. \A r \in Request : Proper(request'[r])
    BY <1>1 DEF SettingsInv, Stages
  <2> QED
    BY <1>1, <2>1, <2>2 DEF SettingsInv, Stages
<1>4. \A p : IsRow(p) => IsRow(p)'
  BY <1>1 DEF IsRow, At
<1>5. Rows'
  BY <1>1, <1>4 DEF SettingsInv, Rows
<1>6. Findings'
  <2>1. \A r, p : Mine(r, p)' <=> Mine(r, p)
    BY <1>1 DEF Mine
  <2>2. \A r : Rivals(r)' = Rivals(r) /\ (At(r, "writing")' <=> At(r, "writing"))
    BY <1>1 DEF Rivals, At
  <2> QED
    BY <1>1, <1>4, <2>1, <2>2 DEF SettingsInv, Findings, SameSetting
<1>7. SettingsAreWhatWasAsked'
  BY <1>1 DEF SettingsInv, SettingsAreWhatWasAsked
<1> QED
  BY <1>2, <1>3, <1>5, <1>6, <1>7 DEF SettingsInv

\* Every step of every request keeps it.
THEOREM SettingsInductive == SettingsSpec => []SettingsInv
<1>1. ASSUME SettingsInv, SettingsNext
      PROVE  SettingsInv'
  <2>1. ASSUME NEW r \in Request, NEW h \in Presented, NEW ask \in Asks, Arrive(r, h, ask)
        PROVE  SettingsInv'
    BY <1>1, <2>1, ArriveKeeps
  <2>2. ASSUME NEW r \in Request,
               \/ Lookup(r) \/ Slide(r) \/ Refuse(r) \/ ReadRow(r) \/ Commit(r) \/ Fail(r)
               \/ Browse(r) \/ Read(r)
        PROVE  SettingsInv'
    BY <1>1, <2>2, LookupKeeps, SlideKeeps, RefuseKeeps, ReadRowKeeps, CommitKeeps,
       FailKeeps, BrowseKeeps, ReadKeeps
  <2>3. ASSUME NEW c \in Offers, Deploy(c)
        PROVE  SettingsInv'
    <3>1. Offered(catalog') /\ UNCHANGED <<preference, keys, platform, request, outcome>>
      BY <2>3 DEF Deploy, Offered
    <3> QED
      BY <1>1, <3>1, OnlySessionsMove
  <2>4. ASSUME UNCHANGED settings
        PROVE  SettingsInv'
    BY <1>1, <2>4, OnlySessionsMove DEF settings, SettingsInv, Offering
  <2> QED
    BY <1>1, <2>1, <2>2, <2>3, <2>4 DEF SettingsNext, LogIn, SessionsAge
<1>2. ASSUME SettingsInv, UNCHANGED allVars
      PROVE  SettingsInv'
  BY <1>2, OnlySessionsMove DEF allVars, settings, SettingsInv, Offering
<1> QED
  BY <1>1, <1>2, SettingsStart, PTL DEF SettingsSpec

\* For any number of requests of any tenants, whatever transactions fail and
\* whichever catalogues are deployed: a role has one setting, one that its tenant
\* was told since it was last set alone.
THEOREM SettingsAreAsAsked == SettingsSpec => []SettingsAreWhatWasAsked
<1>1. SettingsInv => SettingsAreWhatWasAsked
  BY DEF SettingsInv
<1> QED
  BY <1>1, SettingsInductive, PTL

\* For any catalogues: a served model has what the role needs, or one of the three
\* excuses, and what is refused is not on the menu.
THEOREM ServedAreCapable == SettingsSpec => []CapableUnlessExcused
<1>1. ASSUME SettingsInv
      PROVE  CapableUnlessExcused
  <2>1. ASSUME NEW r \in Request, At(r, "unprocessable")
        PROVE  <<request[r].ask.model, request[r].ask.role>> \notin Menu(request[r].offer)
    <3>1. TurnedDown(request[r])
      BY <1>1, <2>1, StageOf DEF At, Proper
    <3> QED
      BY <3>1, MenuIsAcceptable DEF TurnedDown, Asking, Offered
  <2>2. ASSUME NEW r \in Request, At(r, "served")
        PROVE  LET q == request[r]
                   model == Model(q.offer, q.choice.model)
               IN  \/ model.selectable /\ Supports(model, Requires(q.role))
                   \/ q.choice.by = "explicit-request"
                   \/ q.choice.by = "tenant-preference" /\ \A p \in q.rows : p.under # q.offer
                   \/ q.choice.by = "system-baseline" /\ q.role = "primary"
    <3>1. Served(request[r])
      BY <1>1, <2>2, StageOf DEF At, Proper
    <3> QED
      BY <3>1 DEF Served, Excused, Acceptable
  <2> QED
    BY <2>1, <2>2 DEF CapableUnlessExcused
<1> QED
  BY <1>1, SettingsInductive, PTL

\* For any rings of keys and any endpoints: the tenant's key first, never one that
\* does not fit, and the platform's only where the tenant has none.
THEOREM KeysAreTheRightOnes == SettingsSpec => []KeysGoWhereTheyBelong
<1>1. ASSUME SettingsInv
      PROVE  KeysGoWhereTheyBelong
  <2> SUFFICES ASSUME NEW r \in Request, At(r, "served")
               PROVE  LET q == request[r]
                          mine == keys[q.tenant]
                          all == ResolveMany(q.offer, Ids(q.offer.providers), mine, platform)
                      IN  /\ q.credential = all[Model(q.offer, q.choice.model).provider]
                          /\ \A id \in Ids(q.offer.providers) :
                                 LET one == Resolution(q.offer, id, mine, platform)
                                 IN  /\ one = all[id]
                                     /\ one.payer = "tenant" =>
                                            /\ Usable(q.offer, mine, id, one.holder)
                                            /\ mine[id] # "absent" => one.holder = id
                                            /\ one.url \in {mine[one.holder],
                                                            Provider(q.offer, id).url}
                                     /\ one.payer # "tenant" =>
                                            \A s \in Ids(q.offer.providers) :
                                                ~Usable(q.offer, mine, id, s)
                                     /\ one.payer = "platform" =>
                                            Provider(q.offer, id).access # "oauth"
    BY DEF KeysGoWhereTheyBelong
  <2> DEFINE q == request[r]
             provider == Model(q.offer, q.choice.model).provider
  <2>1. Served(q)
    BY <1>1, StageOf DEF At, Proper
  <2>2. provider \in Ids(q.offer.providers)
    <3>1. PICK i \in DOMAIN q.offer.models : Model(q.offer, q.choice.model) = q.offer.models[i]
      BY <2>1, NamedIsThere DEF Served, Offered, IsCatalog, HasModel, Model
    <3> QED
      BY <2>1, <3>1 DEF Served, Offered, IsCatalog, ToSet
  <2>3. q.credential = Resolution(q.offer, provider, keys[q.tenant], platform)
    BY <2>1 DEF Served
  <2>4. Offered(q.offer)
    BY <2>1 DEF Served
  <2> HIDE DEF q, provider
  <2> QED
    BY <2>2, <2>3, <2>4, KeyOfAnEndpoint DEF q, provider
<1> QED
  BY <1>1, SettingsInductive, PTL
================================================================================
