-------------------------- MODULE FiniteSumTheorems --------------------------
(* What SumOver is: nothing for the empty set, and one more term with each    *)
(* element.  And that numbers have a least one, which stands for induction.   *)
EXTENDS FiniteSums, FiniteSetTheorems, NaturalsInduction, WellFoundedInduction, TLAPS

LEMMA SumOfNone ==
    ASSUME NEW of
    PROVE  SumOver(of, {}) = 0
<1>1. Units(of, {}) = {}
  BY DEF Units
<1> QED
  BY <1>1, FS_EmptySet DEF SumOver

LEMMA UnitsOfOne ==
    ASSUME NEW x, NEW n \in Nat
    PROVE  /\ IsFiniteSet({x} \X (1..n))
           /\ Cardinality({x} \X (1..n)) = n
<1>1. IsFiniteSet(1..n) /\ Cardinality(1..n) = n
  BY FS_Interval
<1>2. IsFiniteSet({x}) /\ Cardinality({x}) = 1
  BY FS_Singleton
<1> QED
  BY <1>1, <1>2, FS_Product

LEMMA SumType ==
    ASSUME NEW S, IsFiniteSet(S), NEW of, \A s \in S : of[s] \in Nat
    PROVE  IsFiniteSet(Units(of, S)) /\ SumOver(of, S) \in Nat
<1> DEFINE Parts == {{s} \X (1..of[s]) : s \in S}
<1>1. IsFiniteSet(Parts)
  <2>1. [s \in S |-> {s} \X (1..of[s])] \in Surjection(S, Parts)
    BY DEF Surjection
  <2> QED
    BY <2>1, FS_Surjection
<1>2. ASSUME NEW part \in Parts
      PROVE  IsFiniteSet(part)
  <2>1. PICK s \in S : part = {s} \X (1..of[s])
    OBVIOUS
  <2>2. of[s] \in Nat
    OBVIOUS
  <2> QED
    BY <2>1, <2>2, UnitsOfOne
<1>3. IsFiniteSet(UNION Parts)
  BY <1>1, <1>2, FS_UNION
<1> QED
  BY <1>3, FS_CardinalityType DEF Units, SumOver

LEMMA SumAdd ==
    ASSUME NEW S, IsFiniteSet(S), NEW x, x \notin S,
           NEW of, \A s \in S \cup {x} : of[s] \in Nat
    PROVE  SumOver(of, S \cup {x}) = SumOver(of, S) + of[x]
<1> DEFINE One == {x} \X (1..of[x])
<1>1. Units(of, S \cup {x}) = Units(of, S) \cup One
  BY DEF Units
<1>2. Units(of, S) \cap One = {}
  BY DEF Units
<1>3. IsFiniteSet(Units(of, S)) /\ IsFiniteSet(One) /\ Cardinality(One) = of[x]
  BY SumType, UnitsOfOne
<1>4. Cardinality(Units(of, S) \cap One) = 0
  BY <1>2, FS_EmptySet
<1>5. of[x] \in Nat /\ Cardinality(Units(of, S)) \in Nat
  BY <1>3, FS_CardinalityType
<1> HIDE DEF One
<1>6. Cardinality(Units(of, S) \cup One) =
          Cardinality(Units(of, S)) + Cardinality(One) - Cardinality(Units(of, S) \cap One)
  BY <1>3, FS_Union
<1>7. Cardinality(Units(of, S) \cup One) = Cardinality(Units(of, S)) + of[x]
  BY <1>3, <1>4, <1>5, <1>6
<1> QED
  BY <1>1, <1>7 DEF SumOver

LEMMA SumRemove ==
    ASSUME NEW S, IsFiniteSet(S), NEW x \in S, NEW of, \A s \in S : of[s] \in Nat
    PROVE  SumOver(of, S \ {x}) = SumOver(of, S) - of[x]
<1>1. /\ IsFiniteSet(S \ {x}) /\ x \notin S \ {x} /\ (S \ {x}) \cup {x} = S
      /\ \A s \in S \ {x} : of[s] \in Nat
  BY FS_Subset
<1>2. SumOver(of, S) = SumOver(of, S \ {x}) + of[x]
  BY <1>1, SumAdd
<1>3. SumOver(of, S \ {x}) \in Nat
  BY <1>1, SumType
<1> QED
  BY <1>2, <1>3

LEMMA SumSame ==
    ASSUME NEW S, NEW f, NEW g, \A s \in S : f[s] = g[s]
    PROVE  SumOver(f, S) = SumOver(g, S)
BY DEF SumOver, Units

LEMMA SumChange ==
    ASSUME NEW S, IsFiniteSet(S), NEW x \in S, NEW f, NEW g,
           \A s \in S : f[s] \in Nat /\ g[s] \in Nat,
           \A s \in S \ {x} : f[s] = g[s]
    PROVE  SumOver(g, S) = SumOver(f, S) - f[x] + g[x]
<1>1. SumOver(f, S \ {x}) = SumOver(f, S) - f[x]
  BY SumRemove
<1>2. SumOver(g, S \ {x}) = SumOver(g, S) - g[x]
  BY SumRemove
<1>3. SumOver(f, S \ {x}) = SumOver(g, S \ {x})
  BY SumSame
<1>4. SumOver(f, S) \in Nat /\ SumOver(g, S) \in Nat
  BY SumType
<1> QED
  BY <1>1, <1>2, <1>3, <1>4

LEMMA SumMonotone ==
    ASSUME NEW S, IsFiniteSet(S), NEW T \in SUBSET S, NEW f, NEW g,
           \A s \in S : f[s] \in Nat /\ g[s] \in Nat,
           \A s \in T : f[s] <= g[s]
    PROVE  SumOver(f, T) <= SumOver(g, S)
<1>1. Units(f, T) \subseteq Units(g, S)
  <2>1. \A s \in T : 1..f[s] \subseteq 1..g[s]
    OBVIOUS
  <2> QED
    BY <2>1 DEF Units
<1>2. IsFiniteSet(Units(g, S))
  BY SumType
<1> QED
  BY <1>1, <1>2, FS_Subset DEF SumOver

LEMMA SumAtLeast ==
    ASSUME NEW S, IsFiniteSet(S), NEW x \in S, NEW of, \A s \in S : of[s] \in Nat
    PROVE  of[x] <= SumOver(of, S)
<1>1. IsFiniteSet(S \ {x})
  BY FS_Subset
<1>2. SumOver(of, S \ {x}) \in Nat /\ SumOver(of, S) \in Nat /\ of[x] \in Nat
  BY <1>1, SumType
<1>3. SumOver(of, S \ {x}) = SumOver(of, S) - of[x]
  BY SumRemove
<1> QED
  BY <1>2, <1>3

\* A set of numbers has a least one.
LEMMA LeastExists ==
    ASSUME NEW S, S \subseteq Nat, S # {}
    PROVE  \E x \in S : \A y \in S : x <= y
<1> DEFINE R == {ss \in Nat \X Nat : ss[1] < ss[2]}
<1>1. OpToRel(<, Nat) = R
  BY Zenon DEF OpToRel
<1>2. IsWellFoundedOn(R, Nat)
  BY <1>1, NatLessThanWellFounded, Zenon
<1>3. PICK x \in S : \A y \in S : ~(<<y, x>> \in R)
  <2> HIDE DEF R
  <2> QED
    BY <1>2, WFMin
<1>4. ASSUME NEW y \in S
      PROVE  x <= y
  <2>1. x \in Nat /\ y \in Nat
    BY <1>3
  <2>2. <<y, x>> \in Nat \X Nat /\ <<y, x>>[1] = y /\ <<y, x>>[2] = x
    BY <2>1
  <2>3. ~(y < x)
    BY <1>3, <2>2, Zenon
  <2> QED
    BY <2>1, <2>3
<1> QED
  BY <1>4

LEMMA SumOfSupport ==
    ASSUME NEW S, NEW T \in SUBSET S, NEW of, \A s \in S \ T : of[s] = 0
    PROVE  SumOver(of, S) = SumOver(of, T)
<1>1. \A s \in S \ T : {s} \X (1..of[s]) = {}
  OBVIOUS
<1>2. Units(of, S) = Units(of, T)
  BY <1>1 DEF Units
<1> QED
  BY <1>2 DEF SumOver

LEMMA SumOfParts ==
    ASSUME NEW S, IsFiniteSet(S), NEW f, NEW g, NEW h,
           \A s \in S : g[s] \in Nat /\ h[s] \in Nat /\ f[s] = g[s] + h[s]
    PROVE  SumOver(f, S) = SumOver(g, S) + SumOver(h, S)
<1> DEFINE Parts(T) == SumOver(f, T) = SumOver(g, T) + SumOver(h, T)
           Bad == {n \in Nat : \E T \in SUBSET S : Cardinality(T) = n /\ ~Parts(T)}
<1> SUFFICES ASSUME ~Parts(S) PROVE FALSE
  OBVIOUS
<1>1. \A T \in SUBSET S : IsFiniteSet(T) /\ Cardinality(T) \in Nat
  BY FS_Subset, FS_CardinalityType
<1>2. Bad \subseteq Nat /\ Bad # {}
  BY <1>1
<1>3. PICK n \in Bad : \A m \in Bad : n <= m
  <2> HIDE DEF Bad
  <2> QED
    BY <1>2, LeastExists
<1>4. PICK T \in SUBSET S : Cardinality(T) = n /\ ~Parts(T)
  OBVIOUS
<1>5. CASE T = {}
  BY <1>4, <1>5, SumOfNone
<1>6. CASE T # {}
  <2>1. PICK x \in T : TRUE
    BY <1>6
  <2>2. /\ IsFiniteSet(T) /\ T \ {x} \in SUBSET S
        /\ \A s \in T : f[s] \in Nat /\ g[s] \in Nat /\ h[s] \in Nat
    BY <1>1
  <2>3. Cardinality(T \ {x}) = n - 1
    BY <1>4, <2>2, FS_RemoveElement
  <2>4. n \in Nat /\ n - 1 \in Nat
    BY <1>1, <1>3, <2>2, <2>3
  <2>5. Parts(T \ {x})
    <3>1. n - 1 \notin Bad
      BY <1>3, <2>4
    <3> QED
      BY <2>2, <2>3, <2>4, <3>1
  <2>6. /\ SumOver(f, T \ {x}) = SumOver(f, T) - f[x]
        /\ SumOver(g, T \ {x}) = SumOver(g, T) - g[x]
        /\ SumOver(h, T \ {x}) = SumOver(h, T) - h[x]
    BY <2>2, SumRemove
  <2>7. SumOver(f, T) \in Nat /\ SumOver(g, T) \in Nat /\ SumOver(h, T) \in Nat
    BY <2>2, SumType
  <2>8. f[x] = g[x] + h[x] /\ g[x] \in Nat /\ h[x] \in Nat
    BY <2>1
  <2> QED
    BY <1>4, <2>5, <2>6, <2>7, <2>8
<1> QED
  BY <1>5, <1>6
=============================================================================
