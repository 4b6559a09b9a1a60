------------------------------ MODULE ProofBasics ------------------------------
(***************************************************************************)
(* Induction and recursion, said of sets and functions instead of          *)
(* formulas and operators, and the greatest of finitely many numbers.      *)
(***************************************************************************)
EXTENDS Naturals, FiniteSetsExt, WellFoundedInduction, NaturalsInduction, FiniteSetTheorems, TLAPS

\* Among natural numbers there is a least.
LEMMA LeastNatural ==
  ASSUME NEW T \in SUBSET Nat, T # {}
  PROVE  \E n \in T : \A k \in T : n <= k
<1> DEFINE R == {p \in Nat \X Nat : p[1] < p[2]}
<1>1. IsWellFoundedOn(R, Nat)
  BY NatLessThanWellFounded DEF OpToRel
<1>2. \E x \in T : \A y \in T : ~ (<<y, x>> \in R)
  <2> HIDE DEF R
  <2> QED BY <1>1, WFMin
<1>3. PICK x \in T : \A y \in T : ~ (<<y, x>> \in R)
  BY <1>2
<1>4. ASSUME NEW y \in T PROVE x <= y
  <2>1. <<y, x>> \in Nat \X Nat /\ <<y, x>>[1] = y /\ <<y, x>>[2] = x /\ x \in Nat /\ y \in Nat
    OBVIOUS
  <2>2. ~(y < x)
    BY <1>3, <2>1
  <2> QED BY <2>1, <2>2
<1> QED BY <1>4

\* A set of natural numbers that has 0 and the successor of each of them below a
\* bound has all up to the bound.
LEMMA UpTo ==
  ASSUME NEW n \in Nat, NEW T, 0 \in T, \A k \in 0 .. n - 1 : k \in T => k + 1 \in T
  PROVE  \A k \in 0 .. n : k \in T
<1> DEFINE F == {k \in 0 .. n : k \notin T}
<1> SUFFICES ASSUME F # {} PROVE FALSE
  OBVIOUS
<1>1. PICK m \in F : \A k \in F : m <= k
  <2>1. F \in SUBSET Nat
    OBVIOUS
  <2> HIDE DEF F
  <2> QED BY <2>1, LeastNatural
<1>2. m \in 0 .. n /\ m \notin T /\ m # 0
  OBVIOUS
<1>3. m - 1 \in 0 .. n - 1 /\ ~(m <= m - 1)
  BY <1>2
<1>4. m - 1 \in T
  BY <1>1, <1>3
<1> QED BY <1>2, <1>3, <1>4

\* What is true of 0 and carried on is true of all.
LEMMA ByStep ==
  ASSUME NEW T, 0 \in T, \A k \in Nat : k \in T => k + 1 \in T
  PROVE  \A n \in Nat : n \in T
<1> SUFFICES ASSUME NEW n \in Nat PROVE n \in T
  OBVIOUS
<1>1. \A k \in 0 .. n : k \in T
  BY UpTo
<1> QED BY <1>1

\* Steps on values, and a function that goes through them
Steps(n, V) == [1 .. n -> [V -> V]]
Walks(n, V, e, F) == \E g \in [0 .. n -> V] : g[0] = e /\ \A k \in 1 .. n : g[k] = F[k][g[k - 1]]

\* There is a function whose every value is made from the one before.
LEMMA Iterated ==
  ASSUME NEW n \in Nat, NEW V, NEW e \in V, NEW F \in Steps(n, V)
  PROVE  Walks(n, V, e, F)
<1> USE DEF Steps, Walks
<1> DEFINE Reached(m) == \E g \in [0 .. m -> V] : g[0] = e /\ \A k \in 1 .. m : g[k] = F[k][g[k - 1]]
           T == {m \in Nat : m <= n => Reached(m)}
<1>1. 0 \in T
  <2> DEFINE g == [k \in 0 .. 0 |-> e]
  <2>1. g \in [0 .. 0 -> V] /\ g[0] = e /\ \A k \in 1 .. 0 : g[k] = F[k][g[k - 1]]
    OBVIOUS
  <2> HIDE DEF g
  <2> QED BY <2>1
<1>2. ASSUME NEW m \in Nat, m \in T PROVE m + 1 \in T
  <2> SUFFICES ASSUME m + 1 <= n PROVE Reached(m + 1)
    OBVIOUS
  <2>1. PICK g \in [0 .. m -> V] : g[0] = e /\ \A k \in 1 .. m : g[k] = F[k][g[k - 1]]
    BY <1>2
  <2> DEFINE h == [k \in 0 .. m + 1 |-> IF k = m + 1 THEN F[m + 1][g[m]] ELSE g[k]]
  <2>2. /\ h[m + 1] = F[m + 1][g[m]]
        /\ \A k \in 0 .. m : h[k] = g[k]
    OBVIOUS
  <2>3. g[m] \in V /\ m + 1 \in 1 .. n /\ F[m + 1][g[m]] \in V
    OBVIOUS
  <2>4. h \in [0 .. m + 1 -> V]
    BY <2>3
  <2>5. ASSUME NEW k \in 1 .. m + 1 PROVE h[k] = F[k][h[k - 1]]
    <3>1. CASE k = m + 1
      BY <2>2, <3>1
    <3>2. CASE k \in 1 .. m
      <4>1. k \in 0 .. m /\ k - 1 \in 0 .. m
        BY <3>2
      <4> HIDE DEF h
      <4> QED BY <2>1, <2>2, <3>2, <4>1
    <3> QED BY <3>1, <3>2
  <2>6. h[0] = e
    BY <2>1
  <2> HIDE DEF h
  <2> QED BY <2>4, <2>5, <2>6
<1>3. n \in T
  <2> HIDE DEF T
  <2> QED BY <1>1, <1>2, ByStep
<1> QED BY <1>3

\* Finitely many natural numbers have a greatest.
LEMMA GreatestIs ==
  ASSUME NEW S \in SUBSET Nat, IsFiniteSet(S), S # {}
  PROVE  Max(S) \in S /\ \A y \in S : y <= Max(S)
<1> DEFINE HasMax(X) == \E x \in X : \A y \in X : x >= y
           T == {n \in Nat : \A X \in SUBSET Nat : IsFiniteSet(X) /\ X # {} /\ Cardinality(X) = n => HasMax(X)}
<1>1. 0 \in T
  BY FS_EmptySet
<1>2. ASSUME NEW n \in Nat, n \in T PROVE n + 1 \in T
  <2> SUFFICES ASSUME NEW X \in SUBSET Nat, IsFiniteSet(X), X # {}, Cardinality(X) = n + 1 PROVE HasMax(X)
    OBVIOUS
  <2>1. PICK x \in X : TRUE
    OBVIOUS
  <2>2. IsFiniteSet(X \ {x}) /\ Cardinality(X \ {x}) = n
    <3>1. Cardinality(X \ {x}) = Cardinality(X) - 1 /\ IsFiniteSet(X \ {x})
      BY FS_RemoveElement
    <3>2. Cardinality(X) = n + 1
      OBVIOUS
    <3> QED BY <3>1, <3>2
  <2>3. CASE X \ {x} = {}
    BY <2>3
  <2>4. CASE X \ {x} # {}
    <3>1. PICK m \in X \ {x} : \A y \in X \ {x} : m >= y
      BY <1>2, <2>2, <2>4
    <3>2. m \in Nat /\ x \in Nat /\ X \subseteq Nat
      OBVIOUS
    <3>3. CASE m >= x
      BY <3>1, <3>2, <3>3
    <3>4. CASE x >= m
      BY <3>1, <3>2, <3>4
    <3> QED BY <3>2, <3>3, <3>4
  <2> QED BY <2>3, <2>4
<1>3. Cardinality(S) \in Nat
  BY FS_CardinalityType
<1>4. Cardinality(S) \in T
  <2> HIDE DEF T
  <2> QED BY <1>1, <1>2, <1>3, ByStep
<1>5. HasMax(S)
  BY <1>4
<1> QED BY <1>5 DEF Max
=============================================================================
