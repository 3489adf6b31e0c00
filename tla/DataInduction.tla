--------------------------- MODULE DataInduction ---------------------------
(***************************************************************************)
(* Induction over data, from the one fact of the library that needs no     *)
(* predicate as a parameter: the strict subset ordering of the finite      *)
(* subsets of a set is well founded.  With it the folds the model is       *)
(* written with are functions that exist, so that their definitions can be *)
(* unfolded one position at a time.                                        *)
(***************************************************************************)
EXTENDS Integers, SequencesExt, FiniteSetTheorems, TLAPS

\* A set of numbers has a least element.
LEMMA Least ==
  ASSUME NEW S, S \subseteq Nat, S # {}
  PROVE  \E m \in S : \A k \in S : m <= k
<1> DEFINE F == {0 .. n : n \in S}
<1>1. F \subseteq FiniteSubsetsOf(Nat)
  <2> SUFFICES ASSUME NEW n \in S PROVE 0 .. n \in FiniteSubsetsOf(Nat)
    OBVIOUS
  <2>1. n \in Nat /\ IsFiniteSet(0 .. n)
    BY FS_Interval
  <2> QED
    BY <2>1 DEF FiniteSubsetsOf
<1>2. F # {}
  OBVIOUS
<1>3. \E x \in F : \A y \in F : ~ (<<y, x>> \in StrictSubsetOrdering(Nat))
  <2> HIDE DEF F
  <2> QED
    BY <1>1, <1>2, FS_StrictSubsetOrderingWellFounded, WFMin
<1>4. PICK m \in S : \A k \in S : ~ (<<0 .. k, 0 .. m>> \in StrictSubsetOrdering(Nat))
  BY <1>3
<1>5. ASSUME NEW k \in S, k < m
      PROVE  FALSE
  <2>1. k \in Nat /\ m \in Nat
    OBVIOUS
  <2>2. 0 .. k \subseteq 0 .. m /\ m \in 0 .. m /\ m \notin 0 .. k
    BY <2>1, <1>5
  <2>3. <<0 .. k, 0 .. m>> \in StrictSubsetOrdering(Nat)
    BY <2>1, <2>2 DEF StrictSubsetOrdering
  <2> QED
    BY <2>3, <1>4
<1> QED
  <2>1. m \in Nat /\ \A k \in S : k \in Nat
    OBVIOUS
  <2> QED
    BY <1>5, <2>1

\* Induction, with a set for the predicate.
LEMMA Induction ==
  ASSUME NEW S, 0 \in S, \A n \in Nat : n \in S => n + 1 \in S
  PROVE  \A n \in Nat : n \in S
<1> SUFFICES ASSUME Nat \ S # {} PROVE FALSE
  OBVIOUS
<1>1. PICK m \in Nat \ S : \A k \in Nat \ S : m <= k
  <2> DEFINE R == Nat \ S
  <2>1. R \subseteq Nat /\ R # {}
    OBVIOUS
  <2> HIDE DEF R
  <2>2. \E m \in R : \A k \in R : m <= k
    BY <2>1, Least
  <2> QED
    BY <2>2 DEF R
<1>2. m # 0 /\ m \in Nat
  OBVIOUS
<1>3. m - 1 \in Nat /\ ~(m <= m - 1) /\ m = (m - 1) + 1
  BY <1>2
<1>4. m - 1 \in S
  BY <1>1, <1>3
<1> QED
  BY <1>3, <1>4

\* The greatest element of a set of positions.
LEMMA MaxIn ==
  ASSUME NEW n \in Nat, NEW s \in SUBSET (1 .. n), s # {}
  PROVE  Max(s) \in s /\ \A k \in s : k <= Max(s)
<1> DEFINE Mirror == {n - k : k \in s}
<1>1. Mirror \subseteq Nat /\ Mirror # {}
  <2>1. \A k \in s : k \in 1 .. n /\ n - k \in Nat
    OBVIOUS
  <2> QED
    BY <2>1
<1>2. \E m \in Mirror : \A k \in Mirror : m <= k
  <2> HIDE DEF Mirror
  <2> QED
    BY <1>1, Least
<1>3. PICK m \in s : \A k \in s : n - m <= n - k
  BY <1>2
<1>4. \A k \in s : m >= k
  BY <1>3
<1>5. \E x \in s : \A y \in s : x >= y
  BY <1>4
<1> QED
  BY <1>5 DEF Max

LEMMA WithoutMax ==
  ASSUME NEW n \in Nat, NEW k \in Nat, NEW s \in SUBSET (1 .. n), s # {}, \A i \in s : i <= k + 1
  PROVE  /\ Max(s) \in 1 .. n /\ s \ {Max(s)} \in SUBSET (1 .. n)
         /\ \A i \in s \ {Max(s)} : i <= k
<1>1. PICK m \in s : m = Max(s) /\ \A i \in s : i <= m
  BY MaxIn
<1>2. ASSUME NEW i \in s \ {m}
      PROVE  i <= k
  <2>1. i \in Nat /\ m \in Nat /\ i <= m /\ i # m /\ m <= k + 1
    BY <1>1
  <2> QED
    BY <2>1
<1> QED
  BY <1>1, <1>2

\* g folds F over sets of positions, the greatest position last.
IsFold(g, n, base, F) ==
  \A s \in SUBSET (1 .. n) : g[s] = IF s = {} THEN base ELSE F[<<Max(s), g[s \ {Max(s)}]>>]

\* The function on sets of positions that a fold is defined by exists.
LEMMA FoldExists ==
  ASSUME NEW n \in Nat, NEW V, NEW base \in V, NEW F \in [(1 .. n) \X V -> V]
  PROVE  \E g \in [SUBSET (1 .. n) -> V] : IsFold(g, n, base, F)
<1> DEFINE Below(k) == {s \in SUBSET (1 .. n) : \A i \in s : i <= k}
           Solves(g, k) ==
             \A s \in Below(k) : g[s] = IF s = {} THEN base ELSE F[<<Max(s), g[s \ {Max(s)}]>>]
           Solved == {k \in Nat : \E g \in [Below(k) -> V] : Solves(g, k)}
<1>1. 0 \in Solved
  <2> DEFINE g == [s \in Below(0) |-> base]
  <2>1. \A s \in Below(0) : s = {}
    OBVIOUS
  <2>2. g \in [Below(0) -> V] /\ Solves(g, 0)
    BY <2>1
  <2> QED
    BY <2>2
<1>2. ASSUME NEW k \in Nat, k \in Solved
      PROVE  k + 1 \in Solved
  <2>1. PICK g \in [Below(k) -> V] : Solves(g, k)
    BY <1>2
  <2>2. ASSUME NEW s \in Below(k + 1), s # {}
        PROVE  Max(s) \in 1 .. n /\ s \ {Max(s)} \in Below(k)
    BY <2>2, WithoutMax
  <2> DEFINE h == [s \in Below(k + 1) |->
                     IF s = {} THEN base ELSE F[<<Max(s), g[s \ {Max(s)}]>>]]
  <2>3. Below(k) \subseteq Below(k + 1)
    OBVIOUS
  <2>4. \A s \in Below(k) : h[s] = g[s]
    BY <2>1, <2>3
  <2>5. h \in [Below(k + 1) -> V]
    <3> SUFFICES ASSUME NEW s \in Below(k + 1), s # {}
                 PROVE  F[<<Max(s), g[s \ {Max(s)}]>>] \in V
      OBVIOUS
    <3>1. <<Max(s), g[s \ {Max(s)}]>> \in (1 .. n) \X V
      BY <2>1, <2>2
    <3> QED
      BY <3>1
  <2>6. Solves(h, k + 1)
    <3> SUFFICES ASSUME NEW s \in Below(k + 1)
                 PROVE  h[s] = IF s = {} THEN base ELSE F[<<Max(s), h[s \ {Max(s)}]>>]
      OBVIOUS
    <3>1. CASE s = {}
      BY <3>1
    <3>2. CASE s # {}
      <4>1. h[s] = F[<<Max(s), g[s \ {Max(s)}]>>]
        BY <3>2
      <4>2. h[s \ {Max(s)}] = g[s \ {Max(s)}]
        BY <3>2, <2>2, <2>4
      <4> QED
        BY <3>2, <4>1, <4>2
    <3> QED
      BY <3>1, <3>2
  <2> HIDE DEF Solves, Below, h
  <2> QED
    BY <2>5, <2>6
<1>3. n \in Solved
  <2> HIDE DEF Solved
  <2> QED
    BY <1>1, <1>2, Induction
<1>4. Below(n) = SUBSET (1 .. n)
  OBVIOUS
<1> QED
  BY <1>3, <1>4 DEF IsFold

\* A fold over the first k positions ends with the k-th.
LEMMA MaxOfPrefix ==
  ASSUME NEW k \in Nat \ {0}
  PROVE  Max(1 .. k) = k /\ (1 .. k) \ {Max(1 .. k)} = 1 .. (k - 1) /\ 1 .. k # {}
<1>1. \E x \in 1 .. k : \A y \in 1 .. k : x >= y
  OBVIOUS
<1>2. Max(1 .. k) = k
  BY <1>1 DEF Max
<1>3. (1 .. k) \ {k} = 1 .. (k - 1) /\ 1 .. k # {}
  OBVIOUS
<1> QED
  BY <1>2, <1>3

\* What holds before a fold, and is kept by each of its steps, holds after it.
LEMMA Upto ==
  ASSUME NEW n \in Nat, NEW S, 0 \in S, \A k \in 1 .. n : k - 1 \in S => k \in S
  PROVE  n \in S
<1> DEFINE R == {k \in Nat : k <= n => k \in S}
<1>1. 0 \in R
  OBVIOUS
<1>2. \A k \in Nat : k \in R => k + 1 \in R
  OBVIOUS
<1>3. n \in R
  <2> HIDE DEF R
  <2> QED
    BY <1>1, <1>2, Induction
<1> QED
  BY <1>3
=============================================================================
