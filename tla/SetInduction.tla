---------------------------- MODULE SetInduction ----------------------------
(***************************************************************************)
(* Induction over the natural numbers, and the existence of functions that *)
(* are defined by recursion over them, for predicates that are given as a  *)
(* set and steps that are given as functions.                              *)
(***************************************************************************)
EXTENDS Naturals, NaturalsInduction, WellFoundedInduction, TLAPS

\* A set of numbers has a smallest element.
LEMMA Smallest ==
  ASSUME NEW T \in SUBSET Nat, T # {}
  PROVE  \E n \in T : \A m \in T : n <= m
<1>1. IsWellFoundedOn(OpToRel(<, Nat), Nat)
  BY NatLessThanWellFounded
<1>2. PICK n \in T : \A m \in T : <<m, n>> \notin OpToRel(<, Nat)
  BY <1>1, WFMin
<1>3. \A m \in T : ~(m < n)
  BY <1>2 DEF OpToRel
<1> QED BY <1>3

\* Induction up to a bound: a set that has 0, and the successor of each of its
\* numbers below N, has every number up to N.
THEOREM RangeInduction ==
  ASSUME NEW N \in Nat, NEW T,
         0 \in T, \A n \in 0..N : n \in T /\ n < N => n + 1 \in T
  PROVE  0..N \subseteq T
<1> DEFINE Missing == (0..N) \ T
<1> SUFFICES ASSUME Missing # {} PROVE FALSE
  OBVIOUS
<1>1. Missing \in SUBSET Nat
  OBVIOUS
<1>2. PICK n \in Missing : \A m \in Missing : n <= m
  BY <1>1, Smallest
<1>3. n \in 0..N /\ n # 0
  OBVIOUS
<1>4. n - 1 \in 0..N /\ n - 1 < N /\ n - 1 \notin Missing /\ (n - 1) + 1 = n
  BY <1>2, <1>3
<1> QED BY <1>4

\* f has the value start at 0, and each step[k] leads to its value at k.
RecursiveUpto(f, N, start, step) ==
  f[0] = start /\ \A k \in 1..N : f[k] = step[k][f[k-1]]

\* Recursion up to a bound: there is such a function.
THEOREM RecursionExists ==
  ASSUME NEW S, NEW N \in Nat, NEW start \in S, NEW step \in [1..N -> [S -> S]]
  PROVE  \E f \in [0..N -> S] : RecursiveUpto(f, N, start, step)
<1> DEFINE Upto(m, f) == RecursiveUpto(f, m, start, step)
           T == {m \in 0..N : \E f \in [0..m -> S] : Upto(m, f)}
<1> USE DEF RecursiveUpto
<1>1. 0 \in T
  <2> DEFINE g == [k \in 0..0 |-> start]
  <2>1. g \in [0..0 -> S] /\ Upto(0, g)
    OBVIOUS
  <2> HIDE DEF Upto, g, RecursiveUpto
  <2>2. \E f \in [0..0 -> S] : Upto(0, f)
    BY <2>1
  <2> QED BY <2>2
<1>2. ASSUME NEW n \in 0..N, n \in T, n < N PROVE n + 1 \in T
  <2>1. PICK f \in [0..n -> S] : Upto(n, f)
    BY <1>2
  <2> DEFINE g == [k \in 0..(n+1) |-> IF k = n + 1 THEN step[n+1][f[n]] ELSE f[k]]
  <2>2. step[n+1][f[n]] \in S
    BY <1>2, n + 1 \in 1..N, n \in 0..n
  <2>3. g \in [0..(n+1) -> S]
    BY <2>2
  <2>4. g[0] = start
    BY <2>1, 0 # n + 1, 0 \in 0..(n+1)
  <2>5. ASSUME NEW k \in 1..(n+1) PROVE g[k] = step[k][g[k-1]]
    <3>1. k \in 0..(n+1) /\ k - 1 \in 0..n /\ k - 1 \in 0..(n+1) /\ k - 1 # n + 1
      OBVIOUS
    <3>2. g[k-1] = f[k-1]
      BY <3>1
    <3>3. CASE k = n + 1
      BY <3>1, <3>2, <3>3
    <3>4. CASE k # n + 1
      <4>1. k \in 1..n /\ g[k] = f[k]
        BY <3>1, <3>4
      <4> QED BY <4>1, <3>2, <2>1
    <3> QED BY <3>3, <3>4
  <2>6. Upto(n + 1, g)
    BY <2>4, <2>5
  <2> HIDE DEF Upto, g, RecursiveUpto
  <2>7. \E h \in [0..(n+1) -> S] : Upto(n + 1, h)
    BY <2>3, <2>6
  <2>8. n + 1 \in 0..N
    BY <1>2
  <2> QED BY <2>7, <2>8
<1> HIDE DEF T, RecursiveUpto
<1>3. 0..N \subseteq T
  BY <1>1, <1>2, RangeInduction
<1>4. N \in T
  BY <1>3
<1> QED BY <1>4 DEF T
=============================================================================
