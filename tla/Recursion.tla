----------------------------- MODULE Recursion ------------------------------
(***************************************************************************)
(* What the proofs need of functions defined by recursion on 0..N: that    *)
(* they exist, so that their equations may be used, and induction along    *)
(* them.  Induction is stated for sets, not for predicates, and comes from *)
(* the least element outside the set.                                      *)
(***************************************************************************)
EXTENDS Integers, WellFoundedInduction, TLAPS

\* Induction on 0..N.
LEMMA SetInduction ==
  ASSUME NEW N \in Nat, NEW T, 0 \in T, \A n \in 1..N : n - 1 \in T => n \in T
  PROVE  0..N \subseteq T
<1> SUFFICES ASSUME ~(0..N \subseteq T) PROVE FALSE
  OBVIOUS
<1> DEFINE M == (0..N) \ T
           R == OpToRel(<, Nat)
<1>1. M \subseteq Nat /\ M # {}
  OBVIOUS
<1>2. IsWellFoundedOn(R, Nat)
  BY NatLessThanWellFounded
<1>3. \E x \in M : \A y \in M : ~(<<y, x>> \in R)
  <2> HIDE DEF M, R
  <2> QED BY <1>1, <1>2, WFMin
<1>4. PICK x \in M : \A y \in M : ~(<<y, x>> \in R)
  BY <1>3
<1>5. \A y \in M : ~(y < x)
  <2> HIDE DEF M
  <2> QED BY <1>1, <1>4 DEF OpToRel
<1>6. x \in 1..N /\ x - 1 \in 0..N /\ x - 1 \notin M
  BY <1>5
<1> QED BY <1>6

\* Two functions that start alike and go on alike are the same on 0..N.
LEMMA SameSteps ==
  ASSUME NEW N \in Nat, NEW g, NEW h, g[0] = h[0],
         \A n \in 1..N : g[n-1] = h[n-1] => g[n] = h[n]
  PROVE  \A n \in 0..N : g[n] = h[n]
<1> DEFINE T == {n \in 0..N : g[n] = h[n]}
<1>1. 0 \in T /\ \A n \in 1..N : n - 1 \in T => n \in T
  OBVIOUS
<1>2. 0..N \subseteq T
  <2> HIDE DEF T
  <2> QED BY <1>1, SetInduction
<1> QED BY <1>2

\* A function that does not change after k has at N the value it has at k.
LEMMA Steady ==
  ASSUME NEW N \in Nat, NEW k \in 0..N, NEW g, \A n \in 1..N : n > k => g[n] = g[n-1]
  PROVE  g[N] = g[k]
<1> DEFINE T == {n \in 0..N : n >= k => g[n] = g[k]}
<1>1. 0 \in T /\ \A n \in 1..N : n - 1 \in T => n \in T
  OBVIOUS
<1>2. 0..N \subseteq T
  <2> HIDE DEF T
  <2> QED BY <1>1, SetInduction
<1> QED BY <1>2

\* The functions from 0..N to V, and the steps that define one.
Maps(N, V)  == [0..N -> V]
Steps(N, V) == [V \X (1..N) -> V]

\* A value b and a step function define a function on 0..N.
LEMMA RecursionExists ==
  ASSUME NEW V, NEW N \in Nat, NEW b \in V, NEW st \in Steps(N, V)
  PROVE  \E g \in Maps(N, V) : g[0] = b /\ \A n \in 1..N : g[n] = st[<<g[n-1], n>>]
<1> USE DEF Maps, Steps
<1> DEFINE Defines(g, n) == g \in [0..n -> V] /\ g[0] = b /\ \A i \in 1..n : g[i] = st[<<g[i-1], i>>]
           T == {n \in 0..N : \E g : Defines(g, n)}
<1>1. 0 \in T
  <2> DEFINE h == [i \in 0..0 |-> b]
  <2>1. Defines(h, 0)
    OBVIOUS
  <2>2. \E g : Defines(g, 0)
    <3> HIDE DEF Defines, h
    <3> QED BY <2>1
  <2> QED BY <2>2
<1>2. ASSUME NEW n \in 1..N, n - 1 \in T PROVE n \in T
  <2>1. PICK g : Defines(g, n-1)
    BY <1>2
  <2> DEFINE h == [i \in 0..n |-> IF i = n THEN st[<<g[n-1], n>>] ELSE g[i]]
  <2>2. g[n-1] \in V /\ st[<<g[n-1], n>>] \in V
    BY <2>1
  <2>3. h \in [0..n -> V] /\ h[0] = b
    BY <2>1, <2>2
  <2>4. ASSUME NEW i \in 1..n PROVE h[i] = st[<<h[i-1], i>>]
    <3>1. h[i-1] = g[i-1]
      OBVIOUS
    <3>2. CASE i = n
      <4>1. h[n] = st[<<g[n-1], n>>]
        OBVIOUS
      <4> HIDE DEF h
      <4> QED BY <3>1, <3>2, <4>1
    <3>3. CASE i # n
      <4>1. i \in 1..(n-1) /\ h[i] = g[i]
        BY <3>3
      <4> QED BY <2>1, <3>1, <4>1
    <3> QED BY <3>2, <3>3
  <2>5. Defines(h, n)
    <3> HIDE DEF h
    <3> QED BY <2>3, <2>4
  <2>6. \E f : Defines(f, n)
    <3> HIDE DEF Defines, h
    <3> QED BY <2>5
  <2> QED BY <2>6
<1>3. N \in T
  <2> HIDE DEF T
  <2> QED BY <1>1, <1>2, SetInduction
<1> QED BY <1>3

=============================================================================
