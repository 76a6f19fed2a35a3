------------------------------ MODULE Induction ------------------------------
(***************************************************************************)
(* Induction over the natural numbers, in a form first-order provers can   *)
(* instantiate: the property is a set, not an operator.                    *)
(***************************************************************************)
EXTENDS Integers, FiniteSetTheorems, WellFoundedInduction, TLAPS

\* A set with 0 that is closed under successor has all naturals: otherwise
\* there were a least one that is missing.
THEOREM SetInduction ==
  ASSUME NEW S, 0 \in S, \A n \in Nat : n \in S => n + 1 \in S
  PROVE  Nat \subseteq S
<1> SUFFICES ASSUME Nat \ S # {} PROVE FALSE OBVIOUS
<1> DEFINE R == OpToRel(<, Nat)
<1>1. IsWellFoundedOn(R, Nat) BY NatLessThanWellFounded, Zenon
<1>2. \A m, k \in Nat : k < m => <<k, m>> \in R BY DEF OpToRel
<1> HIDE DEF R
<1>3. PICK m \in Nat \ S : \A y \in Nat \ S : ~(<<y, m>> \in R)
  <2>1. Nat \ S \subseteq Nat OBVIOUS
  <2> QED BY <1>1, <2>1, WFMin
<1>4. m - 1 \in Nat /\ m - 1 < m /\ (m - 1) + 1 = m OBVIOUS
<1>5. m - 1 \in S BY <1>2, <1>3, <1>4
<1> QED BY <1>4, <1>5

\* The same up to a bound.
LEMMA BoundedInduction ==
  ASSUME NEW N \in Nat, NEW S, 0 \in S, \A n \in 0..(N - 1) : n \in S => n + 1 \in S
  PROVE  0..N \subseteq S
<1> DEFINE T == {n \in Nat : n <= N => n \in S}
<1>1. 0 \in T OBVIOUS
<1>2. \A n \in Nat : n \in T => n + 1 \in T OBVIOUS
<1> HIDE DEF T
<1>3. Nat \subseteq T BY <1>1, <1>2, SetInduction
<1> QED BY <1>3 DEF T

\* There are n numbers up to n.
LEMMA CountTo ==
  ASSUME NEW n \in Nat
  PROVE  IsFiniteSet(1..n) /\ Cardinality(1..n) = n
<1>1. 1 \in Int /\ n \in Int OBVIOUS
<1>2. Cardinality(1..n) = IF 1 > n THEN 0 ELSE n - 1 + 1 BY <1>1, FS_Interval
<1> QED BY <1>1, <1>2, FS_Interval

\* A step from each value and number to the next value makes a function of
\* the numbers.
Iterates(f, N, V, v, F) ==
  /\ f \in [0..N -> V] /\ f[0] = v
  /\ \A n \in 1..N : f[n] = F[<<f[n - 1], n>>]

THEOREM Recursion ==
  ASSUME NEW N \in Nat, NEW V, NEW v \in V, NEW F \in [V \X (1..N) -> V]
  PROVE  \E f : Iterates(f, N, V, v, F)
<1> DEFINE Solves(f, m) ==
             f \in [0..m -> V] /\ f[0] = v /\ \A n \in 1..m : f[n] = F[<<f[n - 1], n>>]
           S == {m \in Nat : m <= N => \E f : Solves(f, m)}
<1>1. 0 \in S
  <2>1. Solves([n \in 0..0 |-> v], 0) OBVIOUS
  <2> HIDE DEF Solves
  <2> QED BY <2>1
<1>2. ASSUME NEW m \in Nat, m \in S PROVE m + 1 \in S
  <2> SUFFICES ASSUME m + 1 <= N PROVE \E f : Solves(f, m + 1) OBVIOUS
  <2>1. PICK f : Solves(f, m)
    <3> HIDE DEF Solves
    <3> QED BY <1>2
  <2> DEFINE g == [n \in 0..(m + 1) |-> IF n <= m THEN f[n] ELSE F[<<f[m], m + 1>>]]
  <2>2. f[m] \in V /\ m + 1 \in 1..N BY <2>1
  <2>3. F[<<f[m], m + 1>>] \in V BY <2>2
  <2>4. g \in [0..(m + 1) -> V] BY <2>1, <2>3
  <2>5. \A n \in 0..m : g[n] = f[n] OBVIOUS
  <2>6. g[m + 1] = F[<<f[m], m + 1>>] OBVIOUS
  <2> HIDE DEF g
  <2>7. ASSUME NEW n \in 1..(m + 1) PROVE g[n] = F[<<g[n - 1], n>>]
    <3>1. n - 1 \in 0..m OBVIOUS
    <3>2. CASE n = m + 1
      <4>1. n - 1 = m BY <3>2
      <4> QED BY <2>5, <2>6, <3>1, <3>2, <4>1
    <3>3. CASE n # m + 1
      <4>1. n \in 1..m /\ n \in 0..m BY <3>3
      <4> QED BY <2>1, <2>5, <3>1, <4>1
    <3> QED BY <3>2, <3>3
  <2>8. g[0] = v BY <2>1, <2>5
  <2>9. Solves(g, m + 1) BY <2>4, <2>7, <2>8
  <2> HIDE DEF Solves
  <2> QED BY <2>9
<1> HIDE DEF S
<1>3. Nat \subseteq S BY <1>1, <1>2, SetInduction
<1>4. N \in S BY <1>3
<1> QED BY <1>4 DEF S, Iterates
=============================================================================
