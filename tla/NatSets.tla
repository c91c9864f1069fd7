------------------------------ MODULE NatSets ------------------------------
(***************************************************************************)
(* Induction on the natural numbers, stated for sets instead of            *)
(* predicates: the properties are {n \in Nat : P(n)}.                      *)
(***************************************************************************)
EXTENDS Naturals, FiniteSetTheorems, TLAPS

\* Every set of natural numbers that is not empty has a least element: of the
\* intervals below its elements one is minimal under inclusion.
LEMMA LeastElement ==
  ASSUME NEW T \in SUBSET Nat, T # {}
  PROVE  \E x \in T : \A y \in T : x <= y
<1> DEFINE I == {0..x : x \in T}
<1>1. I \subseteq FiniteSubsetsOf(Nat)
  <2> SUFFICES ASSUME NEW x \in T PROVE 0..x \in FiniteSubsetsOf(Nat)
    OBVIOUS
  <2>1. IsFiniteSet(0..x)
    BY FS_Interval
  <2> QED BY <2>1 DEF FiniteSubsetsOf
<1>2. IsWellFoundedOn(StrictSubsetOrdering(Nat), FiniteSubsetsOf(Nat))
  BY FS_StrictSubsetOrderingWellFounded
<1>3. I # {}
  OBVIOUS
<1>4. \E a \in I : \A b \in I : <<b, a>> \notin StrictSubsetOrdering(Nat)
  <2> HIDE DEF I
  <2> QED BY <1>1, <1>2, <1>3, WFMin
<1>5. PICK x \in T : \A y \in T : <<0..y, 0..x>> \notin StrictSubsetOrdering(Nat)
  BY <1>4
<1>6. ASSUME NEW y \in T, ~(x <= y) PROVE FALSE
  <2>1. /\ 0..y \subseteq 0..x /\ 0..y # 0..x
        /\ 0..y \in SUBSET Nat /\ 0..x \in SUBSET Nat
    BY <1>6
  <2>2. <<0..y, 0..x>> \in StrictSubsetOrdering(Nat)
    BY <2>1 DEF StrictSubsetOrdering
  <2> QED BY <1>5, <2>2
<1> QED BY <1>6

\* A set that holds 0 and with each number the next holds every number.
THEOREM SetInduction ==
  ASSUME NEW T, 0 \in T, \A n \in Nat : n \in T => n + 1 \in T
  PROVE  Nat \subseteq T
<1> SUFFICES ASSUME Nat \ T # {} PROVE FALSE
  OBVIOUS
<1>1. PICK x \in Nat \ T : \A y \in Nat \ T : x <= y
  <2>1. Nat \ T \in SUBSET Nat
    OBVIOUS
  <2> QED BY <2>1, LeastElement
<1>2. x # 0 /\ x - 1 \in Nat
  BY <1>1
<1>3. x - 1 \in T
  BY <1>1, <1>2
<1>4. (x - 1) + 1 = x
  BY <1>2
<1> QED BY <1>1, <1>2, <1>3, <1>4

\* A function may be defined by recursion on 0..N when each value is in X if
\* the one before it is: one for 0..n gives one for 0..n + 1.
Recurs(g, N, X, first, F) ==
  /\ g \in [0..N -> X] /\ g[0] = first
  /\ \A i \in 1..N : g[i] = F[i][g[i - 1]]

LEMMA Recursion ==
  ASSUME NEW N \in Nat, NEW X, NEW first \in X, NEW F \in [1..N -> [X -> X]]
  PROVE  \E g : Recurs(g, N, X, first, F)
<1> DEFINE Next(g, i) == IF i = 0 THEN first ELSE F[i][g[i - 1]]
           Defined(n) == \E g \in [0..n -> X] : g = [i \in 0..n |-> Next(g, i)]
           T == {n \in Nat : n <= N => Defined(n)}
<1>1. 0 \in T
  <2> DEFINE g == [i \in 0..0 |-> first]
  <2>1. g \in [0..0 -> X] /\ g = [i \in 0..0 |-> Next(g, i)]
    OBVIOUS
  <2> QED BY <2>1
<1>2. ASSUME NEW n \in Nat, n \in T PROVE n + 1 \in T
  <2> SUFFICES ASSUME n + 1 <= N PROVE Defined(n + 1)
    OBVIOUS
  <2>1. PICK g \in [0..n -> X] : g = [i \in 0..n |-> Next(g, i)]
    BY <1>2
  <2>2. F[n + 1][g[n]] \in X
    OBVIOUS
  <2> DEFINE h == [i \in 0..(n + 1) |-> IF i = n + 1 THEN F[n + 1][g[n]] ELSE g[i]]
  <2>3. h \in [0..(n + 1) -> X]
    BY <2>2
  <2>4. ASSUME NEW i \in 0..(n + 1) PROVE h[i] = Next(h, i)
    <3>1. CASE i = 0
      BY <2>1, <3>1
    <3>2. CASE i # 0
      <4>1. i - 1 \in 0..n /\ h[i - 1] = g[i - 1]
        BY <3>2
      <4>2. CASE i = n + 1
        <5>1. i - 1 = n
          BY <4>2
        <5> QED BY <4>1, <4>2, <3>2, <5>1
      <4>3. CASE i \in 0..n
        <5>1. h[i] = g[i]
          BY <4>3
        <5>2. g[i] = F[i][g[i - 1]]
          BY <2>1, <4>3, <3>2
        <5> QED BY <3>2, <4>1, <5>1, <5>2
      <4> QED BY <4>2, <4>3
    <3> QED BY <3>1, <3>2
  <2>5. h = [i \in 0..(n + 1) |-> Next(h, i)]
    <3> HIDE DEF Next
    <3> QED BY <2>4
  <2> HIDE DEF h
  <2> QED BY <2>3, <2>5
<1>3. N \in T
  <2> HIDE DEF T
  <2> QED BY <1>1, <1>2, SetInduction
<1> QED BY <1>3, \A i \in 1..N : i \in 0..N DEF Recurs
=============================================================================
