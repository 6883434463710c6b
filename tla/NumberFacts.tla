----------------------------- MODULE NumberFacts -----------------------------
(***************************************************************************)
(* Least numbers and induction over the natural numbers, stated with sets   *)
(* in place of predicates so that the provers can instantiate them.         *)
(***************************************************************************)
EXTENDS Naturals, WellFoundedInduction, TLAPS

\* A set of numbers that is not empty has a least one.
LEMMA LeastNumber ==
    ASSUME NEW T \in SUBSET Nat, T # {}
    PROVE  \E x \in T : \A y \in T : x <= y
<1>1. \E R : IsWellFoundedOn(R, Nat) /\ \A x, y \in Nat : x < y => <<x, y>> \in R
  <2>1. \A x, y \in Nat : x < y => <<x, y>> \in OpToRel(<, Nat)
    BY DEF OpToRel
  <2> QED
    BY <2>1, NatLessThanWellFounded, Zenon
<1>2. PICK R : IsWellFoundedOn(R, Nat) /\ \A x, y \in Nat : x < y => <<x, y>> \in R
  BY <1>1
<1>3. \E x \in T : \A y \in T : ~(<<y, x>> \in R)
  <2>1. IsWellFoundedOn(R, Nat) /\ T \subseteq Nat
    BY <1>2
  <2> QED
    BY <2>1, WFMin, Zenon
<1>4. \A x, y \in Nat : ~(x < y) => y <= x
  OBVIOUS
<1> QED
  BY <1>2, <1>3, <1>4

\* A set of numbers that holds 0 and every successor of a member holds every number.
LEMMA SetInduction ==
    ASSUME NEW S \in SUBSET Nat, 0 \in S, \A n \in S : n + 1 \in S
    PROVE  S = Nat
<1>1. SUFFICES ASSUME Nat \ S # {} PROVE FALSE
  OBVIOUS
<1>2. PICK m \in Nat \ S : \A y \in Nat \ S : m <= y
  BY LeastNumber, <1>1
<1>3. m - 1 \in S
  BY <1>2
<1> QED
  BY <1>2, <1>3

-----------------------------------------------------------------------------
(* Functions over 0 .. m in which every value follows from the one before.   *)

Inherits(f, m, T) ==
    f[0] \in T /\ \A i \in 1 .. m : f[i - 1] \in T => f[i] \in T

\* What holds of the first value and passes from each to the next holds of all.
LEMMA ValuesStay ==
    ASSUME NEW T, NEW m \in Nat, NEW f, Inherits(f, m, T)
    PROVE  \A i \in 0 .. m : f[i] \in T
<1> USE DEF Inherits
<1> DEFINE S == {i \in Nat : i <= m => f[i] \in T}
<1>1. 0 \in S
  OBVIOUS
<1>2. ASSUME NEW i \in S PROVE i + 1 \in S
  <2>1. SUFFICES ASSUME i + 1 <= m PROVE f[i + 1] \in T
    OBVIOUS
  <2>2. i + 1 \in 1 .. m /\ (i + 1) - 1 = i /\ f[i] \in T
    BY <2>1
  <2> QED
    BY <2>2
<1>3. S = Nat
  <2> HIDE DEF S
  <2>1. S \in SUBSET Nat
    BY DEF S
  <2> QED
    BY <1>1, <1>2, <2>1, SetInduction
<1> QED
  BY <1>3

InStep(f, g, m) ==
    f[0] = g[0] /\ \A i \in 1 .. m : f[i - 1] = g[i - 1] => f[i] = g[i]

\* Two functions that start alike and step alike are alike.
LEMMA ValuesAgree ==
    ASSUME NEW m \in Nat, NEW f, NEW g, InStep(f, g, m)
    PROVE  \A i \in 0 .. m : f[i] = g[i]
<1> USE DEF InStep
<1> DEFINE S == {i \in Nat : i <= m => f[i] = g[i]}
<1>1. 0 \in S
  OBVIOUS
<1>2. ASSUME NEW i \in S PROVE i + 1 \in S
  <2>1. SUFFICES ASSUME i + 1 <= m PROVE f[i + 1] = g[i + 1]
    OBVIOUS
  <2>2. i + 1 \in 1 .. m /\ (i + 1) - 1 = i /\ f[i] = g[i]
    BY <2>1
  <2> QED
    BY <2>2
<1>3. S = Nat
  <2> HIDE DEF S
  <2>1. S \in SUBSET Nat
    BY DEF S
  <2> QED
    BY <1>1, <1>2, <2>1, SetInduction
<1> QED
  BY <1>3

\* A function that steps from x by given functions on T exists.
Steps(m, T) == [1 .. m -> [T -> T]]

Follows(f, T, x, m, G) ==
    f \in [0 .. m -> T] /\ f[0] = x /\ \A i \in 1 .. m : f[i] = G[i][f[i - 1]]

LEMMA StepsExist ==
    ASSUME NEW T, NEW x \in T, NEW m \in Nat, NEW G \in Steps(m, T)
    PROVE  \E f : Follows(f, T, x, m, G)
<1> USE DEF Steps
<1> DEFINE Good(k, f) == f[0] = x /\ \A i \in 1 .. k : f[i] = G[i][f[i - 1]]
           S == {k \in Nat : k <= m => \E f \in [0 .. k -> T] : Good(k, f)}
<1>1. 0 \in S
  <2> DEFINE f == [i \in 0 .. 0 |-> x]
  <2>1. f \in [0 .. 0 -> T]
    OBVIOUS
  <2>2. f[0] = x /\ 1 .. 0 = {}
    OBVIOUS
  <2>3. Good(0, f)
    BY <2>2
  <2> QED
    BY <2>1, <2>3
<1>2. ASSUME NEW k \in S PROVE k + 1 \in S
  <2>0. (k + 1 <= m => \E f \in [0 .. k + 1 -> T] : Good(k + 1, f)) => k + 1 \in S
    <3> HIDE DEF Good
    <3> QED
      OBVIOUS
  <2>1. SUFFICES ASSUME k + 1 <= m PROVE \E f \in [0 .. k + 1 -> T] : Good(k + 1, f)
    <3> HIDE DEF Good, S
    <3> QED
      BY <2>0
  <2>2. k \in Nat /\ k <= m /\ k + 1 \in 1 .. m
    BY <2>1
  <2>3. PICK f \in [0 .. k -> T] : Good(k, f)
    BY <2>2
  <2> DEFINE g == [i \in 0 .. k + 1 |-> IF i = k + 1 THEN G[k + 1][f[k]] ELSE f[i]]
  <2>4. G[k + 1] \in [T -> T] /\ f[k] \in T
    BY <2>2
  <2>5. g \in [0 .. k + 1 -> T]
    BY <2>2, <2>4
  <2>6. g[k + 1] = G[k + 1][f[k]] /\ \A i \in 0 .. k : g[i] = f[i]
    BY <2>2
  <2> HIDE DEF g
  <2>7. ASSUME NEW i \in 1 .. k + 1 PROVE g[i] = G[i][g[i - 1]]
    <3>1. CASE i = k + 1
      BY <2>2, <2>6, <3>1
    <3>2. CASE i \in 1 .. k
      <4>1. i \in 0 .. k /\ i - 1 \in 0 .. k
        BY <2>2, <3>2
      <4> QED
        BY <2>3, <2>6, <3>2, <4>1
    <3> QED
      BY <2>2, <3>1, <3>2
  <2>8. g[0] = x
    BY <2>2, <2>3, <2>6
  <2> QED
    BY <2>5, <2>7, <2>8
<1>3. S = Nat
  <2> HIDE DEF S
  <2>1. S \in SUBSET Nat
    BY DEF S
  <2> QED
    BY <1>1, <1>2, <2>1, SetInduction
<1>4. \E f \in [0 .. m -> T] : Good(m, f)
  BY <1>3
<1> QED
  BY <1>4 DEF Follows
=============================================================================
