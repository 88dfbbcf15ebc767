---------------------------- MODULE DataInduction ----------------------------
(***************************************************************************)
(* Induction over data in a form that the provers can use.  The induction  *)
(* theorems of the library take a predicate as their parameter; here the   *)
(* predicate is the set of the numbers it holds of, so that the induction  *)
(* is a first-order fact.  It rests on the well-foundedness of finite sets *)
(* under inclusion.                                                        *)
(***************************************************************************)
EXTENDS Naturals, Sequences, TLAPS, FiniteSetTheorems, WellFoundedInduction

(* Every set of natural numbers that is not empty has a least element: of   *)
(* the sets 1 .. n, one has none of the others strictly inside it.          *)
LEMMA LeastNat ==
  ASSUME NEW T, T \subseteq Nat, T # {}
  PROVE  \E n \in T : \A m \in T : n <= m
<1> DEFINE U == {1 .. n : n \in T}
           R == StrictSubsetOrdering(Nat)
<1>1. IsWellFoundedOn(R, FiniteSubsetsOf(Nat))
  BY FS_StrictSubsetOrderingWellFounded
<1>2. U \subseteq FiniteSubsetsOf(Nat) /\ U # {}
  <2>1. ASSUME NEW n \in T PROVE 1 .. n \in FiniteSubsetsOf(Nat)
    <3>1. 1 \in Int /\ n \in Int /\ 1 .. n \in SUBSET Nat
      OBVIOUS
    <3>2. IsFiniteSet(1 .. n)
      BY <3>1, FS_Interval
    <3> QED
      BY <3>1, <3>2 DEF FiniteSubsetsOf
  <2> QED
    BY <2>1
<1> HIDE DEF R
<1>3. \E x \in U : \A y \in U : ~ (<<y, x>> \in R)
  <2> HIDE DEF U
  <2> QED
    BY <1>1, <1>2, WFMin
<1>4. PICK n \in T : \A m \in T : ~ (<<1 .. m, 1 .. n>> \in R)
  BY <1>3
<1>5. ASSUME NEW m \in T PROVE n <= m
  <2>1. SUFFICES ASSUME m < n PROVE FALSE
    OBVIOUS
  <2>2. 1 .. m \in SUBSET Nat /\ 1 .. n \in SUBSET Nat /\ 1 .. m \subseteq 1 .. n
    BY <2>1
  <2>3. n \in 1 .. n /\ n \notin 1 .. m
    BY <2>1
  <2>4. <<1 .. m, 1 .. n>> \in R
    BY <2>2, <2>3 DEF R, StrictSubsetOrdering
  <2> QED
    BY <1>4, <2>4
<1> QED
  BY <1>5

(* A set of numbers with 0 in it and, with every number, the next one, has  *)
(* them all in it.                                                          *)
LEMMA SetInduction ==
  ASSUME NEW S, 0 \in S, \A n \in Nat : n \in S => n + 1 \in S
  PROVE  Nat \subseteq S
<1>1. SUFFICES ASSUME NEW x \in Nat, x \notin S PROVE FALSE
  OBVIOUS
<1>2. PICK n \in Nat \ S : \A m \in Nat \ S : n <= m
  BY <1>1, LeastNat
<1>3. n # 0 /\ n - 1 \in Nat /\ n - 1 \in S
  BY <1>2
<1> QED
  BY <1>2, <1>3

(* f starts at a and makes the steps D, from its last value and the index.  *)
Steps(S, n, a, D, f) ==
  f \in [0 .. n -> S] /\ f[0] = a /\ \A i \in 1 .. n : f[i] = D[<<f[i - 1], i>>]

(* Such a function exists, so a definition f[i \in 0 .. n] == ... f[i - 1]  *)
(* ... has the values its equations say.                                    *)
LEMMA StepFunction ==
  ASSUME NEW S, NEW n \in Nat, NEW a \in S, NEW D \in [S \X (1 .. n) -> S]
  PROVE  \E f : Steps(S, n, a, D, f)
<1> DEFINE Good(k, f) == f[0] = a /\ \A i \in 1 .. k : f[i] = D[<<f[i - 1], i>>]
           K == {k \in Nat : k <= n => \E f \in [0 .. k -> S] : Good(k, f)}
<1>1. 0 \in K
  <2>1. [i \in 0 .. 0 |-> a] \in [0 .. 0 -> S] /\ Good(0, [i \in 0 .. 0 |-> a])
    OBVIOUS
  <2> QED
    BY <2>1
<1>2. ASSUME NEW k \in Nat, k \in K PROVE k + 1 \in K
  <2>1. SUFFICES ASSUME k + 1 <= n PROVE \E g \in [0 .. k + 1 -> S] : Good(k + 1, g)
    OBVIOUS
  <2>2. PICK f \in [0 .. k -> S] : Good(k, f)
    BY <1>2, <2>1
  <2> DEFINE g == [i \in 0 .. k + 1 |-> IF i = k + 1 THEN D[<<f[k], k + 1>>] ELSE f[i]]
  <2>3. D[<<f[k], k + 1>>] \in S
    BY <2>1
  <2>4. g \in [0 .. k + 1 -> S]
    BY <2>3
  <2>5. g[0] = a
    BY <2>2
  <2>6. ASSUME NEW i \in 1 .. k + 1 PROVE g[i] = D[<<g[i - 1], i>>]
    <3>1. CASE i = k + 1
      <4>1. k \in 0 .. k + 1 /\ k + 1 \in 0 .. k + 1 /\ k # k + 1 /\ i - 1 = k
        BY <3>1
      <4>2. g[k] = f[k] /\ g[k + 1] = D[<<f[k], k + 1>>]
        BY <4>1, Zenon
      <4> QED
        BY <3>1, <4>1, <4>2
    <3>2. CASE i # k + 1
      BY <2>2, <3>2
    <3> QED
      BY <3>1, <3>2
  <2> HIDE DEF g
  <2> QED
    BY <2>4, <2>5, <2>6
<1> HIDE DEF K
<1>3. n \in K
  BY <1>1, <1>2, SetInduction
<1> QED
  BY <1>3 DEF K, Steps
=============================================================================
