----------------------------- MODULE Recursion ------------------------------
(***************************************************************************)
(* Induction over an interval of naturals, and recursive functions on one, *)
(* stated with sets and functions instead of operators, so that they can   *)
(* be used for the recursive functions of the models.                      *)
(***************************************************************************)
EXTENDS Integers, WellFoundedInduction, TLAPS

(* A nonempty set of naturals has a least element.                         *)
LEMMA LeastNatural ==
    ASSUME NEW T \in SUBSET Nat, T # {}
    PROVE  \E m \in T : \A n \in T : m <= n
<1> DEFINE R == OpToRel(<, Nat)
<1>1. IsWellFoundedOn(R, Nat)
  BY NatLessThanWellFounded
<1>2. \A y, m \in Nat : y < m => <<y, m>> \in R
  BY DEF OpToRel
<1> HIDE DEF R
<1>3. PICK m \in T : \A y \in T : ~ (<<y, m>> \in R)
  BY <1>1, WFMin
<1>4. ASSUME NEW n \in T PROVE m <= n
  <2>1. m \in Nat /\ n \in Nat /\ ~ (n < m)
    BY <1>2, <1>3
  <2> QED BY <2>1
<1> QED BY <1>3, <1>4

(* Induction from 0 up to m.                                               *)
LEMMA IntervalInduction ==
    ASSUME NEW m \in Nat, NEW T, 0 \in T, \A k \in 1..m : k - 1 \in T => k \in T
    PROVE  \A k \in 0..m : k \in T
<1> DEFINE Bad == {k \in 0..m : k \notin T}
<1> SUFFICES ASSUME Bad # {} PROVE FALSE
  OBVIOUS
<1>1. Bad \in SUBSET Nat
  OBVIOUS
<1>2. PICK j \in Bad : \A n \in Bad : j <= n
  <2> HIDE DEF Bad
  <2> QED BY <1>1, LeastNatural
<1>3. j \in 1..m /\ j - 1 \notin Bad
  BY <1>2
<1> QED BY <1>2, <1>3

(* f is the function that starts with v and goes on with H.                *)
Recurs(f, m, V, v, H) ==
    /\ f \in [0..m -> V] /\ f[0] = v
    /\ \A k \in 1..m : f[k] = H[<<k, f[k - 1]>>]

(* There is one for all v and H.                                           *)
LEMMA RecursiveFunction ==
    ASSUME NEW m \in Nat, NEW V, NEW v \in V, NEW H \in [(1..m) \X V -> V]
    PROVE  \E f : Recurs(f, m, V, v, H)
<1> DEFINE Upto(j, g) == Recurs(g, j, V, v, H)
           T == {j \in 0..m : \E g : Upto(j, g)}
<1>1. 0 \in T
  <2>1. Upto(0, [k \in 0..0 |-> v])
    BY DEF Recurs
  <2> HIDE DEF Upto
  <2> QED BY <2>1
<1>2. ASSUME NEW j \in 0..m, j # m, NEW g, Upto(j, g)
      PROVE  \E h : Upto(j + 1, h)
  <2> DEFINE h == [k \in 0..(j + 1) |-> IF k <= j THEN g[k] ELSE H[<<j + 1, g[j]>>]]
  <2>1. h \in [0..(j + 1) -> V]
    <3>1. j \in 0..j /\ j + 1 \in 1..m /\ g[j] \in V
      BY <1>2 DEF Recurs
    <3>2. H[<<j + 1, g[j]>>] \in V
      BY <3>1
    <3> QED BY <1>2, <3>2 DEF Recurs
  <2>2. h[0] = v
    BY <1>2 DEF Recurs
  <2>3. ASSUME NEW k \in 1..(j + 1) PROVE h[k] = H[<<k, h[k - 1]>>]
    <3>1. k - 1 \in 0..j /\ h[k - 1] = g[k - 1]
      OBVIOUS
    <3>2. CASE k <= j
      BY <1>2, <3>1, <3>2 DEF Recurs
    <3>3. CASE k = j + 1
      <4>1. h[k] = H[<<j + 1, g[j]>>]
        BY <3>3
      <4>2. h[k - 1] = g[j]
        BY <3>1, <3>3
      <4> HIDE DEF h
      <4> QED BY <3>3, <4>1, <4>2
    <3> QED BY <3>2, <3>3
  <2> HIDE DEF h
  <2> QED BY <2>1, <2>2, <2>3 DEF Recurs
<1>3. ASSUME NEW k \in 1..m, k - 1 \in T PROVE k \in T
  <2> HIDE DEF Upto
  <2>1. PICK g : Upto(k - 1, g)
    BY <1>3
  <2>2. \E h : Upto((k - 1) + 1, h)
    BY <1>2, <2>1
  <2> QED BY <2>2
<1>4. m \in T
  <2> HIDE DEF T
  <2> QED BY <1>1, <1>3, IntervalInduction
<1> QED BY <1>4
=============================================================================
