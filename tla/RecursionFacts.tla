--------------------------- MODULE RecursionFacts ---------------------------
(***************************************************************************)
(* Induction over the natural numbers, stated for a set of numbers, and    *)
(* what it gives for a function that is defined by recursion.              *)
(***************************************************************************)
EXTENDS Integers, WellFoundedInduction, TLAPS

(* A set with 0 and with the successor of each of its members is all of Nat. *)
LEMMA NatInd ==
    ASSUME NEW S \in SUBSET Nat, 0 \in S, \A n \in S : n + 1 \in S
    PROVE  S = Nat
<1> SUFFICES ASSUME Nat \ S # {} PROVE FALSE
  OBVIOUS
<1> DEFINE R == OpToRel(<, Nat)
           T == Nat \ S
<1>1. IsWellFoundedOn(R, Nat)
  BY NatLessThanWellFounded
<1>2. T \subseteq Nat /\ T # {}
  OBVIOUS
<1> HIDE DEF R, T
<1>3. PICK x \in T : \A y \in T : ~ (<<y, x>> \in R)
  BY <1>1, <1>2, WFMin
<1>4. \A y \in T : ~(y < x)
  BY <1>2, <1>3 DEF R, OpToRel
<1>5. x # 0 /\ x \in Nat
  BY DEF T
<1>6. x - 1 \in Nat /\ x - 1 \notin T
  BY <1>4, <1>5
<1> QED
  BY <1>5, <1>6 DEF T

(* The first n values of such a function. *)
Begun(V, b, step, n) ==
    {f \in [0 .. n -> V] : f[0] = b /\ \A k \in 0 .. n - 1 : f[k + 1] = step[<<f[k], k>>]}

LEMMA BegunExists ==
    ASSUME NEW V, NEW b \in V, NEW step \in [V \X Nat -> V]
    PROVE  \A n \in Nat : Begun(V, b, step, n) # {}
<1> DEFINE S == {n \in Nat : Begun(V, b, step, n) # {}}
<1>1. 0 \in S
  <2> DEFINE f == [k \in 0 .. 0 |-> b]
  <2>1. f \in Begun(V, b, step, 0)
    BY DEF Begun
  <2> QED
    BY <2>1
<1>2. ASSUME NEW n \in S PROVE n + 1 \in S
  <2>1. PICK f : f \in Begun(V, b, step, n)
    OBVIOUS
  <2>2. f \in [0 .. n -> V] /\ f[0] = b /\ \A k \in 0 .. n - 1 : f[k + 1] = step[<<f[k], k>>]
    BY <2>1 DEF Begun
  <2> DEFINE v == step[<<f[n], n>>]
             g == [k \in 0 .. n + 1 |-> IF k = n + 1 THEN v ELSE f[k]]
  <2>3. v \in V
    <3>1. f[n] \in V
      BY <2>2
    <3> QED
      BY <3>1
  <2>4. g \in [0 .. n + 1 -> V] /\ g[0] = b
    BY <2>2, <2>3
  <2>5. ASSUME NEW k \in 0 .. n PROVE g[k + 1] = step[<<g[k], k>>]
    <3>1. g[k] = f[k]
      OBVIOUS
    <3>2. CASE k = n
      <4>1. n + 1 \in 0 .. n + 1 /\ g[n + 1] = v
        OBVIOUS
      <4> QED
        BY <3>1, <3>2, <4>1
    <3>3. CASE k # n
      <4>1. k \in 0 .. n - 1 /\ g[k + 1] = f[k + 1]
        BY <3>3
      <4> QED
        BY <2>2, <3>1, <4>1
    <3> QED
      BY <3>2, <3>3
  <2> HIDE DEF g
  <2>6. g \in Begun(V, b, step, n + 1)
    <3>1. (n + 1) - 1 = n
      OBVIOUS
    <3> QED
      BY <2>4, <2>5, <3>1 DEF Begun
  <2> QED
    BY <2>6
<1> HIDE DEF S
<1>3. S = Nat
  <2>1. S \in SUBSET Nat
    BY DEF S
  <2> QED
    BY <1>1, <1>2, <2>1, NatInd
<1> QED
  BY <1>3 DEF S

LEMMA BegunAgree ==
    ASSUME NEW V, NEW b \in V, NEW step \in [V \X Nat -> V],
           NEW n \in Nat, NEW m \in Nat,
           NEW f \in Begun(V, b, step, n), NEW g \in Begun(V, b, step, m)
    PROVE  \A k \in Nat : k <= n /\ k <= m => f[k] = g[k]
<1> DEFINE S == {k \in Nat : k <= n /\ k <= m => f[k] = g[k]}
<1>0. /\ f[0] = b /\ \A k \in 0 .. n - 1 : f[k + 1] = step[<<f[k], k>>]
      /\ g[0] = b /\ \A k \in 0 .. m - 1 : g[k + 1] = step[<<g[k], k>>]
  BY DEF Begun
<1>1. 0 \in S
  BY <1>0
<1>2. ASSUME NEW k \in S PROVE k + 1 \in S
  <2> SUFFICES ASSUME k + 1 <= n, k + 1 <= m PROVE f[k + 1] = g[k + 1]
    OBVIOUS
  <2>1. k \in 0 .. n - 1 /\ k \in 0 .. m - 1 /\ f[k] = g[k]
    OBVIOUS
  <2> QED
    BY <1>0, <2>1
<1> HIDE DEF S
<1>3. S = Nat
  <2>1. S \in SUBSET Nat
    BY DEF S
  <2> QED
    BY <1>1, <1>2, <2>1, NatInd
<1> QED
  BY <1>3 DEF S

(* The functions that begin with b and go on by step. *)
Recursive(V, b, step) ==
    {f \in [Nat -> V] : f[0] = b /\ \A n \in Nat : f[n + 1] = step[<<f[n], n>>]}

(* There is one: a definition by recursion defines a function. *)
LEMMA RecursionExists ==
    ASSUME NEW V, NEW b \in V, NEW step \in [V \X Nat -> V]
    PROVE  Recursive(V, b, step) # {}
<1> DEFINE part == [n \in Nat |-> CHOOSE f : f \in Begun(V, b, step, n)]
           h == [n \in Nat |-> part[n][n]]
<1>1. \A n \in Nat : part[n] \in Begun(V, b, step, n)
  BY BegunExists
<1> HIDE DEF part
<1>2. ASSUME NEW n \in Nat
      PROVE  part[n][n] \in V /\ part[n + 1][n + 1] = step[<<part[n][n], n>>]
  <2>1. part[n] \in [0 .. n -> V]
    BY <1>1 DEF Begun
  <2>2. part[n + 1][n + 1] = step[<<part[n + 1][n], n>>]
    <3>1. part[n + 1] \in Begun(V, b, step, n + 1) /\ n \in 0 .. (n + 1) - 1
      BY <1>1
    <3> QED
      BY <3>1 DEF Begun
  <2>3. part[n + 1][n] = part[n][n]
    <3>1. ASSUME NEW m \in Nat, n <= m PROVE part[m][n] = part[n][n]
      <4>1. part[n] \in Begun(V, b, step, n) /\ part[m] \in Begun(V, b, step, m)
        BY <1>1
      <4> HIDE DEF part
      <4> QED
        BY <3>1, <4>1, BegunAgree
    <3> QED
      BY <3>1
  <2> QED
    BY <2>1, <2>2, <2>3
<1>3. h \in [Nat -> V] /\ \A n \in Nat : h[n + 1] = step[<<h[n], n>>]
  <2>1. \A n \in Nat : h[n] = part[n][n] /\ n + 1 \in Nat
    OBVIOUS
  <2>2. h \in [Nat -> V]
    BY <1>2
  <2> HIDE DEF h
  <2> QED
    BY <1>2, <2>1, <2>2
<1>4. h[0] = b
  <2>1. part[0] \in Begun(V, b, step, 0)
    BY <1>1
  <2> QED
    BY <2>1 DEF Begun
<1> HIDE DEF h
<1> QED
  BY <1>3, <1>4 DEF Recursive

=============================================================================
