------------------------------ MODULE Induction -----------------------------
(***************************************************************************)
(* Induction over the naturals and the functions it defines, in a form     *)
(* that takes sets and functions where the library takes operators: what   *)
(* the proofs about the recursive functions of the models rest on.         *)
(***************************************************************************)
EXTENDS Integers, Sequences, TLAPS, WellFoundedInduction

Less == { p \in Nat \X Nat : p[1] < p[2] }

(* A set of natural numbers has a least element.                           *)
LEMMA Least ==
    ASSUME NEW T, T \subseteq Nat, T # {}
    PROVE  \E x \in T : \A y \in T : x <= y
<1>1. IsWellFoundedOn(Less, Nat)
  BY NatLessThanWellFounded, Zenon DEF OpToRel, Less
<1>2. PICK x \in T : \A y \in T : ~(<<y, x>> \in Less)
  BY <1>1, WFMin
<1>3. ASSUME NEW y \in T PROVE x <= y
  <2>1. <<y, x>> \in Nat \X Nat /\ <<y, x>>[1] = y /\ <<y, x>>[2] = x
    OBVIOUS
  <2>2. ~(y < x)
    BY <1>2, <2>1 DEF Less
  <2> QED BY <2>2
<1> QED BY <1>3

(* Induction up to a bound, over the set of the numbers it holds for.      *)
LEMMA Induct ==
    ASSUME NEW bound \in Nat, NEW H, 0 \in H, \A k \in 1..bound : k - 1 \in H => k \in H
    PROVE  \A k \in 0..bound : k \in H
<1> DEFINE Bad == { k \in 0..bound : k \notin H }
<1>1. SUFFICES ASSUME Bad # {} PROVE FALSE
  OBVIOUS
<1>2. PICK k \in Bad : \A m \in Bad : k <= m
  <2>1. Bad \subseteq Nat
    OBVIOUS
  <2> HIDE DEF Bad
  <2> QED BY <1>1, <2>1, Least
<1>3. k \in 1..bound /\ k \notin H /\ k - 1 \in 0..bound
  OBVIOUS
<1>4. k - 1 \in H
  BY <1>2, <1>3
<1> QED BY <1>3, <1>4

(* Induction over all naturals.                                            *)
LEMMA InductNat ==
    ASSUME NEW H, 0 \in H, \A k \in Nat : k \in H => k + 1 \in H
    PROVE  \A k \in Nat : k \in H
<1> SUFFICES ASSUME NEW bound \in Nat PROVE bound \in H
  OBVIOUS
<1>1. \A k \in 1..bound : k - 1 \in H => k \in H
  <2> SUFFICES ASSUME NEW k \in 1..bound, k - 1 \in H PROVE k \in H
    OBVIOUS
  <2>1. k - 1 \in Nat /\ (k - 1) + 1 = k
    OBVIOUS
  <2> QED BY <2>1
<1>2. \A k \in 0..bound : k \in H
  BY <1>1, Induct
<1> QED BY <1>2

\* apply says what follows a value of S at each place up to bound; f begins
\* with base and follows it.
Steps(apply, S, bound) == \A k \in 1..bound, x \in S : apply[k][x] \in S
Follows(f, apply, S, base, bound) ==
    /\ f = [k \in 0..bound |-> f[k]]
    /\ f[0] = base
    /\ \A k \in 1..bound : f[k - 1] \in S /\ f[k] = apply[k][f[k - 1]]

(* A function defined by its first value and by what follows each exists.  *)
LEMMA Recursion ==
    ASSUME NEW S, NEW base \in S, NEW bound \in Nat, NEW apply, Steps(apply, S, bound)
    PROVE  \E f : Follows(f, apply, S, base, bound)
<1> DEFINE Defines(f, m) == f = [k \in 0..m |-> IF k = 0 THEN base ELSE apply[k][f[k - 1]]]
           H == { m \in 0..bound : \E f \in [0..m -> S] : Defines(f, m) }
<1>0. \A m \in 0..bound : m \in H <=> \E f \in [0..m -> S] : Defines(f, m)
  <2> HIDE DEF Defines
  <2> QED OBVIOUS
<1> HIDE DEF H
<1>1. 0 \in H
  <2> DEFINE first == [k \in 0..0 |-> base]
  <2>1. first \in [0..0 -> S]
    OBVIOUS
  <2>2. Defines(first, 0)
    OBVIOUS
  <2>3. \E f \in [0..0 -> S] : Defines(f, 0)
    <3> HIDE DEF Defines, first
    <3> QED BY <2>1, <2>2
  <2>4. 0 \in 0..bound
    OBVIOUS
  <2> HIDE DEF Defines
  <2> QED BY <1>0, <2>3, <2>4, Zenon
<1>2. ASSUME NEW m \in 1..bound, m - 1 \in H PROVE m \in H
  <2>1. PICK f \in [0..(m - 1) -> S] : Defines(f, m - 1)
    <3> HIDE DEF Defines
    <3> QED BY <1>0, <1>2
  <2> DEFINE g == [k \in 0..m |-> IF k = m THEN apply[m][f[m - 1]] ELSE f[k]]
  <2>2. f[m - 1] \in S
    BY <1>2
  <2>3. apply[m][f[m - 1]] \in S
    BY <2>2 DEF Steps
  <2>4. g \in [0..m -> S]
    BY <2>3
  <2>5. ASSUME NEW k \in 0..m PROVE g[k] = IF k = 0 THEN base ELSE apply[k][g[k - 1]]
    <3>1. CASE k = m
      <4>1. k # 0 /\ k - 1 \in 0..m /\ k - 1 # m /\ g[k - 1] = f[m - 1]
        BY <3>1, <1>2
      <4> QED BY <4>1, <3>1
    <3>2. CASE k # m
      <4>1. k \in 0..(m - 1) /\ g[k] = f[k]
        BY <3>2, <1>2
      <4>2. f[k] = IF k = 0 THEN base ELSE apply[k][f[k - 1]]
        BY <4>1, <2>1
      <4>3. k # 0 => k - 1 \in 0..m /\ k - 1 # m /\ g[k - 1] = f[k - 1]
        BY <4>1
      <4> QED BY <4>1, <4>2, <4>3
    <3> QED BY <3>1, <3>2
  <2>6. Defines(g, m)
    BY <2>5
  <2> HIDE DEF Defines, g
  <2> QED BY <1>0, <2>4, <2>6
<1>3. bound \in H
  <2>1. \A k \in 1..bound : k - 1 \in H => k \in H
    BY <1>2
  <2>2. \A k \in 0..bound : k \in H
    BY <1>1, <2>1, Induct
  <2> QED BY <2>2
<1>4. PICK f \in [0..bound -> S] : Defines(f, bound)
  <2> HIDE DEF Defines
  <2> QED BY <1>0, <1>3
<1>5. \A k \in 1..bound : f[k - 1] \in S /\ f[k] = apply[k][f[k - 1]]
  BY <1>4
<1>6. f[0] = base /\ f = [k \in 0..bound |-> f[k]]
  BY <1>4
<1> QED BY <1>5, <1>6 DEF Follows
=============================================================================
