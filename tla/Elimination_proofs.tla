-------------------------- MODULE Elimination_proofs --------------------------
(***************************************************************************)
(* Proofs about Elimination.  For every grammar: each step gets further.   *)
(* For every grammar without an empty alternative: Paull's invariant holds *)
(* at every step, and no rule is left that begins with itself through      *)
(* leading references alone.                                               *)
(***************************************************************************)
EXTENDS Elimination, Walks_proofs, Induction, FiniteSetTheorems

-----------------------------------------------------------------------------
(***************************************************************************)
(* Sequences of whatever they hold.                                        *)
(***************************************************************************)

(* A sequence of members of a set is a sequence.                           *)
LEMMA OfSet ==
    ASSUME NEW S, NEW s \in Seq(S)
    PROVE  IsSequence(s)
<1> DEFINE T == { s[k] : k \in DOMAIN s }
<1>1. PICK n \in Nat : n = Len(s) /\ DOMAIN s = 1..n /\ s = [k \in 1..n |-> s[k]]
  BY LenProperties
<1>2. \A k \in 1..n : s[k] \in T
  BY <1>1
<1> HIDE DEF T
<1>3. [k \in 1..n |-> s[k]] \in Seq(T)
  BY <1>2, IsASeq
<1>4. s \in Seq(T)
  BY <1>1, <1>3
<1> QED BY <1>4 DEF IsSequence, T

(* What a sequence is made of.                                             *)
LEMMA Parts ==
    ASSUME NEW s, IsSequence(s)
    PROVE  /\ Len(s) \in Nat /\ DOMAIN s = 1..Len(s)
           /\ s = <<>> <=> Len(s) = 0
           /\ s # <<>> => Head(s) = s[1] /\ 1 \in DOMAIN s
<1> DEFINE T == { s[k] : k \in DOMAIN s }
<1>1. s \in Seq(T)
  BY DEF IsSequence
<1> HIDE DEF T
<1>2. Len(s) \in Nat /\ DOMAIN s = 1..Len(s)
  BY <1>1, LenProperties
<1>3. s # <<>> => Len(s) \in Nat \ {0}
  BY <1>1, EmptySeq
<1>4. s = <<>> => Len(s) = 0
  OBVIOUS
<1>5. s # <<>> => Head(s) = s[1]
  BY <1>1
<1> QED BY <1>2, <1>3, <1>4, <1>5

(* A function on 1..n is a sequence of n.                                  *)
LEMMA Built ==
    ASSUME NEW n \in Nat, NEW s, s = [k \in 1..n |-> s[k]]
    PROVE  IsSequence(s) /\ Len(s) = n /\ DOMAIN s = 1..n
<1> DEFINE T == { s[k] : k \in 1..n }
<1>1. \A k \in 1..n : s[k] \in T
  OBVIOUS
<1> HIDE DEF T
<1>2. [k \in 1..n |-> s[k]] \in Seq(T)
  BY <1>1, IsASeq
<1>3. s \in Seq(T)
  BY <1>2
<1>4. DOMAIN s = 1..n
  OBVIOUS
<1>5. Len(s) = n
  <2>1. DOMAIN s = 1..Len(s) /\ Len(s) \in Nat
    BY <1>3, LenProperties
  <2>2. \A a, b \in Nat : 1..a = 1..b => a = b
    <3> SUFFICES ASSUME NEW a \in Nat, NEW b \in Nat, 1..a = 1..b PROVE a = b
      OBVIOUS
    <3>1. (a \in 1..a \/ a = 0) /\ (b \in 1..b \/ b = 0)
      OBVIOUS
    <3> QED BY <3>1
  <2> QED BY <1>4, <2>1, <2>2
<1> QED BY <1>3, <1>4, <1>5, OfSet

(* One sequence after another.                                             *)
LEMMA Joined ==
    ASSUME NEW s, NEW t, IsSequence(s), IsSequence(t)
    PROVE  /\ IsSequence(s \o t)
           /\ Len(s \o t) = Len(s) + Len(t)
           /\ DOMAIN (s \o t) = 1..(Len(s) + Len(t))
           /\ \A k \in 1..Len(s) : (s \o t)[k] = s[k]
           /\ \A k \in 1..Len(t) : (s \o t)[Len(s) + k] = t[k]
           /\ \A k \in DOMAIN (s \o t) : \/ k \in DOMAIN s /\ (s \o t)[k] = s[k]
                                         \/ k - Len(s) \in DOMAIN t /\ (s \o t)[k] = t[k - Len(s)]
<1> DEFINE S == { s[k] : k \in DOMAIN s }
           T == { t[k] : k \in DOMAIN t }
           U == S \cup T
<1>1. s \in Seq(S) /\ t \in Seq(T)
  BY DEF IsSequence
<1> HIDE DEF S, T
<1>2. s \in Seq(U) /\ t \in Seq(U)
  BY <1>1, SeqMonotonic
<1> HIDE DEF U
<1>3. PICK a \in Nat, b \in Nat : a = Len(s) /\ b = Len(t) /\ DOMAIN s = 1..a /\ DOMAIN t = 1..b
  BY Parts
<1>4. /\ s \o t \in Seq(U) /\ Len(s \o t) = a + b
      /\ \A k \in 1..(a + b) : (s \o t)[k] = IF k <= a THEN s[k] ELSE t[k - a]
  BY <1>2, <1>3, ConcatProperties
<1>5. IsSequence(s \o t)
  BY <1>4, OfSet
<1> DEFINE u == s \o t
<1>6. DOMAIN u = 1..(a + b)
  BY <1>4, <1>5, Parts
<1> HIDE DEF u
<1>7. \A k \in 1..(a + b) : u[k] = IF k <= a THEN s[k] ELSE t[k - a]
  BY <1>4 DEF u
<1>8. \A k \in 1..a : k \in 1..(a + b) /\ k <= a
  OBVIOUS
<1>9. \A k \in 1..b : a + k \in 1..(a + b) /\ ~(a + k <= a) /\ a + k - a = k
  OBVIOUS
<1>10. \A k \in 1..(a + b) : \/ k \in 1..a /\ k <= a
                             \/ k - a \in 1..b /\ ~(k <= a)
  OBVIOUS
<1> QED BY <1>3, <1>4, <1>5, <1>6, <1>7, <1>8, <1>9, <1>10 DEF u

(* All but the first.                                                      *)
LEMMA Rest ==
    ASSUME NEW s, IsSequence(s), s # <<>>
    PROVE  /\ IsSequence(Tail(s)) /\ Len(Tail(s)) = Len(s) - 1
           /\ \A k \in DOMAIN Tail(s) : k + 1 \in DOMAIN s /\ Tail(s)[k] = s[k + 1]
<1> DEFINE T == { s[k] : k \in DOMAIN s }
<1>1. s \in Seq(T)
  BY DEF IsSequence
<1> HIDE DEF T
<1>2. /\ Tail(s) \in Seq(T) /\ Len(Tail(s)) = Len(s) - 1
      /\ \A k \in 1..Len(Tail(s)) : Tail(s)[k] = s[k + 1]
  BY <1>1, HeadTailProperties
<1>3. IsSequence(Tail(s)) /\ DOMAIN Tail(s) = 1..Len(Tail(s))
  BY <1>2, OfSet, Parts
<1>4. Len(s) \in Nat /\ DOMAIN s = 1..Len(s)
  BY Parts
<1> QED BY <1>2, <1>3, <1>4

(* A piece of a sequence.                                                  *)
LEMMA Piece ==
    ASSUME NEW s, IsSequence(s), NEW m \in 1..(Len(s) + 1), NEW n \in 0..Len(s)
    PROVE  /\ IsSequence(SubSeq(s, m, n))
           /\ \A k \in DOMAIN SubSeq(s, m, n) : \E q \in DOMAIN s : SubSeq(s, m, n)[k] = s[q]
<1> DEFINE T == { s[k] : k \in DOMAIN s }
<1>1. PICK size \in Nat : size = Len(s) /\ DOMAIN s = 1..size
  BY Parts
<1>2. m \in 1..(size + 1) /\ n \in 0..size /\ m \in Int /\ n \in Int
  BY <1>1
<1>3. \A k \in m..n : s[k] \in T
  BY <1>1, <1>2
<1>4. \A x \in T : \E q \in DOMAIN s : x = s[q]
  OBVIOUS
<1> HIDE DEF T
<1>5. SubSeq(s, m, n) \in Seq(T)
  BY <1>2, <1>3, SubSeqProperties
<1>6. IsSequence(SubSeq(s, m, n))
  BY <1>5, OfSet
<1>7. \A k \in DOMAIN SubSeq(s, m, n) : SubSeq(s, m, n)[k] \in T
  BY <1>5, <1>6, Parts, ElementOfSeq
<1> QED BY <1>4, <1>6, <1>7

(* The least of a set of numbers.                                          *)
LEMMA LeastOf ==
    ASSUME NEW S, S \subseteq Nat, S # {}
    PROVE  Min(S) \in S /\ \A x \in S : Min(S) <= x
<1>1. \E x \in S : \A y \in S : x <= y
  BY Least
<1> QED BY <1>1 DEF Min

-----------------------------------------------------------------------------
(***************************************************************************)
(* The two recursions: the members of a set in order, and sequences one    *)
(* after the other.                                                        *)
(***************************************************************************)
Orders(upto, S, n) ==
    /\ upto[0] = <<>>
    /\ \A k \in 1..n : /\ upto[k - 1] \in Seq(Nat)
                       /\ upto[k] = IF k \in S THEN Append(upto[k - 1], k) ELSE upto[k - 1]

LEMMA InOrderUnfolds ==
    ASSUME NEW S, NEW n \in Nat
    PROVE  \E upto : Orders(upto, S, n) /\ InOrder(S, n) = upto[n] /\ upto[n] \in Seq(Nat)
<1> DEFINE T == Seq(Nat)
           step == [k \in 1..n |-> [x \in T |-> IF k \in S THEN Append(x, k) ELSE x]]
<1>1. <<>> \in T /\ \A k \in 1..n, x \in T : (IF k \in S THEN Append(x, k) ELSE x) \in T
  OBVIOUS
<1>2. \A k \in 1..n, x \in T : step[k][x] = (IF k \in S THEN Append(x, k) ELSE x) /\ step[k][x] \in T
  <2> HIDE DEF T
  <2> QED BY <1>1
<1> HIDE DEF step, T
<1>3. Steps(step, T, n)
  BY <1>2 DEF Steps
<1>4. PICK f : Follows(f, step, T, <<>>, n)
  BY <1>1, <1>3, Recursion
<1> DEFINE Defines(h) == h = [k \in 0..n |-> IF k = 0 THEN <<>>
                                             ELSE IF k \in S THEN Append(h[k - 1], k) ELSE h[k - 1]]
           upto == CHOOSE h : Defines(h)
<1>5. Defines(f)
  <2>1. ASSUME NEW k \in 0..n
        PROVE  f[k] = IF k = 0 THEN <<>> ELSE IF k \in S THEN Append(f[k - 1], k) ELSE f[k - 1]
    <3>1. CASE k = 0
      BY <3>1, <1>4 DEF Follows
    <3>2. CASE k # 0
      <4>1. k \in 1..n
        BY <3>2
      <4>2. f[k - 1] \in T /\ f[k] = step[k][f[k - 1]]
        BY <4>1, <1>4 DEF Follows
      <4> QED BY <4>1, <4>2, <1>2, <3>2
    <3> QED BY <3>1, <3>2
  <2>2. f = [k \in 0..n |-> f[k]]
    BY <1>4 DEF Follows
  <2> HIDE DEF upto
  <2> QED BY <2>1, <2>2, Zenon
<1>6. Defines(upto)
  <2> HIDE DEF Defines
  <2> QED BY <1>5
<1>7. InOrder(S, n) = upto[n]
  BY DEF InOrder
<1> HIDE DEF upto
<1>8. upto[0] = <<>> /\ \A k \in 1..n : upto[k] = IF k \in S THEN Append(upto[k - 1], k) ELSE upto[k - 1]
  <2>1. ASSUME NEW k \in 0..n
        PROVE  upto[k] = IF k = 0 THEN <<>> ELSE IF k \in S THEN Append(upto[k - 1], k) ELSE upto[k - 1]
    BY <1>6, Zenon
  <2>2. 0 \in 0..n /\ \A k \in 1..n : k \in 0..n /\ k # 0
    OBVIOUS
  <2> QED BY <2>1, <2>2, Zenon
<1> HIDE DEF Defines
<1> DEFINE H == { k \in 0..n : upto[k] \in T }
<1>9. 0 \in H
  BY <1>1, <1>8
<1>10. \A k \in 1..n : k - 1 \in H => k \in H
  <2> SUFFICES ASSUME NEW k \in 1..n, upto[k - 1] \in T PROVE upto[k] \in T
    OBVIOUS
  <2>1. upto[k] = step[k][upto[k - 1]] /\ step[k][upto[k - 1]] \in T
    BY <1>2, <1>8
  <2> QED BY <2>1
<1>11. \A k \in 0..n : k \in H
  <2> HIDE DEF H
  <2> QED BY <1>9, <1>10, Induct
<1>12. \A k \in 0..n : upto[k] \in T
  BY <1>11 DEF H
<1>13. n \in 0..n /\ \A k \in 1..n : k - 1 \in 0..n
  OBVIOUS
<1>14. Orders(upto, S, n)
  BY <1>8, <1>12, <1>13 DEF Orders, T
<1> QED BY <1>7, <1>12, <1>13, <1>14 DEF T

(* InOrder holds the members of S, and nothing else.                       *)
LEMMA InOrderHolds ==
    ASSUME NEW S, NEW n \in Nat
    PROVE  /\ IsSequence(InOrder(S, n))
           /\ \A m \in DOMAIN InOrder(S, n) : InOrder(S, n)[m] \in S /\ InOrder(S, n)[m] \in 1..n
           /\ \A x \in 1..n : x \in S => \E m \in DOMAIN InOrder(S, n) : InOrder(S, n)[m] = x
<1>1. PICK upto : Orders(upto, S, n) /\ InOrder(S, n) = upto[n] /\ upto[n] \in Seq(Nat)
  BY InOrderUnfolds
<1> DEFINE Holds(k, u) == /\ u \in Seq(Nat)
                          /\ \A m \in 1..Len(u) : u[m] \in S /\ u[m] \in 1..k
                          /\ \A x \in 1..k : x \in S => \E m \in 1..Len(u) : u[m] = x
           H == { k \in 0..n : Holds(k, upto[k]) }
<1>2. 0 \in H
  <2>1. upto[0] = <<>> /\ <<>> \in Seq(Nat) /\ Len(<<>>) = 0 /\ 1..0 = {}
    BY <1>1 DEF Orders
  <2>2. Holds(0, upto[0])
    BY <2>1
  <2> QED BY <2>2
<1>3. \A k \in 1..n : k - 1 \in H => k \in H
  <2> SUFFICES ASSUME NEW k \in 1..n, Holds(k - 1, upto[k - 1]) PROVE Holds(k, upto[k])
    OBVIOUS
  <2>0. PICK u \in Seq(Nat) : u = upto[k - 1]
    BY <1>1 DEF Orders
  <2>1. upto[k] = IF k \in S THEN Append(u, k) ELSE u
    BY <1>1, <2>0 DEF Orders
  <2>2. Holds(k - 1, u)
    BY <2>0
  <2>3. CASE k \in S
    <3>1. PICK v : v = Append(u, k)
      OBVIOUS
    <3>2. PICK size \in Nat : size = Len(u)
      BY LenProperties
    <3>3. /\ v \in Seq(Nat) /\ Len(v) = size + 1
          /\ \A m \in 1..size : v[m] = u[m]
          /\ v[size + 1] = k
      BY <3>1, <3>2, AppendProperties
    <3>4. ASSUME NEW m \in 1..(size + 1) PROVE v[m] \in S /\ v[m] \in 1..k
      <4>1. CASE m = size + 1
        BY <4>1, <3>3, <2>3
      <4>2. CASE m # size + 1
        <5>1. m \in 1..size
          BY <4>2
        <5>2. u[m] \in S /\ u[m] \in 1..(k - 1)
          BY <5>1, <2>2, <3>2
        <5> QED BY <5>1, <5>2, <3>3
      <4> QED BY <4>1, <4>2
    <3>5. ASSUME NEW x \in 1..k, x \in S PROVE \E m \in 1..(size + 1) : v[m] = x
      <4>1. CASE x = k
        BY <4>1, <3>3
      <4>2. CASE x # k
        <5>1. x \in 1..(k - 1)
          BY <4>2
        <5>2. PICK m \in 1..size : u[m] = x
          BY <5>1, <2>2, <3>2, <3>5
        <5>3. m \in 1..(size + 1)
          OBVIOUS
        <5> QED BY <5>2, <5>3, <3>3
      <4> QED BY <4>1, <4>2
    <3>6. Holds(k, v)
      BY <3>3, <3>4, <3>5
    <3> QED BY <3>1, <3>6, <2>1, <2>3
  <2>4. CASE k \notin S
    <3>1. \A m \in 1..Len(u) : u[m] \in S /\ u[m] \in 1..k
      BY <2>2
    <3>2. ASSUME NEW x \in 1..k, x \in S PROVE \E m \in 1..Len(u) : u[m] = x
      <4>1. x \in 1..(k - 1)
        BY <3>2, <2>4
      <4> QED BY <4>1, <2>2, <3>2
    <3>3. Holds(k, u)
      BY <3>1, <3>2
    <3> QED BY <3>3, <2>1, <2>4
  <2> QED BY <2>3, <2>4
<1>4. \A k \in 0..n : k \in H
  <2> HIDE DEF H
  <2> QED BY <1>2, <1>3, Induct
<1>5. Holds(n, upto[n])
  <2> HIDE DEF Holds
  <2>1. n \in 0..n
    OBVIOUS
  <2> HIDE DEF H
  <2>2. n \in H
    BY <1>4, <2>1
  <2> QED BY <2>2 DEF H
<1>6. IsSequence(upto[n]) /\ DOMAIN upto[n] = 1..Len(upto[n])
  BY <1>1, OfSet, Parts
<1> QED BY <1>1, <1>5, <1>6

(* Of one place there is one.                                              *)
LEMMA InOrderOne ==
    ASSUME NEW S, 1 \in S
    PROVE  InOrder(S, 1) = <<1>>
<1>1. PICK upto : Orders(upto, S, 1) /\ InOrder(S, 1) = upto[1]
  BY InOrderUnfolds
<1>2. 1 \in 1..1 /\ 1 - 1 = 0
  OBVIOUS
<1>3. upto[1] = Append(upto[0], 1) /\ upto[0] = <<>>
  BY <1>1, <1>2 DEF Orders
<1> QED BY <1>1, <1>3

(* A flattened sequence holds what its members hold.                       *)
LEMMA Flat ==
    ASSUME NEW ss, IsSequence(ss), \A k \in DOMAIN ss : IsSequence(ss[k])
    PROVE  /\ IsSequence(FlattenSeq(ss))
           /\ \A m \in DOMAIN FlattenSeq(ss) :
                 \E k \in DOMAIN ss : \E q \in DOMAIN ss[k] : FlattenSeq(ss)[m] = ss[k][q]
<1>1. PICK n \in Nat : n = Len(ss) /\ DOMAIN ss = 1..n
  BY Parts
<1>2. CASE n = 0
  <2>1. FlattenSeq(ss) = ss
    BY <1>1, <1>2 DEF FlattenSeq
  <2>2. DOMAIN ss = {}
    BY <1>1, <1>2
  <2> QED BY <2>1, <2>2
<1>3. CASE n # 0
  <2> DEFINE U == UNION { { ss[k][q] : q \in DOMAIN ss[k] } : k \in DOMAIN ss }
             T == Seq(U)
  <2>1. \A x \in U : \E k \in DOMAIN ss : \E q \in DOMAIN ss[k] : x = ss[k][q]
    OBVIOUS
  <2>2. ASSUME NEW k \in 1..n PROVE ss[k] \in T
    <3>1. ss[k] \in Seq({ ss[k][q] : q \in DOMAIN ss[k] })
      BY <1>1 DEF IsSequence
    <3>2. { ss[k][q] : q \in DOMAIN ss[k] } \subseteq U
      BY <1>1
    <3> QED BY <3>1, <3>2, SeqMonotonic
  <2> HIDE DEF U
  <2>3. \A s, t \in T : s \o t \in T
    BY ConcatProperties
  <2>4. PICK most \in Nat : most = n - 1 /\ n = most + 1
    BY <1>3
  <2> DEFINE step == [k \in 1..most |-> [x \in T |-> x \o ss[k + 1]]]
  <2>5. \A k \in 1..most : k + 1 \in 1..n
    BY <2>4
  <2>6. \A k \in 1..most, x \in T : step[k][x] = x \o ss[k + 1] /\ step[k][x] \in T
    <3> HIDE DEF T
    <3> QED BY <2>2, <2>3, <2>5
  <2>7. ss[1] \in T
    <3>1. 1 \in 1..n
      BY <1>3
    <3> QED BY <3>1, <2>2
  <2> HIDE DEF step, T
  <2>8. Steps(step, T, most)
    BY <2>6 DEF Steps
  <2>9. PICK g : Follows(g, step, T, ss[1], most)
    BY <2>7, <2>8, Recursion
  <2> DEFINE f == [k \in 1..n |-> g[k - 1]]
             Defines(h) == h = [k \in 1..n |-> IF k = 1 THEN ss[k] ELSE h[k - 1] \o ss[k]]
             flatten == CHOOSE h : Defines(h)
  <2>10. Defines(f)
    <3>1. ASSUME NEW k \in 1..n PROVE f[k] = IF k = 1 THEN ss[k] ELSE f[k - 1] \o ss[k]
      <4>1. f[k] = g[k - 1]
        OBVIOUS
      <4>2. CASE k = 1
        <5>1. g[0] = ss[1] /\ k - 1 = 0
          BY <4>2, <2>9 DEF Follows
        <5> QED BY <5>1, <4>1, <4>2
      <4>3. CASE k # 1
        <5>1. k - 1 \in 1..most /\ k - 1 \in 1..n /\ (k - 1) + 1 = k
          BY <4>3, <2>4
        <5>2. g[(k - 1) - 1] \in T /\ g[k - 1] = step[k - 1][g[(k - 1) - 1]]
          BY <5>1, <2>9 DEF Follows
        <5>3. f[k - 1] = g[(k - 1) - 1]
          BY <5>1
        <5>4. step[k - 1][g[(k - 1) - 1]] = g[(k - 1) - 1] \o ss[k]
          BY <5>1, <5>2, <2>6
        <5> HIDE DEF f
        <5> QED BY <5>2, <5>3, <5>4, <4>1, <4>3
      <4> QED BY <4>2, <4>3
    <3>2. f = [k \in 1..n |-> f[k]]
      OBVIOUS
    <3> HIDE DEF flatten, f
    <3> QED BY <3>1, <3>2, Zenon
  <2>11. Defines(flatten)
    <3> HIDE DEF Defines, f
    <3> QED BY <2>10
  <2>12. FlattenSeq(ss) = flatten[n]
    BY <1>1, <1>3 DEF FlattenSeq
  <2> HIDE DEF flatten, f
  <2>13. ASSUME NEW k \in 1..n PROVE flatten[k] = IF k = 1 THEN ss[k] ELSE flatten[k - 1] \o ss[k]
    BY <2>11, Zenon
  <2> HIDE DEF Defines
  <2> DEFINE H == { k \in 0..most : flatten[k + 1] \in T }
  <2>14. 0 \in H
    <3>1. 1 \in 1..n
      BY <1>3
    <3>2. flatten[1] = ss[1]
      BY <3>1, <2>13
    <3> QED BY <3>2, <2>7
  <2>15. ASSUME NEW k \in 1..most, flatten[(k - 1) + 1] \in T PROVE flatten[k + 1] \in T
    <3>1. flatten[k] \in T
      <4>1. (k - 1) + 1 = k
        OBVIOUS
      <4> HIDE DEF H
      <4> QED BY <4>1, <2>15
    <3>2. k + 1 \in 1..n /\ k + 1 # 1 /\ (k + 1) - 1 = k
      BY <2>5
    <3>3. flatten[k + 1] = flatten[k] \o ss[k + 1]
      BY <3>2, <2>13
    <3>4. ss[k + 1] \in T
      BY <3>2, <2>2
    <3> QED BY <3>1, <3>3, <3>4, <2>3
  <2>16. \A k \in 0..most : k \in H
    <3>1. ASSUME NEW k \in 1..most, k - 1 \in H PROVE k \in H
      <4>1. flatten[(k - 1) + 1] \in T
        BY <3>1
      <4>2. flatten[k + 1] \in T
        BY <2>15, <4>1
      <4>3. k \in 0..most
        OBVIOUS
      <4> QED BY <4>2, <4>3
    <3> HIDE DEF H
    <3> QED BY <2>14, <3>1, Induct
  <2>17. flatten[n] \in T
    <3>1. most \in 0..most
      OBVIOUS
    <3>2. most \in H
      BY <3>1, <2>16
    <3> QED BY <3>2, <2>4 DEF H
  <2>18. IsSequence(flatten[n])
    BY <2>17, OfSet DEF T
  <2>19. \A m \in DOMAIN flatten[n] : flatten[n][m] \in U
    BY <2>17, <2>18, Parts, ElementOfSeq DEF T
  <2> QED BY <2>1, <2>12, <2>18, <2>19
<1> QED BY <1>2, <1>3

-----------------------------------------------------------------------------
(***************************************************************************)
(* Grammars and what their rules begin with.                               *)
(***************************************************************************)
Alternatives(alts) == IsSequence(alts) /\ \A a \in DOMAIN alts : IsSequence(alts[a])
Filled(alts) == \A a \in DOMAIN alts : alts[a] # <<>>
HeadsOf(p) == { n \in Names : HasLeadingRefTo(p, n) }

(* What a grammar is made of.                                              *)
LEMMA Rules ==
    ASSUME NEW g, Declares(g)
    PROVE  /\ Len(g) \in Nat \ {0} /\ DOMAIN g = 1..Len(g)
           /\ \A k \in DOMAIN g : /\ g[k].name \in Names
                                  /\ g[k] = Prod(g[k].name, g[k].alts)
                                  /\ Alternatives(g[k].alts)
           /\ \A n \in Names : \E k \in DOMAIN g : g[k].name = n
           /\ \A k, m \in DOMAIN g : g[k].name = g[m].name => k = m
<1>1. IsSequence(g) /\ g # <<>> /\ NamesOf(g) = Names
  BY DEF Declares
<1>2. Len(g) \in Nat \ {0} /\ DOMAIN g = 1..Len(g)
  BY <1>1, Parts
<1>3. \A k \in DOMAIN g : g[k].name \in Names
  BY <1>1 DEF NamesOf
<1>4. \A n \in Names : \E k \in DOMAIN g : g[k].name = n
  BY <1>1 DEF NamesOf
<1>5. \A k \in DOMAIN g : g[k] = Prod(g[k].name, g[k].alts) /\ Alternatives(g[k].alts)
  BY DEF Declares, Alternatives
<1>6. \A k, m \in DOMAIN g : g[k].name = g[m].name => k = m
  BY DEF Declares
<1> QED BY <1>2, <1>3, <1>4, <1>5, <1>6

(* And back.                                                               *)
Listed(g, size) ==
    /\ g = [k \in 1..size |-> g[k]]
    /\ \A k \in 1..size : /\ g[k].name \in Names
                          /\ g[k] = Prod(g[k].name, g[k].alts)
                          /\ Alternatives(g[k].alts)
    /\ \A n \in Names : \E k \in 1..size : g[k].name = n
    /\ \A k, m \in 1..size : g[k].name = g[m].name => k = m

LEMMA Ruled ==
    ASSUME NEW g, NEW size \in Nat \ {0}, Listed(g, size)
    PROVE  Declares(g) /\ Len(g) = size /\ DOMAIN g = 1..size
<1> USE DEF Listed
<1>1. IsSequence(g) /\ Len(g) = size /\ DOMAIN g = 1..size
  <2>1. g = [k \in 1..size |-> g[k]]
    OBVIOUS
  <2> QED BY <2>1, Built
<1>2. g # <<>>
  BY <1>1, Parts
<1>3. NamesOf(g) = Names
  BY <1>1 DEF NamesOf
<1>4. \A k \in DOMAIN g : /\ g[k] = Prod(g[k].name, g[k].alts)
                          /\ IsSequence(g[k].alts)
                          /\ \A a \in DOMAIN g[k].alts : IsSequence(g[k].alts[a])
  BY <1>1 DEF Alternatives
<1>5. \A k, m \in DOMAIN g : g[k].name = g[m].name => k = m
  BY <1>1
<1> QED BY <1>1, <1>2, <1>3, <1>4, <1>5 DEF Declares

(* The fields of a production.                                             *)
LEMMA ProdParts ==
    ASSUME NEW n, NEW alts
    PROVE  Prod(n, alts).name = n /\ Prod(n, alts).alts = alts
  BY DEF Prod

(* A rule is found by its name.                                            *)
LEMMA Found ==
    ASSUME NEW g, Declares(g), NEW k \in DOMAIN g
    PROVE  Find(g, g[k].name) = g[k]
<1>1. DOMAIN g = 1..Len(g) /\ Len(g) \in Nat
  BY Rules
<1>2. \A m \in DOMAIN g : g[m].name = g[k].name => m = k
  BY Rules
<1> DEFINE n == g[k].name
           First(m) == g[m].name = n /\ \A q \in 1..(m - 1) : g[q].name # n
<1>3. First(k)
  <2> SUFFICES ASSUME NEW q \in 1..(k - 1) PROVE g[q].name # n
    OBVIOUS
  <2>1. q \in DOMAIN g /\ q # k
    BY <1>1
  <2> QED BY <2>1, <1>2
<1>4. \A m \in DOMAIN g : First(m) => m = k
  BY <1>2
<1>5. (CHOOSE m \in DOMAIN g : First(m)) = k
  <2> HIDE DEF First
  <2>1. \E m \in DOMAIN g : First(m)
    BY <1>3
  <2>2. /\ (CHOOSE m \in DOMAIN g : First(m)) \in DOMAIN g
        /\ First(CHOOSE m \in DOMAIN g : First(m))
    BY <2>1
  <2> QED BY <2>2, <1>4
<1> QED BY <1>5 DEF Find

(* One rule given other alternatives.                                      *)
Becomes(g, k, alts, h) == h = [g EXCEPT ![k] = Prod(@.name, alts)]

LEMMA Rewrites ==
    ASSUME NEW g, Declares(g), NEW k \in DOMAIN g, NEW alts, Alternatives(alts),
           NEW h, Becomes(g, k, alts, h)
    PROVE  /\ Declares(h) /\ Len(h) = Len(g) /\ DOMAIN h = DOMAIN g
           /\ \A m \in DOMAIN g : h[m].name = g[m].name
           /\ \A m \in DOMAIN g : m # k => h[m] = g[m]
           /\ h[k] = Prod(g[k].name, alts)
           /\ NothingEmpty(g) /\ Filled(alts) => NothingEmpty(h)
<1>1. PICK size \in Nat \ {0} : size = Len(g) /\ DOMAIN g = 1..size
  BY Rules
<1>2. g = [m \in 1..size |-> g[m]]
  <2>1. IsSequence(g)
    BY DEF Declares
  <2>2. g \in Seq({ g[m] : m \in DOMAIN g })
    BY <2>1 DEF IsSequence
  <2>3. g = [m \in 1..Len(g) |-> g[m]]
    BY <2>2, LenProperties
  <2> QED BY <2>3, <1>1
<1>3. h = [m \in 1..size |-> IF m = k THEN Prod(g[k].name, alts) ELSE g[m]]
  BY <1>1, <1>2 DEF Becomes
<1>4. /\ h = [m \in 1..size |-> h[m]]
      /\ \A m \in 1..size : h[m] = IF m = k THEN Prod(g[k].name, alts) ELSE g[m]
  BY <1>3
<1>5. \A m \in 1..size : h[m].name = g[m].name
  BY <1>4, ProdParts
<1>6. ASSUME NEW m \in 1..size
      PROVE  /\ h[m].name \in Names
             /\ h[m] = Prod(h[m].name, h[m].alts)
             /\ Alternatives(h[m].alts)
             /\ NothingEmpty(g) /\ Filled(alts) => Filled(h[m].alts)
  <2>1. CASE m = k
    <3>1. h[m] = Prod(g[k].name, alts) /\ g[k].name \in Names
      BY <1>4, <2>1, Rules
    <3>2. h[m].name = g[k].name /\ h[m].alts = alts
      BY <3>1, ProdParts
    <3> QED BY <3>1, <3>2
  <2>2. CASE m # k
    <3>1. h[m] = g[m]
      BY <1>4, <2>2
    <3>2. m \in DOMAIN g
      BY <1>1
    <3>3. NothingEmpty(g) => Filled(g[m].alts)
      BY <3>2 DEF NothingEmpty, Filled
    <3> QED BY <3>1, <3>2, <3>3, Rules
  <2> QED BY <2>1, <2>2
<1>7. \A n \in Names : \E m \in 1..size : h[m].name = n
  BY <1>1, <1>5, Rules
<1>8. \A m, q \in 1..size : h[m].name = h[q].name => m = q
  BY <1>1, <1>5, Rules
<1>9. Declares(h) /\ Len(h) = size /\ DOMAIN h = 1..size
  <2>1. Listed(h, size)
    BY <1>4, <1>6, <1>7, <1>8 DEF Listed
  <2> QED BY <2>1, Ruled
<1>10. NothingEmpty(g) /\ Filled(alts) => NothingEmpty(h)
  BY <1>6, <1>9 DEF NothingEmpty, Filled
<1> QED BY <1>1, <1>4, <1>5, <1>9, <1>10

(* The rules in another order.                                             *)
Lists(names, size) == /\ \A k \in 1..size : names[k] \in Names
                      /\ \A n \in Names : \E k \in 1..size : names[k] = n
                      /\ \A k, m \in 1..size : names[k] = names[m] => k = m

Arranged(g, names, size, h) == h = [k \in 1..size |-> Find(g, names[k])]

LEMMA Reordered ==
    ASSUME NEW g, Declares(g),
           NEW size \in Nat \ {0}, NEW names, Lists(names, size),
           NEW h, Arranged(g, names, size, h)
    PROVE  /\ Declares(h) /\ DOMAIN h = 1..size
           /\ NothingEmpty(g) => NothingEmpty(h)
           /\ \A k \in DOMAIN h : \E m \in DOMAIN g : h[k] = g[m]
           /\ \A m \in DOMAIN g : \E k \in DOMAIN h : h[k] = g[m]
<1> USE DEF Lists, Arranged
<1>1. ASSUME NEW k \in 1..size PROVE \E m \in DOMAIN g : h[k] = g[m] /\ h[k].name = names[k]
  <2>1. PICK m \in DOMAIN g : g[m].name = names[k]
    BY Rules
  <2>2. h[k] = g[m]
    BY <2>1, Found
  <2> QED BY <2>1, <2>2
<1>2. h = [k \in 1..size |-> h[k]]
  OBVIOUS
<1>3. ASSUME NEW k \in 1..size
      PROVE  /\ h[k].name \in Names
             /\ h[k] = Prod(h[k].name, h[k].alts)
             /\ Alternatives(h[k].alts)
             /\ NothingEmpty(g) => Filled(h[k].alts)
  <2>1. PICK m \in DOMAIN g : h[k] = g[m]
    BY <1>1
  <2>2. NothingEmpty(g) => Filled(g[m].alts)
    BY DEF NothingEmpty, Filled
  <2> QED BY <2>1, <2>2, Rules
<1>4. \A n \in Names : \E k \in 1..size : h[k].name = n
  BY <1>1
<1>5. \A k, m \in 1..size : h[k].name = h[m].name => k = m
  BY <1>1
<1>6. Declares(h) /\ Len(h) = size /\ DOMAIN h = 1..size
  <2>1. Listed(h, size)
    BY <1>2, <1>3, <1>4, <1>5 DEF Listed
  <2> QED BY <2>1, Ruled
<1>7. NothingEmpty(g) => NothingEmpty(h)
  BY <1>3, <1>6 DEF NothingEmpty, Filled
<1>8. ASSUME NEW m \in DOMAIN g PROVE \E k \in DOMAIN h : h[k] = g[m]
  <2>1. PICK k \in 1..size : h[k].name = g[m].name
    BY <1>4, Rules
  <2>2. h[k] = g[m]
    BY <2>1, <1>1, Rules
  <2> QED BY <2>2, <1>6
<1> QED BY <1>1, <1>6, <1>7, <1>8

(* An alternative begins with a reference to one rule at most.             *)
LEMMA LedOnce ==
    ASSUME NEW alt, NEW n, NEW m, LedBy(alt, n), LedBy(alt, m)
    PROVE  n = m /\ Head(alt).name = n
  BY DEF LedBy, IsRefTo

(* The graph holds what each rule begins with.                             *)
LEMMA LeadsAre ==
    ASSUME NEW p, Alternatives(p.alts)
    PROVE  /\ LeadsOf(p) \in Seq(Names)
           /\ { LeadsOf(p)[k] : k \in 1..Len(LeadsOf(p)) } = HeadsOf(p)
<1> DEFINE S == { a \in DOMAIN p.alts : \E n \in Names : LedBy(p.alts[a], n) }
           led == InOrder(S, Len(p.alts))
           leads == [k \in DOMAIN led |-> Head(p.alts[led[k]]).name]
<1>1. PICK size \in Nat : size = Len(p.alts) /\ DOMAIN p.alts = 1..size
  BY Parts DEF Alternatives
<1>2. /\ IsSequence(led)
      /\ \A m \in DOMAIN led : led[m] \in S
      /\ \A x \in 1..size : x \in S => \E m \in DOMAIN led : led[m] = x
  <2> HIDE DEF S
  <2> QED BY <1>1, InOrderHolds
<1> HIDE DEF led
<1>3. PICK most \in Nat : most = Len(led) /\ DOMAIN led = 1..most
  BY <1>2, Parts
<1>4. ASSUME NEW k \in 1..most PROVE leads[k] \in Names /\ LedBy(p.alts[led[k]], leads[k])
  <2>1. led[k] \in S
    BY <1>2, <1>3
  <2>2. PICK n \in Names : LedBy(p.alts[led[k]], n)
    BY <2>1
  <2>3. leads[k] = n
    BY <2>2, <1>3, LedOnce
  <2> QED BY <2>2, <2>3
<1>5. leads \in Seq(Names) /\ Len(leads) = most
  <2>1. leads = [k \in 1..most |-> leads[k]]
    BY <1>3
  <2> HIDE DEF leads
  <2>2. [k \in 1..most |-> leads[k]] \in Seq(Names)
    BY <1>4, IsASeq
  <2>3. Len(leads) = most
    BY <2>1, Built
  <2> QED BY <2>1, <2>2, <2>3
<1>6. ASSUME NEW k \in 1..most PROVE leads[k] \in HeadsOf(p)
  <2>1. led[k] \in DOMAIN p.alts
    BY <1>2, <1>3
  <2> HIDE DEF leads
  <2> QED BY <1>4, <2>1 DEF HeadsOf, HasLeadingRefTo
<1>7. ASSUME NEW n \in HeadsOf(p) PROVE \E k \in 1..most : leads[k] = n
  <2>1. PICK a \in DOMAIN p.alts : n \in Names /\ LedBy(p.alts[a], n)
    BY DEF HeadsOf, HasLeadingRefTo
  <2>2. PICK k \in DOMAIN led : led[k] = a
    BY <1>1, <1>2, <2>1
  <2>3. leads[k] = n
    BY <2>1, <2>2, LedOnce
  <2> QED BY <2>2, <2>3, <1>3
<1>8. LeadsOf(p) = leads
  BY DEF LeadsOf, led
<1> HIDE DEF leads
<1>9. { leads[k] : k \in 1..most } = HeadsOf(p)
  BY <1>6, <1>7
<1> QED BY <1>5, <1>8, <1>9

(* The leading graph the pass hands to the walks is that of the rules.     *)
LEMMA GraphIs ==
    ASSUME NEW g, Declares(g)
    PROVE  /\ LeadGraphOf(g) \in LeadGraphs
           /\ \A k \in DOMAIN g : LeadSet(LeadGraphOf(g), g[k].name) = HeadsOf(g[k])
<1>1. ASSUME NEW n \in Names PROVE LeadsOf(Find(g, n)) \in Seq(Names)
  <2>1. PICK k \in DOMAIN g : g[k].name = n
    BY Rules
  <2> QED BY <2>1, Found, Rules, LeadsAre
<1>2. LeadGraphOf(g) \in LeadGraphs
  BY <1>1 DEF LeadGraphOf, LeadGraphs
<1>3. ASSUME NEW k \in DOMAIN g PROVE LeadSet(LeadGraphOf(g), g[k].name) = HeadsOf(g[k])
  <2>1. g[k].name \in Names /\ Alternatives(g[k].alts)
    BY Rules
  <2>2. LeadGraphOf(g)[g[k].name] = LeadsOf(g[k])
    BY <2>1, Found DEF LeadGraphOf
  <2> QED BY <2>1, <2>2, LeadsAre DEF LeadSet
<1> QED BY <1>2, <1>3

-----------------------------------------------------------------------------
(***************************************************************************)
(* What each rewrite makes of a rule.                                      *)
(***************************************************************************)

(* An alternative followed by anything begins as it did.                   *)
LEMMA Begun ==
    ASSUME NEW s, IsSequence(s), s # <<>>, NEW t, IsSequence(t)
    PROVE  IsSequence(s \o t) /\ s \o t # <<>> /\ \A n : LedBy(s \o t, n) <=> LedBy(s, n)
<1>1. PICK a \in Nat \ {0}, b \in Nat : a = Len(s) /\ b = Len(t) /\ DOMAIN s = 1..a
  BY Parts
<1> DEFINE u == s \o t
<1>2. IsSequence(u) /\ Len(u) = a + b /\ u[1] = s[1]
  <2>1. 1 \in 1..a
    BY <1>1
  <2> QED BY <1>1, <2>1, Joined
<1> HIDE DEF u
<1>3. u # <<>> /\ Head(u) = u[1] /\ Head(s) = s[1]
  <2>1. Len(u) # 0
    BY <1>1, <1>2
  <2> QED BY <1>2, <2>1, Parts
<1>4. \A n : LedBy(u, n) <=> LedBy(s, n)
  BY <1>2, <1>3 DEF LedBy
<1> QED BY <1>2, <1>3, <1>4 DEF u

(* Nothing leads a rule but what led it and what leads the rule put in the *)
(* place of its name.                                                      *)
LEMMA InlinedIs ==
    ASSUME NEW p, Alternatives(p.alts), NEW src, Alternatives(src.alts),
           NEW new, new = Inlined(p, src, p.alts, src.alts)
    PROVE  /\ Alternatives(new)
           /\ Filled(p.alts) /\ Filled(src.alts) => Filled(new)
           /\ Filled(src.alts) => \A n : HasLeadingRefTo(Prod(p.name, new), n) =>
                        \/ HasLeadingRefTo(p, n) /\ n # src.name
                        \/ HasLeadingRefTo(src, n)
<1> DEFINE put(a) == [m \in DOMAIN src.alts |-> src.alts[m] \o Tail(p.alts[a])]
           ss == [a \in DOMAIN p.alts |-> IF LedBy(p.alts[a], src.name) THEN put(a) ELSE <<p.alts[a]>>]
           Kept(x) == \E a \in DOMAIN p.alts : x = p.alts[a] /\ ~LedBy(p.alts[a], src.name)
           Sewn(x) == \E a \in DOMAIN p.alts, m \in DOMAIN src.alts :
                         x = src.alts[m] \o Tail(p.alts[a]) /\ LedBy(p.alts[a], src.name)
<1>1. PICK size \in Nat, most \in Nat : /\ size = Len(p.alts) /\ DOMAIN p.alts = 1..size
                                        /\ most = Len(src.alts) /\ DOMAIN src.alts = 1..most
  BY Parts DEF Alternatives
<1>2. ASSUME NEW a \in 1..size, LedBy(p.alts[a], src.name)
      PROVE  /\ IsSequence(put(a)) /\ DOMAIN put(a) = 1..most
             /\ \A q \in DOMAIN put(a) : Sewn(put(a)[q])
  <2>1. IsSequence(put(a)) /\ DOMAIN put(a) = 1..most
    <3>1. PICK s : s = put(a)
      OBVIOUS
    <3>2. s = [m \in 1..most |-> src.alts[m] \o Tail(p.alts[a])]
      BY <3>1, <1>1
    <3>3. s = [m \in 1..most |-> s[m]]
      BY <3>2
    <3>4. IsSequence(s) /\ DOMAIN s = 1..most
      BY <3>3, Built
    <3> QED BY <3>1, <3>4
  <2>2. \A q \in DOMAIN put(a) : Sewn(put(a)[q])
    BY <1>1, <1>2
  <2> QED BY <2>1, <2>2
<1>3. ASSUME NEW x PROVE IsSequence(<<x>>) /\ DOMAIN <<x>> = {1} /\ <<x>>[1] = x
  <2>1. <<x>> \in Seq({x})
    OBVIOUS
  <2>2. DOMAIN <<x>> = {1} /\ <<x>>[1] = x
    OBVIOUS
  <2> QED BY <2>1, <2>2, OfSet
<1>4. ASSUME NEW a \in 1..size
      PROVE  IsSequence(ss[a]) /\ \A q \in DOMAIN ss[a] : Kept(ss[a][q]) \/ Sewn(ss[a][q])
  <2>1. CASE LedBy(p.alts[a], src.name)
    <3>1. ss[a] = put(a)
      BY <2>1, <1>1
    <3> HIDE DEF ss, put, Kept, Sewn
    <3> QED BY <2>1, <3>1, <1>2
  <2>2. CASE ~LedBy(p.alts[a], src.name)
    <3>1. ss[a] = <<p.alts[a]>>
      BY <2>2, <1>1
    <3>2. Kept(p.alts[a])
      BY <2>2, <1>1
    <3> HIDE DEF ss, put, Kept, Sewn
    <3>3. IsSequence(ss[a]) /\ DOMAIN ss[a] = {1} /\ ss[a][1] = p.alts[a]
      BY <3>1, <1>3
    <3>4. \A q \in DOMAIN ss[a] : ss[a][q] = p.alts[a]
      BY <3>3
    <3> QED BY <3>2, <3>3, <3>4
  <2> QED BY <2>1, <2>2
<1>5. IsSequence(ss) /\ DOMAIN ss = 1..size
  <2>1. PICK s : s = ss
    OBVIOUS
  <2>2. s = [a \in 1..size |-> s[a]]
    BY <2>1, <1>1
  <2>3. IsSequence(s) /\ DOMAIN s = 1..size
    BY <2>2, Built
  <2> QED BY <2>1, <2>3
<1>6. new = FlattenSeq(ss)
  BY DEF Inlined
<1> HIDE DEF ss, put, Kept, Sewn
<1>7. /\ IsSequence(new)
      /\ \A q \in DOMAIN new : \E k \in DOMAIN ss : \E m \in DOMAIN ss[k] : new[q] = ss[k][m]
  <2>1. \A k \in DOMAIN ss : IsSequence(ss[k])
    BY <1>4, <1>5
  <2> QED BY <1>5, <1>6, <2>1, Flat
<1>8. \A q \in DOMAIN new : Kept(new[q]) \/ Sewn(new[q])
  BY <1>4, <1>5, <1>7
<1>9. ASSUME NEW x, Kept(x)
      PROVE  /\ IsSequence(x) /\ (Filled(p.alts) => x # <<>>)
             /\ \A n : LedBy(x, n) => HasLeadingRefTo(p, n) /\ n # src.name
  BY <1>9 DEF Kept, Alternatives, Filled, HasLeadingRefTo
<1>10. ASSUME NEW x, Sewn(x)
       PROVE  /\ IsSequence(x)
              /\ Filled(src.alts) => x # <<>> /\ \A n : LedBy(x, n) => HasLeadingRefTo(src, n)
  <2>1. PICK a \in DOMAIN p.alts, m \in DOMAIN src.alts :
           x = src.alts[m] \o Tail(p.alts[a]) /\ LedBy(p.alts[a], src.name)
    BY <1>10 DEF Sewn
  <2>2. IsSequence(Tail(p.alts[a])) /\ IsSequence(src.alts[m])
    BY <2>1, Rest DEF Alternatives, LedBy
  <2>3. IsSequence(x)
    BY <2>1, <2>2, Joined
  <2>4. ASSUME Filled(src.alts) PROVE x # <<>> /\ \A n : LedBy(x, n) => HasLeadingRefTo(src, n)
    <3>1. src.alts[m] # <<>>
      BY <2>4 DEF Filled
    <3>2. x # <<>> /\ \A n : LedBy(x, n) <=> LedBy(src.alts[m], n)
      BY <2>1, <2>2, <3>1, Begun
    <3> QED BY <3>2 DEF HasLeadingRefTo
  <2> QED BY <2>3, <2>4
<1>11. Alternatives(new) /\ (Filled(p.alts) /\ Filled(src.alts) => Filled(new))
  BY <1>7, <1>8, <1>9, <1>10 DEF Alternatives, Filled
<1>12. ASSUME Filled(src.alts), NEW n, HasLeadingRefTo(Prod(p.name, new), n)
       PROVE  (HasLeadingRefTo(p, n) /\ n # src.name) \/ HasLeadingRefTo(src, n)
  <2>1. PICK q \in DOMAIN new : LedBy(new[q], n)
    BY <1>12, ProdParts DEF HasLeadingRefTo
  <2> QED BY <2>1, <1>8, <1>9, <1>10, <1>12
<1> QED BY <1>11, <1>12

(* A token in the place of a name leads to no rule.                        *)
TokenFor(alts, name) ==
    [a \in DOMAIN alts |-> IF LedBy(alts[a], name) THEN <<Token(name)>> \o Tail(alts[a]) ELSE alts[a]]

LEMMA TokenIs ==
    ASSUME NEW p, Alternatives(p.alts), NEW name,
           NEW new, new = TokenFor(p.alts, name)
    PROVE  /\ Alternatives(new) /\ (Filled(p.alts) => Filled(new))
           /\ \A n : HasLeadingRefTo(Prod(p.name, new), n) => HasLeadingRefTo(p, n) /\ n # name
<1>1. PICK size \in Nat : size = Len(p.alts) /\ DOMAIN p.alts = 1..size
  BY Parts DEF Alternatives
<1>2. IsSequence(new) /\ DOMAIN new = 1..size
  <2>1. new = [a \in 1..size |-> new[a]]
    BY <1>1 DEF TokenFor
  <2> QED BY <2>1, Built
<1>3. ASSUME NEW a \in 1..size
      PROVE  /\ IsSequence(new[a]) /\ (p.alts[a] # <<>> => new[a] # <<>>)
             /\ \A n : LedBy(new[a], n) => LedBy(p.alts[a], n) /\ n # name
  <2>1. IsSequence(p.alts[a])
    BY <1>1 DEF Alternatives
  <2>2. CASE LedBy(p.alts[a], name)
    <3>1. new[a] = <<Token(name)>> \o Tail(p.alts[a])
      BY <1>1, <2>2 DEF TokenFor
    <3>2. /\ <<Token(name)>> \in Seq({Token(name)}) /\ <<Token(name)>> # <<>>
          /\ Head(<<Token(name)>>) = Token(name)
      OBVIOUS
    <3>3. \A n : ~LedBy(<<Token(name)>>, n)
      BY <3>2 DEF LedBy, IsRefTo, Token
    <3>4. IsSequence(<<Token(name)>>) /\ IsSequence(Tail(p.alts[a]))
      BY <2>1, <2>2, <3>2, OfSet, Rest DEF LedBy
    <3>5. /\ IsSequence(new[a]) /\ new[a] # <<>>
          /\ \A n : LedBy(new[a], n) <=> LedBy(<<Token(name)>>, n)
      BY <3>1, <3>2, <3>4, Begun
    <3> QED BY <3>3, <3>5
  <2>3. CASE ~LedBy(p.alts[a], name)
    <3>1. new[a] = p.alts[a]
      BY <1>1, <2>3 DEF TokenFor
    <3> QED BY <2>1, <2>3, <3>1
  <2> QED BY <2>2, <2>3
<1>4. ASSUME NEW n, HasLeadingRefTo(Prod(p.name, new), n) PROVE HasLeadingRefTo(p, n) /\ n # name
  <2>1. PICK a \in DOMAIN new : LedBy(new[a], n)
    BY <1>4, ProdParts DEF HasLeadingRefTo
  <2> QED BY <1>1, <1>2, <1>3, <2>1 DEF HasLeadingRefTo
<1> QED BY <1>1, <1>2, <1>3, <1>4 DEF Alternatives, Filled

(* The seeds are the alternatives that do not begin with their rule.       *)
LEMMA SeedsAre ==
    ASSUME NEW p, Alternatives(p.alts), NEW new, new = Seeds(p, p.alts)
    PROVE  /\ Alternatives(new) /\ (Filled(p.alts) => Filled(new))
           /\ \A s \in DOMAIN new : \E a \in DOMAIN p.alts :
                 new[s] = p.alts[a] /\ ~LedBy(p.alts[a], p.name)
           /\ \A n : HasLeadingRefTo(Prod(p.name, new), n) => HasLeadingRefTo(p, n) /\ n # p.name
<1> DEFINE S == { a \in DOMAIN p.alts : ~LedBy(p.alts[a], p.name) }
<1>1. PICK size \in Nat : size = Len(p.alts) /\ DOMAIN p.alts = 1..size
  BY Parts DEF Alternatives
<1>2. /\ SeedsOf(p) = InOrder(S, size)
      /\ IsSequence(SeedsOf(p))
      /\ \A m \in DOMAIN SeedsOf(p) : SeedsOf(p)[m] \in S
  <2>1. SeedsOf(p) = InOrder(S, size)
    BY <1>1 DEF SeedsOf
  <2> HIDE DEF S
  <2> QED BY <2>1, InOrderHolds
<1>3. PICK most \in Nat : DOMAIN SeedsOf(p) = 1..most
  BY <1>2, Parts
<1>4. new = [s \in 1..most |-> p.alts[SeedsOf(p)[s]]]
  BY <1>3 DEF Seeds
<1>5. IsSequence(new) /\ DOMAIN new = 1..most
  <2>1. new = [s \in 1..most |-> new[s]]
    BY <1>4
  <2> QED BY <2>1, Built
<1>6. \A s \in DOMAIN new : \E a \in DOMAIN p.alts : new[s] = p.alts[a] /\ ~LedBy(p.alts[a], p.name)
  BY <1>2, <1>3, <1>4, <1>5
<1>7. Alternatives(new) /\ (Filled(p.alts) => Filled(new))
  BY <1>5, <1>6 DEF Alternatives, Filled
<1>8. ASSUME NEW n, HasLeadingRefTo(Prod(p.name, new), n)
      PROVE  HasLeadingRefTo(p, n) /\ n # p.name
  <2>1. PICK s \in DOMAIN new : LedBy(new[s], n)
    BY <1>8, ProdParts DEF HasLeadingRefTo
  <2>2. PICK a \in DOMAIN p.alts : new[s] = p.alts[a] /\ ~LedBy(p.alts[a], p.name)
    BY <1>6
  <2> QED BY <2>1, <2>2 DEF HasLeadingRefTo
<1> QED BY <1>6, <1>7, <1>8

(* A loop begins with a group, or with what its one seed is.               *)
LEMMA LoopIs ==
    ASSUME NEW p, Alternatives(p.alts), NEW star,
           NEW new, new = << <<Wrapped(Seeds(p, p.alts)), star>> >>
    PROVE  /\ Alternatives(new) /\ Filled(new)
           /\ \A n : HasLeadingRefTo(Prod(p.name, new), n) => HasLeadingRefTo(p, n) /\ n # p.name
<1> DEFINE seeds == Seeds(p, p.alts)
           first == Wrapped(seeds)
           alt == <<first, star>>
<1>1. /\ Alternatives(seeds)
      /\ \A s \in DOMAIN seeds : \E a \in DOMAIN p.alts :
            seeds[s] = p.alts[a] /\ ~LedBy(p.alts[a], p.name)
  BY SeedsAre
<1> HIDE DEF seeds
<1>2. ASSUME NEW n, IsRefTo(first, n) PROVE HasLeadingRefTo(p, n) /\ n # p.name
  <2>1. first # Group(seeds)
    BY <1>2 DEF IsRefTo, Group
  <2>2. Len(seeds) = 1 /\ Len(seeds[1]) = 1 /\ first = seeds[1][1]
    BY <2>1 DEF Wrapped
  <2>3. 1 \in DOMAIN seeds
    BY <1>1, <2>2, Parts DEF Alternatives
  <2>4. PICK a \in DOMAIN p.alts : seeds[1] = p.alts[a] /\ ~LedBy(p.alts[a], p.name)
    BY <1>1, <2>3
  <2>5. IsSequence(p.alts[a]) /\ p.alts[a] # <<>>
    BY <2>2, <2>4, Parts DEF Alternatives
  <2>6. LedBy(p.alts[a], n)
    BY <1>2, <2>2, <2>4, <2>5, Parts DEF LedBy
  <2> QED BY <2>4, <2>6 DEF HasLeadingRefTo
<1> HIDE DEF first
<1>3. alt \in Seq({first, star}) /\ alt # <<>> /\ Head(alt) = first
  OBVIOUS
<1>4. IsSequence(alt)
  BY <1>3, OfSet
<1> HIDE DEF alt
<1>5. new = <<alt>>
  BY DEF alt, first, seeds
<1>6. new \in Seq({alt}) /\ DOMAIN new = {1} /\ new[1] = alt
  BY <1>5
<1>7. Alternatives(new) /\ Filled(new)
  BY <1>3, <1>4, <1>6, OfSet DEF Alternatives, Filled
<1>8. ASSUME NEW n, HasLeadingRefTo(Prod(p.name, new), n)
      PROVE  HasLeadingRefTo(p, n) /\ n # p.name
  <2>1. PICK a \in DOMAIN new : LedBy(new[a], n)
    BY <1>8, ProdParts DEF HasLeadingRefTo
  <2>2. LedBy(alt, n)
    BY <2>1, <1>6
  <2>3. IsRefTo(first, n)
    BY <2>2, <1>3 DEF LedBy
  <2> QED BY <2>3, <1>2
<1> QED BY <1>7, <1>8

(* What is written out of a hidden alternative is not empty: what hides    *)
(* the rule stands before a reference to it.                               *)
LEMMA WrittenIs ==
    ASSUME NEW alts, Alternatives(alts),
           NEW k \in DOMAIN alts, NEW n, Hidden(alts[k], n),
           NEW new, new = Splice(alts, k, <<Present(alts[k][1]) \o Tail(alts[k]), Tail(alts[k])>>)
    PROVE  Alternatives(new) /\ (Filled(alts) => Filled(new))
<1> DEFINE alt == alts[k]
           here == Present(alt[1])
           mid == <<here \o Tail(alt), Tail(alt)>>
           left == SubSeq(alts, 1, k - 1)
           right == SubSeq(alts, k + 1, Len(alts))
           Good(x) == IsSequence(x) /\ (Filled(alts) => x # <<>>)
<1>1. PICK size \in Nat : size = Len(alts) /\ DOMAIN alts = 1..size
  BY Parts DEF Alternatives
<1>2. IsSequence(alt) /\ Len(alt) \in Nat /\ Len(alt) >= 2 /\ alt # <<>>
  <2>1. IsSequence(alt) /\ \E q \in 2..Len(alt) : IsRefTo(alt[q], n)
    BY DEF Alternatives, Hidden
  <2>2. Len(alt) \in Nat /\ (alt = <<>> <=> Len(alt) = 0)
    BY <2>1, Parts
  <2> HIDE DEF alt
  <2> QED BY <2>1, <2>2
<1>3. IsSequence(Tail(alt)) /\ Tail(alt) # <<>>
  <2>1. PICK most \in Nat : most = Len(alt) /\ Len(Tail(alt)) = most - 1 /\ IsSequence(Tail(alt))
    BY <1>2, Parts, Rest
  <2>2. most >= 2
    BY <1>2, <2>1
  <2>3. Len(Tail(alt)) # 0
    BY <2>1, <2>2
  <2>4. IsSequence(Tail(alt))
    BY <2>1
  <2> HIDE DEF alt
  <2> QED BY <2>3, <2>4, Parts
<1>4. IsSequence(here) /\ here # <<>>
  <2>1. \A x : <<x>> \in Seq({x}) /\ <<x>> # <<>>
    OBVIOUS
  <2>2. \A x, y : <<x, y>> \in Seq({x, y}) /\ <<x, y>> # <<>>
    OBVIOUS
  <2>3. (\E x : here = <<x>>) \/ (\E x, y : here = <<x, y>>)
    BY DEF Present
  <2> QED BY <2>1, <2>2, <2>3, OfSet
<1> HIDE DEF here
<1>5. Good(here \o Tail(alt)) /\ Good(Tail(alt))
  BY <1>3, <1>4, Begun
<1>6. IsSequence(mid) /\ \A q \in DOMAIN mid : Good(mid[q])
  <2> HIDE DEF Good, alt
  <2>1. PICK x, y : x = here \o Tail(alt) /\ y = Tail(alt)
    OBVIOUS
  <2>2. mid = <<x, y>>
    BY <2>1
  <2>3. mid \in Seq({x, y})
    BY <2>2
  <2>4. DOMAIN mid = {1, 2} /\ mid[1] = x /\ mid[2] = y
    BY <2>2
  <2>5. Good(x) /\ Good(y)
    BY <1>5, <2>1
  <2> HIDE DEF mid
  <2> QED BY <2>3, <2>4, <2>5, OfSet
<1>7. \A q \in 1..size : Good(alts[q])
  BY <1>1 DEF Alternatives, Filled
<1>8. /\ IsSequence(left) /\ \A q \in DOMAIN left : Good(left[q])
      /\ IsSequence(right) /\ \A q \in DOMAIN right : Good(right[q])
  <2> HIDE DEF Good
  <2>1. 1 \in 1..(size + 1) /\ k - 1 \in 0..size /\ k + 1 \in 1..(size + 1) /\ size \in 0..size
    BY <1>1
  <2>2. IsSequence(alts)
    BY DEF Alternatives
  <2>3. IsSequence(left) /\ \A q \in DOMAIN left : \E r \in DOMAIN alts : left[q] = alts[r]
    BY <1>1, <2>1, <2>2, Piece
  <2>4. IsSequence(right) /\ \A q \in DOMAIN right : \E r \in DOMAIN alts : right[q] = alts[r]
    BY <1>1, <2>1, <2>2, Piece
  <2> QED BY <1>1, <1>7, <2>3, <2>4
<1>9. new = left \o mid \o right
  BY DEF Splice, here
<1> HIDE DEF left, mid, right, Good
<1>10. ASSUME NEW s, NEW t, IsSequence(s), IsSequence(t),
              \A q \in DOMAIN s : Good(s[q]), \A q \in DOMAIN t : Good(t[q])
       PROVE  IsSequence(s \o t) /\ \A q \in DOMAIN (s \o t) : Good((s \o t)[q])
  <2>1. IsSequence(s \o t)
    BY <1>10, Joined
  <2>2. ASSUME NEW q \in DOMAIN (s \o t) PROVE Good((s \o t)[q])
    <3>1. \/ q \in DOMAIN s /\ (s \o t)[q] = s[q]
          \/ q - Len(s) \in DOMAIN t /\ (s \o t)[q] = t[q - Len(s)]
      BY <1>10, Joined
    <3> QED BY <3>1, <1>10
  <2> QED BY <2>1, <2>2
<1>11. IsSequence(new) /\ \A q \in DOMAIN new : Good(new[q])
  BY <1>6, <1>8, <1>9, <1>10
<1> QED BY <1>11 DEF Alternatives, Filled, Good

-----------------------------------------------------------------------------
(***************************************************************************)
(* The invariant.                                                          *)
(***************************************************************************)
Sound == Declares(prods) /\ (NothingEmpty(input) => NothingEmpty(prods))

Clocked == /\ phase \in {"split", "order", "cycles", "paull", "validate", "done", "refused"}
           /\ at \in Nat /\ tries \in Nat /\ i \in Nat /\ j \in Nat /\ rounds \in Nat

\* No rule has had its turn, neither walk has begun.
Fresh    == i = 1 /\ j = 1
SortIdle == steps = <<>> /\ colour = [n \in Names |-> 0] /\ order = <<>>
ScanIdle == /\ frames = <<>> /\ stack = <<>> /\ index = 0 /\ cyclic = {}
            /\ indices = [n \in Names |-> Unseen] /\ lowlinks = [n \in Names |-> Unseen]

(* The graph the walks run over is that of the rules as they stand.        *)
Mirrors == /\ lead \in LeadGraphs
           /\ \A k \in DOMAIN prods : LeadSet(lead, prods[k].name) = HeadsOf(prods[k])

(* No rule comes to begin with more than it could begin with at first.     *)
WellLed == \A k \in DOMAIN prods : \A n \in HeadsOf(prods[k]) : CanReach(lead, prods[k].name, n)
CyclesKnown == cyclic = { n \in Names : CanReach(lead, n, n) }

(* Paull's invariant, of the rules left behind.                            *)
Clean(k) == \A m \in 1..k : ~HasLeadingRefTo(prods[k], prods[m].name)
Behind == \A k \in 1..(i - 1) : ExemptAlias(prods[k]) \/ Clean(k)

(* The rules on no cycle that lead to a rule, and the rounds spent on the  *)
(* rule in turn.  What still leads that rule has as many above it as       *)
(* rounds were spent: only an exempt alias can bring an earlier rule back, *)
(* and each time it does so one more rule is above what it brings.         *)
Upstream(n) == { k \in Names \ cyclic : CanReach(lead, k, n) }
Spent   == Len(prods) + 1 - rounds
Due(m)  == IF m < j THEN Spent + 1 ELSE Spent
Counted == \A m \in 1..(i - 1) :
              HasLeadingRefTo(prods[i], prods[m].name) => Cardinality(Upstream(prods[m].name)) >= Due(m)
Skipped == rounds = 0 /\ ExemptAlias(prods[i])
Current == i <= Len(prods) => (changed \/ j = 1) /\ (Skipped \/ Counted)

InSplit  == phase = "split"  => Fresh /\ SortIdle /\ ScanIdle /\ at \in DOMAIN prods
InSort   == phase = "order"  => Fresh /\ ScanIdle /\ Mirrors /\ SortInv
InScan   == phase = "cycles" => Fresh /\ Mirrors /\ ScanInv
InTurns  == phase = "paull"  => /\ i \in 1..(Len(prods) + 1)
                                /\ i <= Len(prods) => j \in 1..i /\ rounds \in 0..(Len(prods) + 1)
InPaull  == phase = "paull"  => WellLed /\ CyclesKnown /\ Behind /\ Current
InEnd    == Rewritten => \A n \in Names : ~CanReach(LeadGraphOf(prods), n, n)

(* What holds of every grammar, and of one without an empty alternative.   *)
Shape == Declares(input) /\ Sound /\ Clocked /\ InSplit /\ InSort /\ InScan /\ InTurns
Depth == InPaull /\ InEnd
Pass  == Shape /\ (NothingEmpty(input) => Depth)
PassInv == phase # "refused" => Pass

-----------------------------------------------------------------------------
(* Counting.                                                               *)

(* There are no more names than rules.                                     *)
LEMMA NamesFinite ==
    ASSUME NEW g, Declares(g)
    PROVE  IsFiniteSet(Names) /\ Cardinality(Names) \in Nat /\ Cardinality(Names) <= Len(g)
<1>1. PICK size \in Nat \ {0} : size = Len(g) /\ DOMAIN g = 1..size
  BY Rules
<1> DEFINE f == [k \in 1..size |-> g[k].name]
<1>2. f \in Surjection(1..size, Names)
  <2>1. f \in [1..size -> Names]
    BY <1>1, Rules
  <2>2. \A n \in Names : \E k \in 1..size : f[k] = n
    BY <1>1, Rules
  <2> HIDE DEF f
  <2> QED BY <2>1, <2>2 DEF Surjection
<1>3. IsFiniteSet(1..size) /\ Cardinality(1..size) = size
  BY FS_Interval
<1> HIDE DEF f
<1>4. IsFiniteSet(Names) /\ Cardinality(Names) <= size
  BY <1>2, <1>3, FS_Surjection
<1> QED BY <1>1, <1>4, FS_CardinalityType

(* What is above a rule can be counted.                                    *)
LEMMA UpstreamCounts ==
    ASSUME IsFiniteSet(Names), NEW n
    PROVE  /\ IsFiniteSet(Upstream(n))
           /\ Cardinality(Upstream(n)) \in Nat /\ Cardinality(Upstream(n)) <= Cardinality(Names)
<1>1. Upstream(n) \in SUBSET Names
  BY DEF Upstream
<1> QED BY <1>1, FS_Subset, FS_CardinalityType

(* What a rule leads to has above it what the rule has.                    *)
LEMMA UpstreamGrows ==
    ASSUME IsFiniteSet(Names), NEW m \in Names, NEW n, CanReach(lead, m, n)
    PROVE  Cardinality(Upstream(m)) <= Cardinality(Upstream(n))
<1>1. Upstream(m) \in SUBSET Upstream(n)
  BY ReachTrans DEF Upstream
<1> QED BY <1>1, UpstreamCounts, FS_Subset

(* And the rule itself, when it is on no cycle.                            *)
LEMMA UpstreamMore ==
    ASSUME IsFiniteSet(Names), CyclesKnown, NEW m \in Names, m \notin cyclic, NEW n, CanReach(lead, m, n)
    PROVE  Cardinality(Upstream(n)) >= Cardinality(Upstream(m)) + 1
<1>1. Upstream(m) \cup {m} \in SUBSET Upstream(n)
  BY ReachTrans DEF Upstream
<1>2. m \notin Upstream(m)
  BY DEF Upstream, CyclesKnown
<1>3. Cardinality(Upstream(m) \cup {m}) = Cardinality(Upstream(m)) + 1
  BY <1>2, UpstreamCounts, FS_AddElement
<1>4. Cardinality(Upstream(m) \cup {m}) <= Cardinality(Upstream(n))
  BY <1>1, UpstreamCounts, FS_Subset
<1> QED BY <1>3, <1>4

-----------------------------------------------------------------------------
(* Up to the turn of the first rule.                                       *)

(* The guard of a rule's split is a number.                                *)
LEMMA GuardedIs ==
    ASSUME NEW p, Alternatives(p.alts)
    PROVE  Guarded(p) \in Nat
<1>1. PICK size \in Nat : size = Len(p.alts) /\ DOMAIN p.alts = 1..size
  BY Parts DEF Alternatives
<1>2. \A k \in 1..size : Len(p.alts[k]) \in Nat
  BY <1>1, Parts DEF Alternatives
<1> DEFINE step == [k \in 1..size |-> [x \in Nat |-> x + Len(p.alts[k])]]
<1>3. \A k \in 1..size, x \in Nat : step[k][x] = x + Len(p.alts[k]) /\ step[k][x] \in Nat
  BY <1>2
<1> HIDE DEF step
<1>4. Steps(step, Nat, size)
  BY <1>3 DEF Steps
<1>5. PICK f : Follows(f, step, Nat, 1, size)
  BY <1>4, Recursion
<1> DEFINE Defines(h) == h = [k \in 0..size |-> IF k = 0 THEN 1 ELSE h[k - 1] + Len(p.alts[k])]
           upto == CHOOSE h : Defines(h)
<1>6. Defines(f)
  <2>1. ASSUME NEW k \in 0..size
        PROVE  f[k] = IF k = 0 THEN 1 ELSE f[k - 1] + Len(p.alts[k])
    <3>1. CASE k = 0
      BY <3>1, <1>5 DEF Follows
    <3>2. CASE k # 0
      <4>1. k \in 1..size
        BY <3>2
      <4>2. f[k - 1] \in Nat /\ f[k] = step[k][f[k - 1]]
        BY <4>1, <1>5 DEF Follows
      <4> QED BY <4>1, <4>2, <1>3, <3>2
    <3> QED BY <3>1, <3>2
  <2>2. f = [k \in 0..size |-> f[k]]
    BY <1>5 DEF Follows
  <2> HIDE DEF upto
  <2> QED BY <2>1, <2>2, Zenon
<1>7. Defines(upto)
  <2> HIDE DEF Defines
  <2> QED BY <1>6
<1>8. Guarded(p) = upto[size]
  BY <1>1 DEF Guarded
<1> HIDE DEF upto
<1>9. ASSUME NEW k \in 0..size
      PROVE  upto[k] = IF k = 0 THEN 1 ELSE upto[k - 1] + Len(p.alts[k])
  BY <1>7, Zenon
<1> HIDE DEF Defines
<1> DEFINE H == { k \in 0..size : upto[k] \in Nat }
<1>10. 0 \in H
  BY <1>9
<1>11. ASSUME NEW k \in 1..size, k - 1 \in H PROVE k \in H
  BY <1>2, <1>9, <1>11
<1>12. size \in H
  <2> HIDE DEF H
  <2> QED BY <1>10, <1>11, Induct
<1> QED BY <1>8, <1>12

(* The pass starts in the invariant.                                       *)
LEMMA BeginKeeps ==
    ASSUME NEW g, Declares(g), Begins(g)
    PROVE  Pass
<1>1. 1 \in DOMAIN g
  BY Rules
<1>2. Fresh /\ SortIdle /\ ScanIdle /\ at \in DOMAIN prods /\ phase = "split"
  BY <1>1 DEF Begins, Fresh, SortIdle, ScanIdle, StartSort, StartScan
<1>3. Declares(input) /\ Sound
  BY DEF Begins, Sound
<1>4. Guarded(g[1]) \in Nat
  BY <1>1, Rules, GuardedIs
<1>5. Clocked
  BY <1>4 DEF Begins, Clocked
<1> QED BY <1>2, <1>3, <1>5
        DEF Pass, Shape, Depth, InSplit, InSort, InScan, InTurns, InPaull, InEnd, Rewritten

(* Writing leading sugar out keeps it.                                     *)
LEMMA WriteOutKeeps == Pass /\ WriteOut => Pass'
<1> SUFFICES ASSUME Pass, WriteOut PROVE Pass'
  OBVIOUS
<1>1. /\ phase = "split" /\ HiddenAlts(prods[at]) # {} /\ tries > 0 /\ tries' = tries - 1
      /\ Rewrite(at, Splice(prods[at].alts, Hiding, <<Present(Split[1]) \o Tail(Split), Tail(Split)>>))
      /\ UNCHANGED <<input, phase, at, i, j, rounds, lead, orderVars, cycleVars>>
  BY DEF WriteOut, Splitting, paullVars, walkVars
<1>2. /\ Declares(input) /\ Declares(prods) /\ (NothingEmpty(input) => NothingEmpty(prods)) /\ Clocked
      /\ Fresh /\ SortIdle /\ ScanIdle /\ at \in DOMAIN prods
  BY <1>1 DEF Pass, Shape, Sound, InSplit
<1> DEFINE p == prods[at]
<1>3. Alternatives(p.alts) /\ (NothingEmpty(prods) => Filled(p.alts))
  BY <1>2, Rules DEF NothingEmpty, Filled
<1>4. Hiding \in DOMAIN p.alts /\ Hidden(p.alts[Hiding], p.name)
  <2>1. HiddenAlts(p) \subseteq Nat
    BY <1>3, Parts DEF HiddenAlts, Alternatives
  <2>2. Hiding \in HiddenAlts(p)
    BY <1>1, <2>1, LeastOf DEF Hiding
  <2> QED BY <2>2 DEF HiddenAlts
<1> DEFINE new == Splice(p.alts, Hiding, <<Present(Split[1]) \o Tail(Split), Tail(Split)>>)
<1>5. Alternatives(new) /\ (NothingEmpty(prods) => Filled(new))
  BY <1>3, <1>4, WrittenIs DEF Split
<1>6. Becomes(prods, at, new, prods')
  BY <1>1 DEF Rewrite, Becomes
<1> HIDE DEF new, p
<1>7. /\ Declares(prods') /\ DOMAIN prods' = DOMAIN prods
      /\ NothingEmpty(input) => NothingEmpty(prods')
  BY <1>2, <1>5, <1>6, Rewrites
<1>8. Fresh' /\ SortIdle' /\ ScanIdle' /\ at' \in DOMAIN prods' /\ phase' = "split" /\ input' = input
  BY <1>1, <1>2, <1>7 DEF Fresh, SortIdle, ScanIdle, orderVars, cycleVars
<1>9. Clocked'
  BY <1>1, <1>2 DEF Clocked
<1> QED BY <1>2, <1>7, <1>8, <1>9
        DEF Pass, Shape, Depth, Sound, InSplit, InSort, InScan, InTurns, InPaull, InEnd, Rewritten

(* So does the next rule of the split, with a guard of its own.            *)
LEMMA SplitNextRuleKeeps == Pass /\ SplitNextRule => Pass'
<1> SUFFICES ASSUME Pass, SplitNextRule PROVE Pass'
  OBVIOUS
<1>1. /\ phase = "split" /\ at < Len(prods) /\ at' = at + 1 /\ tries' = Guarded(prods[at + 1])
      /\ UNCHANGED <<input, phase, prods, i, j, rounds, lead, orderVars, cycleVars>>
  BY DEF SplitNextRule, paullVars, walkVars
<1>2. /\ Declares(input) /\ Declares(prods) /\ (NothingEmpty(input) => NothingEmpty(prods)) /\ Clocked
      /\ Fresh /\ SortIdle /\ ScanIdle /\ at \in DOMAIN prods
  BY <1>1 DEF Pass, Shape, Sound, InSplit
<1>3. at + 1 \in DOMAIN prods
  BY <1>1, <1>2, Rules
<1>4. /\ Fresh' /\ SortIdle' /\ ScanIdle' /\ at' \in DOMAIN prods'
      /\ phase' = "split" /\ input' = input /\ prods' = prods
  BY <1>1, <1>2, <1>3 DEF Fresh, SortIdle, ScanIdle, orderVars, cycleVars
<1>5. tries' \in Nat
  BY <1>1, <1>2, <1>3, Rules, GuardedIs
<1>6. Clocked'
  BY <1>1, <1>2, <1>5 DEF Clocked
<1> QED BY <1>2, <1>4, <1>6
        DEF Pass, Shape, Depth, Sound, InSplit, InSort, InScan, InTurns, InPaull, InEnd, Rewritten

(* The walks start in their own invariants.                                *)
LEMMA SortStarts == SortInit' => SortInv'
  BY InitIInv, PTL
LEMMA ScanStarts == ScanInit' => ScanInv'
  BY InitInv, PTL

(* The rules are handed to the sort.                                       *)
LEMMA BeginOrderKeeps == Pass /\ BeginOrder => Pass'
<1> SUFFICES ASSUME Pass, BeginOrder PROVE Pass'
  OBVIOUS
<1>1. /\ phase = "split" /\ phase' = "order"
      /\ lead' = LeadGraphOf(prods) /\ todo' = Declared(prods)
      /\ UNCHANGED <<input, prods, at, tries, i, j, rounds, steps, colour, order, cycleVars>>
  BY DEF BeginOrder, splitVars, paullVars
<1>2. /\ Declares(input) /\ Declares(prods) /\ (NothingEmpty(input) => NothingEmpty(prods)) /\ Clocked
      /\ Fresh /\ SortIdle /\ ScanIdle
  BY <1>1 DEF Pass, Shape, Sound, InSplit
<1>3. /\ lead' \in LeadGraphs
      /\ \A k \in DOMAIN prods : LeadSet(lead', prods[k].name) = HeadsOf(prods[k])
  BY <1>1, <1>2, GraphIs
<1>4. Mirrors'
  BY <1>1, <1>3 DEF Mirrors
<1>5. todo' \in Seq(Names) /\ \A n \in Names : \E k \in 1..Len(todo') : todo'[k] = n
  <2>1. PICK size \in Nat : DOMAIN prods = 1..size
    BY <1>2, Rules
  <2>2. todo' = [k \in 1..size |-> prods[k].name]
    BY <1>1, <2>1 DEF Declared
  <2>3. \A k \in 1..size : prods[k].name \in Names
    BY <1>2, <2>1, Rules
  <2>4. todo' \in Seq(Names)
    BY <2>2, <2>3, IsASeq
  <2>5. Len(todo') = size
    <3>1. todo' = [k \in 1..size |-> todo'[k]]
      BY <2>2
    <3> QED BY <3>1, Built
  <2>6. \A n \in Names : \E k \in 1..size : prods[k].name = n
    BY <1>2, <2>1, Rules
  <2> QED BY <2>2, <2>4, <2>5, <2>6
<1>6. steps' = <<>> /\ colour' = [n \in Names |-> 0] /\ order' = <<>>
  BY <1>1, <1>2 DEF SortIdle
<1>7. SortInit'
  BY <1>3, <1>5, <1>6 DEF SortInit, StartSort
<1>8. SortInv'
  BY <1>7, SortStarts
<1>9. Fresh' /\ ScanIdle' /\ input' = input /\ prods' = prods
  BY <1>1, <1>2 DEF Fresh, ScanIdle, cycleVars
<1>10. Clocked'
  BY <1>1, <1>2 DEF Clocked
<1> QED BY <1>1, <1>2, <1>4, <1>8, <1>9, <1>10
        DEF Pass, Shape, Depth, Sound, InSplit, InSort, InScan, InTurns, InPaull, InEnd, Rewritten

(* A step of the sort keeps it.                                            *)
LEMMA OrderStepKeeps == Pass /\ OrderStep => Pass'
<1> SUFFICES ASSUME Pass, OrderStep PROVE Pass'
  OBVIOUS
<1>1. /\ phase = "order" /\ SortNext
      /\ UNCHANGED <<input, phase, prods, at, tries, i, j, rounds, cycleVars>>
  BY DEF OrderStep, splitVars, paullVars
<1>2. /\ Declares(input) /\ Declares(prods) /\ (NothingEmpty(input) => NothingEmpty(prods)) /\ Clocked
      /\ Fresh /\ ScanIdle /\ Mirrors /\ SortInv
  BY <1>1 DEF Pass, Shape, Sound, InSort
<1>3. lead' = lead
  BY <1>1 DEF SortNext, NextRoot, EnterSeen, EnterNew, Mark, Leave
<1>4. SortInv'
  BY <1>1, <1>2, Inductive
<1>5. Fresh' /\ ScanIdle' /\ input' = input /\ prods' = prods /\ phase' = "order" /\ Clocked'
  BY <1>1, <1>2 DEF Fresh, ScanIdle, cycleVars, Clocked
<1>6. Mirrors'
  BY <1>2, <1>3, <1>5 DEF Mirrors
<1> QED BY <1>2, <1>4, <1>5, <1>6
        DEF Pass, Shape, Depth, Sound, InSplit, InSort, InScan, InTurns, InPaull, InEnd, Rewritten

(* The sorted rules are the rules, handed to the scan for cycles.          *)
LEMMA BeginCyclesKeeps == Pass /\ BeginCycles => Pass'
<1> SUFFICES ASSUME Pass, BeginCycles PROVE Pass'
  OBVIOUS
<1>1. /\ phase = "order" /\ Sorted /\ phase' = "cycles"
      /\ prods' = [k \in DOMAIN order |-> Find(prods, order[k])]
      /\ roots' = order
      /\ UNCHANGED <<input, at, tries, i, j, rounds>>
      /\ UNCHANGED <<lead, frames, stack, index, indices, lowlinks, cyclic>>
  BY DEF BeginCycles, splitVars, paullVars
<1>2. /\ Declares(input) /\ Declares(prods) /\ (NothingEmpty(input) => NothingEmpty(prods)) /\ Clocked
      /\ Fresh /\ ScanIdle /\ Mirrors /\ SortInv
  BY <1>1 DEF Pass, Shape, Sound, InSort
<1>3. order \in Seq(Names)
  BY <1>2 DEF SortInv, TypeOK
<1>4. PICK size \in Nat : size = Len(order) /\ DOMAIN order = 1..size
  BY <1>3, LenProperties
<1>5. /\ \A k \in 1..size : order[k] \in Names
      /\ \A n \in Names : \E k \in 1..size : order[k] = n
      /\ \A k, m \in 1..size : order[k] = order[m] => k = m
  BY <1>1, <1>2, <1>3, <1>4, SortGives, ElementOfSeq DEF OrderIsDoneRules, Ordered
<1>6. size \in Nat \ {0}
  <2>1. 1 \in DOMAIN prods
    BY <1>2, Rules
  <2>2. prods[1].name \in Names
    BY <1>2, <2>1, Rules
  <2>3. \E k \in 1..size : TRUE
    BY <1>5, <2>2
  <2> QED BY <2>3
<1>7. /\ Declares(prods') /\ (NothingEmpty(input) => NothingEmpty(prods'))
      /\ \A k \in DOMAIN prods' : \E m \in DOMAIN prods : prods'[k] = prods[m]
  <2>1. prods' = [k \in 1..size |-> Find(prods, order[k])]
    BY <1>1, <1>4
  <2>2. Lists(order, size)
    BY <1>5 DEF Lists
  <2>3. Arranged(prods, order, size, prods')
    BY <2>1 DEF Arranged
  <2> QED BY <1>2, <1>6, <2>2, <2>3, Reordered
<1>8. Mirrors'
  BY <1>1, <1>2, <1>7 DEF Mirrors
<1>9. /\ lead' \in LeadGraphs /\ roots' \in Seq(Names)
      /\ \A n \in Names : \E k \in 1..Len(roots') : roots'[k] = n
  BY <1>1, <1>2, <1>3, <1>4, <1>5 DEF Mirrors
<1>10. /\ frames' = <<>> /\ stack' = <<>> /\ index' = 0 /\ cyclic' = {}
       /\ indices' = [n \in Names |-> Unseen] /\ lowlinks' = [n \in Names |-> Unseen]
  BY <1>1, <1>2 DEF ScanIdle
<1>11. ScanInit'
  BY <1>9, <1>10 DEF ScanInit, StartScan
<1>12. ScanInv'
  BY <1>11, ScanStarts
<1>13. Fresh' /\ input' = input /\ Clocked'
  BY <1>1, <1>2 DEF Fresh, Clocked
<1> QED BY <1>1, <1>2, <1>7, <1>8, <1>12, <1>13
        DEF Pass, Shape, Depth, Sound, InSplit, InSort, InScan, InTurns, InPaull, InEnd, Rewritten

(* A step of the scan keeps it.                                            *)
LEMMA CycleStepKeeps == Pass /\ CycleStep => Pass'
<1> SUFFICES ASSUME Pass, CycleStep PROVE Pass'
  OBVIOUS
<1>1. /\ phase = "cycles" /\ ScanNext
      /\ UNCHANGED <<input, phase, prods, at, tries, i, j, rounds>>
  BY DEF CycleStep, splitVars, paullVars
<1>2. /\ Declares(input) /\ Declares(prods) /\ (NothingEmpty(input) => NothingEmpty(prods)) /\ Clocked
      /\ Fresh /\ Mirrors /\ ScanInv
  BY <1>1 DEF Pass, Shape, Sound, InScan
<1>3. lead' = lead
  BY <1>1 DEF ScanNext, OpenRoot, SkipRoot, Descend, OpenFrame, BackEdge, CrossEdge,
              CloseComponent, Return, PopFrame
<1>4. ScanInv'
  BY <1>1, <1>2, ScanInductive
<1>5. Fresh' /\ input' = input /\ prods' = prods /\ phase' = "cycles" /\ Clocked'
  BY <1>1, <1>2 DEF Fresh, Clocked
<1>6. Mirrors'
  BY <1>2, <1>3, <1>5 DEF Mirrors
<1> QED BY <1>2, <1>4, <1>5, <1>6
        DEF Pass, Shape, Depth, Sound, InSplit, InSort, InScan, InTurns, InPaull, InEnd, Rewritten

-----------------------------------------------------------------------------
(* The rules in turn.                                                      *)

(* What the invariant says of the rule in turn.                            *)
LEMMA InTurn ==
    ASSUME Pass, phase = "paull", i <= Len(prods)
    PROVE  /\ Declares(input) /\ Declares(prods) /\ Clocked
           /\ NothingEmpty(input) => NothingEmpty(prods)
           /\ Len(prods) \in Nat /\ DOMAIN prods = 1..Len(prods) /\ i \in DOMAIN prods
           /\ Alternatives(prods[i].alts) /\ (NothingEmpty(prods) => Filled(prods[i].alts))
           /\ j \in 1..i /\ rounds \in 0..(Len(prods) + 1)
<1>1. /\ Declares(input) /\ Declares(prods) /\ Clocked
      /\ NothingEmpty(input) => NothingEmpty(prods)
      /\ i \in 1..(Len(prods) + 1) /\ j \in 1..i /\ rounds \in 0..(Len(prods) + 1)
  BY DEF Pass, Shape, Sound, InTurns
<1>2. Len(prods) \in Nat /\ DOMAIN prods = 1..Len(prods)
  BY <1>1, Rules
<1>3. i \in DOMAIN prods
  BY <1>1, <1>2
<1>4. Alternatives(prods[i].alts) /\ (NothingEmpty(prods) => Filled(prods[i].alts))
  BY <1>1, <1>3, Rules DEF NothingEmpty, Filled
<1> QED BY <1>1, <1>2, <1>3, <1>4

(* And what it says of it when no alternative is empty.                    *)
LEMMA InDepth ==
    ASSUME Pass, NothingEmpty(input), phase = "paull", i <= Len(prods)
    PROVE  /\ NothingEmpty(prods) /\ Filled(prods[i].alts)
           /\ WellLed /\ CyclesKnown /\ Behind /\ (changed \/ j = 1) /\ (Skipped \/ Counted)
<1>1. NothingEmpty(prods) /\ Filled(prods[i].alts)
  BY InTurn
<1>2. WellLed /\ CyclesKnown /\ Behind /\ Current
  BY DEF Pass, Depth, InPaull
<1> QED BY <1>1, <1>2 DEF Current

(* One rule rewritten.                                                     *)
LEMMA RuleRewritten ==
    ASSUME Declares(prods), NEW k \in DOMAIN prods,
           NEW alts, Alternatives(alts), Rewrite(k, alts)
    PROVE  /\ Declares(prods')
           /\ NothingEmpty(prods) /\ Filled(alts) => NothingEmpty(prods')
           /\ Len(prods') = Len(prods) /\ DOMAIN prods' = DOMAIN prods
           /\ \A m \in DOMAIN prods : prods'[m].name = prods[m].name
           /\ \A m \in DOMAIN prods : m # k => prods'[m] = prods[m]
           /\ prods'[k] = Prod(prods[k].name, alts)
<1>1. PICK g, h : g = prods /\ h = prods'
  OBVIOUS
<1>2. Becomes(g, k, alts, h)
  BY <1>1 DEF Rewrite, Becomes
<1>3. Declares(g) /\ k \in DOMAIN g
  BY <1>1
<1>4. /\ Declares(h) /\ Len(h) = Len(g) /\ DOMAIN h = DOMAIN g
      /\ NothingEmpty(g) /\ Filled(alts) => NothingEmpty(h)
      /\ \A m \in DOMAIN g : h[m].name = g[m].name
      /\ \A m \in DOMAIN g : m # k => h[m] = g[m]
      /\ h[k] = Prod(g[k].name, alts)
  BY <1>2, <1>3, Rewrites
<1> QED BY <1>1, <1>4

(* The guard a rule is given.                                              *)
LEMMA GuardIs ==
    ASSUME NEW k \in 1..Len(prods), Len(prods) \in Nat
    PROVE  Guard(k) = IF ExemptAlias(prods[k]) THEN 0 ELSE Len(prods) + 1
<1>1. ~(k > Len(prods))
  OBVIOUS
<1> QED BY <1>1 DEF Guard

(* Once a rule is settled, no earlier rule leads it: a guard that is spent *)
(* would take more rules above such a one than there are rules.            *)
LEMMA NoneEarlier ==
    ASSUME Pass, NothingEmpty(input), Settled, ~Skipped, NEW m \in 1..(i - 1)
    PROVE  ~HasLeadingRefTo(prods[i], prods[m].name)
<1>1. phase = "paull" /\ i <= Len(prods) /\ (rounds = 0 \/ (Led = {} /\ ~changed))
  BY DEF Settled
<1>2. /\ Declares(prods) /\ Len(prods) \in Nat /\ i \in 1..Len(prods)
      /\ (changed \/ j = 1) /\ Counted
  BY <1>1, InTurn, InDepth
<1>3. CASE rounds = 0
  <2>1. SUFFICES ASSUME HasLeadingRefTo(prods[i], prods[m].name) PROVE FALSE
    OBVIOUS
  <2> DEFINE above == Cardinality(Upstream(prods[m].name))
  <2>2. above >= Due(m)
    BY <1>2, <2>1 DEF Counted
  <2>3. above \in Nat /\ above <= Len(prods)
    <3>1. IsFiniteSet(Names) /\ Cardinality(Names) \in Nat /\ Cardinality(Names) <= Len(prods)
      BY <1>2, NamesFinite
    <3>2. above \in Nat /\ above <= Cardinality(Names)
      BY <3>1, UpstreamCounts
    <3> HIDE DEF above
    <3> QED BY <1>2, <3>1, <3>2
  <2> HIDE DEF above
  <2>4. Due(m) \in {Len(prods) + 1, Len(prods) + 1 + 1}
    BY <1>2, <1>3 DEF Due, Spent
  <2> QED BY <1>2, <2>2, <2>3, <2>4
<1>4. CASE rounds # 0
  <2>1. Led = {} /\ j = 1
    BY <1>1, <1>2, <1>4
  <2>2. m \notin Led
    BY <2>1
  <2>3. m \in j..(i - 1)
    BY <2>1
  <2> QED BY <2>2, <2>3 DEF Led
<1> QED BY <1>3, <1>4

(* The first rule takes its turn, and every cycle is known.                *)
LEMMA BeginPaullKeeps == Pass /\ BeginPaull => Pass'
<1> SUFFICES ASSUME Pass, BeginPaull PROVE Pass'
  OBVIOUS
<1>1. /\ phase = "cycles" /\ Scanned /\ phase' = "paull" /\ rounds' = Guard(1)
      /\ UNCHANGED <<input, prods, at, tries, i, j, lead, cyclic>>
  BY DEF BeginPaull, splitVars, walkVars, cycleVars
<1>2. /\ Declares(input) /\ Declares(prods) /\ (NothingEmpty(input) => NothingEmpty(prods)) /\ Clocked
      /\ i = 1 /\ j = 1 /\ Mirrors /\ ScanInv
  BY <1>1 DEF Pass, Shape, Sound, InScan, Fresh
<1>3. PICK size \in Nat \ {0} : size = Len(prods) /\ DOMAIN prods = 1..size
  BY <1>2, Rules
<1>4. ASSUME NEW k \in DOMAIN prods, NEW n \in HeadsOf(prods[k])
      PROVE  CanReach(lead, prods[k].name, n)
  <2>1. n \in LeadSet(lead, prods[k].name) /\ prods[k].name \in Names
    BY <1>2, Rules DEF Mirrors
  <2> QED BY <2>1, ReachTarget
<1>5. WellLed'
  BY <1>1, <1>4 DEF WellLed
<1>6. CyclesKnown'
  BY <1>1, <1>2, ScanGives DEF CyclesFound, CyclesKnown
<1>7. 1..(i' - 1) = {}
  BY <1>1, <1>2
<1>8. Behind' /\ Counted'
  BY <1>7 DEF Behind, Counted
<1>9. rounds' \in 0..(size + 1)
  <2>1. Guard(1) \in {0, size + 1}
    BY <1>3, GuardIs
  <2> QED BY <1>1, <2>1
<1>10. i' = 1 /\ j' = 1 /\ 1 \in 1..1 /\ 1 \in 1..(size + 1) /\ Len(prods') = size
  BY <1>1, <1>2, <1>3
<1>11. InTurns'
  BY <1>9, <1>10 DEF InTurns
<1>12. Current'
  BY <1>8, <1>10 DEF Current
<1>13. Clocked'
  BY <1>1, <1>2, <1>9 DEF Clocked
<1> QED BY <1>1, <1>2, <1>5, <1>6, <1>8, <1>11, <1>12, <1>13
        DEF Pass, Shape, Depth, Sound, InSplit, InSort, InScan, InPaull, InEnd, Rewritten

(* The turn of the next rule.                                              *)
LEMMA TurnPasses ==
    ASSUME Pass, Settled, NextTarget,
           NEW new, Alternatives(new), NothingEmpty(prods) => Filled(new), Rewrite(i, new)
    PROVE  Shape'
<1>1. /\ phase = "paull" /\ i <= Len(prods)
      /\ i' = i + 1 /\ j' = 1 /\ rounds' = Guard(i + 1)
      /\ UNCHANGED <<input, phase, at, tries>>
  BY DEF Settled, NextTarget, splitVars
<1>2. Declares(input) /\ Declares(prods) /\ (NothingEmpty(input) => NothingEmpty(prods)) /\ Clocked
  BY <1>1, InTurn
<1>3. PICK size \in Nat : size = Len(prods) /\ DOMAIN prods = 1..size /\ i \in 1..size
  BY <1>1, InTurn
<1>4. Declares(prods') /\ (NothingEmpty(input) => NothingEmpty(prods')) /\ Len(prods') = size
  BY <1>2, <1>3, RuleRewritten
<1>5. rounds' \in 0..(size + 1)
  BY <1>1, <1>3 DEF Guard
<1>6. i' \in 1..(size + 1) /\ j' \in 1..i'
  BY <1>1, <1>3
<1>7. InTurns'
  BY <1>4, <1>5, <1>6 DEF InTurns
<1>8. Clocked'
  BY <1>1, <1>2, <1>5, <1>6 DEF Clocked
<1> QED BY <1>1, <1>2, <1>4, <1>7, <1>8 DEF Shape, Sound, InSplit, InSort, InScan

(* The rule in turn loses its own name and gains nothing: the turn of the  *)
(* next one.                                                               *)
LEMMA TurnEnds ==
    ASSUME Pass, NothingEmpty(input), Settled, NextTarget,
           NEW new, Alternatives(new), Rewrite(i, new),
           \A n : HasLeadingRefTo(Prod(prods[i].name, new), n) =>
                     HasLeadingRefTo(prods[i], n) /\ n # prods[i].name,
           Skipped => new = prods[i].alts
    PROVE  Depth'
<1>1. /\ phase = "paull" /\ i <= Len(prods)
      /\ i' = i + 1 /\ j' = 1 /\ rounds' = Guard(i + 1)
      /\ UNCHANGED <<input, phase, lead, cyclic>>
  BY DEF Settled, NextTarget, walkVars, cycleVars
<1>2. /\ Declares(prods) /\ i \in DOMAIN prods
      /\ WellLed /\ CyclesKnown /\ Behind
  BY <1>1, InTurn, InDepth
<1>3. PICK size \in Nat : size = Len(prods) /\ DOMAIN prods = 1..size
  BY <1>1, InTurn
<1>4. /\ Len(prods') = size /\ DOMAIN prods' = 1..size
      /\ \A m \in 1..size : prods'[m].name = prods[m].name
      /\ \A m \in 1..size : m # i => prods'[m] = prods[m]
      /\ prods'[i] = Prod(prods[i].name, new)
  BY <1>2, <1>3, RuleRewritten
<1>5. ASSUME NEW n, HasLeadingRefTo(prods'[i], n)
      PROVE  HasLeadingRefTo(prods[i], n) /\ n # prods[i].name
  BY <1>4, <1>5
<1>6. ASSUME NEW k \in DOMAIN prods', NEW n \in HeadsOf(prods'[k])
      PROVE  CanReach(lead, prods'[k].name, n)
  <2>1. n \in HeadsOf(prods[k]) /\ k \in DOMAIN prods
    <3>1. CASE k = i
      BY <1>3, <1>4, <1>5, <3>1 DEF HeadsOf
    <3>2. CASE k # i
      BY <1>3, <1>4, <3>2
    <3> QED BY <3>1, <3>2
  <2>2. CanReach(lead, prods[k].name, n)
    BY <1>2, <2>1 DEF WellLed
  <2> QED BY <1>3, <1>4, <2>1, <2>2
<1>7. WellLed'
  BY <1>1, <1>6 DEF WellLed
<1>8. CyclesKnown'
  BY <1>1, <1>2 DEF CyclesKnown
<1>9. ASSUME NEW k, prods'[k] = prods[k], ExemptAlias(prods[k]) PROVE ExemptAlias(prods[k])'
  BY <1>1, <1>9 DEF ExemptAlias
<1>10. ASSUME NEW k \in 1..(i' - 1) PROVE (ExemptAlias(prods[k]) \/ Clean(k))'
  <2>1. k \in 1..size /\ \A m \in 1..k : m \in 1..size
    BY <1>1, <1>2, <1>3
  <2>2. CASE k = i
    <3>1. CASE Skipped
      <4>1. prods'[i] = prods[i]
        BY <1>2, <1>4, <3>1, Rules
      <4> QED BY <1>9, <2>2, <3>1, <4>1 DEF Skipped
    <3>2. CASE ~Skipped
      <4>1. ASSUME NEW m \in 1..k PROVE ~HasLeadingRefTo(prods'[k], prods'[m].name)
        <5>1. prods'[m].name = prods[m].name
          BY <1>4, <2>1
        <5>2. CASE m = i
          BY <1>5, <2>2, <5>1, <5>2
        <5>3. CASE m # i
          <6>1. m \in 1..(i - 1)
            BY <1>2, <1>3, <2>2, <5>3
          <6>2. ~HasLeadingRefTo(prods[i], prods[m].name)
            BY <3>2, <6>1, NoneEarlier
          <6> QED BY <1>5, <2>2, <5>1, <6>2
        <5> QED BY <5>2, <5>3
      <4> QED BY <4>1 DEF Clean
    <3> QED BY <3>1, <3>2
  <2>3. CASE k # i
    <3>1. k \in 1..(i - 1)
      BY <1>1, <1>2, <1>3, <2>3
    <3>2. prods'[k] = prods[k] /\ \A m \in 1..k : prods'[m].name = prods[m].name
      BY <1>4, <2>1, <2>3
    <3>3. CASE ExemptAlias(prods[k])
      BY <1>9, <3>2, <3>3
    <3>4. CASE Clean(k)
      <4>1. Clean(k)'
        BY <3>2, <3>4 DEF Clean
      <4> QED BY <4>1
    <3> QED BY <1>2, <3>1, <3>3, <3>4 DEF Behind
  <2> QED BY <2>2, <2>3
<1>11. Behind'
  BY <1>10 DEF Behind
<1>12. Current'
  <2>1. SUFFICES ASSUME i' <= size PROVE (Skipped \/ Counted)'
    BY <1>1, <1>4 DEF Current
  <2>2. i + 1 \in 1..size /\ i + 1 # i
    BY <1>1, <1>2, <1>3, <2>1
  <2>3. prods'[i + 1] = prods[i + 1]
    BY <1>4, <2>2
  <2>4. rounds' = IF ExemptAlias(prods[i + 1]) THEN 0 ELSE size + 1
    BY <1>1, <1>3, <2>2, GuardIs
  <2>5. CASE ExemptAlias(prods[i + 1])
    <3>1. rounds' = 0
      BY <2>4, <2>5
    <3>2. ExemptAlias(prods[i])'
      BY <1>1, <2>3, <2>5 DEF ExemptAlias
    <3>3. Skipped'
      BY <3>1, <3>2 DEF Skipped
    <3> QED BY <3>3
  <2>6. CASE ~ExemptAlias(prods[i + 1])
    <3>1. rounds' = size + 1
      BY <2>4, <2>6
    <3>2. ASSUME NEW m \in 1..(i' - 1)
          PROVE  (Cardinality(Upstream(prods[m].name)) >= Due(m))'
      <4>1. Spent' = 0 /\ ~(m < j')
        BY <1>1, <1>4, <3>1 DEF Spent
      <4>2. Due(m)' = 0
        BY <4>1 DEF Due
      <4>3. \A n : Cardinality(Upstream(n)) \in Nat
        BY <1>2, NamesFinite, UpstreamCounts
      <4>4. \A n : Upstream(n)' = Upstream(n)
        BY <1>1 DEF Upstream
      <4>5. Cardinality(Upstream(prods[m].name))' \in Nat
        BY <4>3, <4>4
      <4> QED BY <4>2, <4>5
    <3>3. Counted'
      BY <3>2 DEF Counted
    <3> QED BY <3>3
  <2> QED BY <2>5, <2>6
<1> QED BY <1>1, <1>7, <1>8, <1>11, <1>12 DEF Depth, InPaull, InEnd, Rewritten

(* The scan goes on behind the leader that gave way.                       *)
LEMMA ScanPasses ==
    ASSUME Pass, Substituting, Led # {},
           NEW new, Alternatives(new), NothingEmpty(prods) => Filled(new), Rewrite(i, new),
           j' = Min(Led) + 1, UNCHANGED <<input, phase, at, tries, i, rounds>>
    PROVE  Shape' /\ j' > j
<1>1. phase = "paull" /\ i <= Len(prods)
  BY DEF Substituting
<1>2. Declares(input) /\ Declares(prods) /\ (NothingEmpty(input) => NothingEmpty(prods)) /\ Clocked
  BY <1>1, InTurn
<1>3. PICK size \in Nat : /\ size = Len(prods) /\ DOMAIN prods = 1..size /\ i \in 1..size
                          /\ j \in 1..i /\ rounds \in 0..(size + 1)
  BY <1>1, InTurn
<1>4. Declares(prods') /\ (NothingEmpty(input) => NothingEmpty(prods')) /\ Len(prods') = size
  BY <1>2, <1>3, RuleRewritten
<1>5. Min(Led) \in j..(i - 1)
  <2>1. Led \subseteq Nat
    BY <1>3 DEF Led
  <2>2. Min(Led) \in Led
    BY <2>1, LeastOf
  <2> QED BY <2>2 DEF Led
<1>6. j' \in 1..i /\ j' > j
  BY <1>3, <1>5
<1>7. InTurns'
  BY <1>3, <1>4, <1>6 DEF InTurns
<1>8. Clocked'
  BY <1>2, <1>3, <1>6 DEF Clocked
<1> QED BY <1>1, <1>2, <1>4, <1>6, <1>7, <1>8 DEF Shape, Sound, InSplit, InSort, InScan

(* One of the rule's leaders gives way to what leads the leader.           *)
LEMMA Substituted ==
    ASSUME Pass, NothingEmpty(input), Substituting, Led # {},
           NEW new, Alternatives(new), Rewrite(i, new),
           \A n : HasLeadingRefTo(Prod(prods[i].name, new), n) =>
                     \/ HasLeadingRefTo(prods[i], n) /\ n # Leader.name
                     \/ HasLeadingRefTo(Leader, n),
           j' = Min(Led) + 1, changed',
           UNCHANGED <<input, phase, i, rounds, lead, cyclic>>
    PROVE  Depth'
<1>1. phase = "paull" /\ i <= Len(prods) /\ rounds > 0
  BY DEF Substituting
<1>2. /\ Declares(prods) /\ i \in DOMAIN prods
      /\ WellLed /\ CyclesKnown /\ Behind
  BY <1>1, InTurn, InDepth
<1>3. PICK size \in Nat : /\ size = Len(prods) /\ DOMAIN prods = 1..size
                          /\ j \in 1..i /\ rounds \in 1..(size + 1) /\ i \in 1..size
  <2>1. /\ Len(prods) \in Nat /\ DOMAIN prods = 1..Len(prods) /\ i \in DOMAIN prods
        /\ j \in 1..i /\ rounds \in 0..(Len(prods) + 1)
    BY <1>1, InTurn
  <2>2. rounds \in 1..(Len(prods) + 1)
    BY <1>1, <2>1
  <2> QED BY <2>1, <2>2
<1>4. Counted
  <2>1. ~Skipped
    BY <1>1 DEF Skipped
  <2> QED BY <1>1, <2>1, InDepth
<1>5. PICK l : l = Min(Led)
  OBVIOUS
<1>6. l \in j..(i - 1) /\ HasLeadingRefTo(prods[i], prods[l].name) /\ \A m \in Led : l <= m
  <2>1. Led \subseteq Nat
    BY <1>3 DEF Led
  <2>2. l \in Led /\ \A m \in Led : l <= m
    BY <1>5, <2>1, LeastOf
  <2> QED BY <2>2 DEF Led
<1>7. Leader = prods[l] /\ l \in 1..(i - 1) /\ l \in DOMAIN prods
  BY <1>3, <1>5, <1>6 DEF Leader
<1>8. /\ Len(prods') = size /\ DOMAIN prods' = 1..size
      /\ \A m \in 1..size : prods'[m].name = prods[m].name
      /\ \A m \in 1..size : m # i => prods'[m] = prods[m]
      /\ prods'[i] = Prod(prods[i].name, new)
  BY <1>2, <1>3, RuleRewritten
<1>9. ASSUME NEW n, HasLeadingRefTo(prods'[i], n)
      PROVE  (HasLeadingRefTo(prods[i], n) /\ n # prods[l].name) \/ HasLeadingRefTo(prods[l], n)
  BY <1>7, <1>8, <1>9
<1>10. \A k \in 1..size : prods[k].name \in Names
  BY <1>2, <1>3, Rules
<1>11. CanReach(lead, prods[i].name, prods[l].name)
  BY <1>2, <1>3, <1>6, <1>7, <1>10 DEF WellLed, HeadsOf
<1>12. ASSUME NEW n \in Names, HasLeadingRefTo(prods[l], n) PROVE CanReach(lead, prods[l].name, n)
  BY <1>2, <1>7, <1>12 DEF WellLed, HeadsOf
<1>13. ASSUME NEW k \in DOMAIN prods', NEW n \in HeadsOf(prods'[k])
       PROVE  CanReach(lead, prods'[k].name, n)
  <2>1. k \in 1..size /\ n \in Names /\ prods'[k].name = prods[k].name
    BY <1>8 DEF HeadsOf
  <2>2. CASE k # i
    <3>1. n \in HeadsOf(prods[k])
      BY <1>8, <2>1, <2>2
    <3> QED BY <1>2, <1>3, <2>1, <3>1 DEF WellLed
  <2>3. CASE k = i
    <3>1. HasLeadingRefTo(prods[i], n) \/ HasLeadingRefTo(prods[l], n)
      BY <1>9, <2>3 DEF HeadsOf
    <3>2. CASE HasLeadingRefTo(prods[i], n)
      BY <1>2, <2>1, <2>3, <3>2 DEF WellLed, HeadsOf
    <3>3. CASE HasLeadingRefTo(prods[l], n)
      <4>1. CanReach(lead, prods[l].name, n) /\ prods[l].name \in Names
        BY <1>3, <1>7, <1>10, <1>12, <2>1, <3>3
      <4> QED BY <1>11, <2>1, <2>3, <4>1, ReachTrans
    <3> QED BY <3>1, <3>2, <3>3
  <2> QED BY <2>2, <2>3
<1>14. WellLed'
  BY <1>13 DEF WellLed
<1>15. CyclesKnown'
  BY <1>2 DEF CyclesKnown
<1>16. ASSUME NEW k \in 1..(i' - 1) PROVE (ExemptAlias(prods[k]) \/ Clean(k))'
  <2>1. k \in 1..(i - 1) /\ k \in 1..size /\ k # i /\ \A m \in 1..k : m \in 1..size
    BY <1>3
  <2>2. prods'[k] = prods[k] /\ \A m \in 1..k : prods'[m].name = prods[m].name
    BY <1>8, <2>1
  <2>3. CASE ExemptAlias(prods[k])
    BY <2>2, <2>3 DEF ExemptAlias
  <2>4. CASE Clean(k)
    <3>1. Clean(k)'
      BY <2>2, <2>4 DEF Clean
    <3> QED BY <3>1
  <2> QED BY <1>2, <2>1, <2>3, <2>4 DEF Behind
<1>17. Behind'
  BY <1>16 DEF Behind
<1> DEFINE above(n) == Cardinality(Upstream(n))
<1>18. IsFiniteSet(Names) /\ \A n : above(n) \in Nat
  BY <1>2, NamesFinite, UpstreamCounts
<1>19. Spent \in Int /\ Spent' = Spent
  BY <1>3, <1>8 DEF Spent
<1>20. above(prods[l].name) >= Spent
  <2>1. above(prods[l].name) >= Due(l) /\ Due(l) = Spent
    BY <1>3, <1>4, <1>6, <1>7 DEF Counted, Due
  <2> QED BY <2>1
<1>21. ASSUME NEW m \in 1..(i - 1), HasLeadingRefTo(prods'[i], prods[m].name)
       PROVE  above(prods[m].name) >= IF m < l + 1 THEN Spent + 1 ELSE Spent
  <2> DEFINE n == prods[m].name
  <2>1. n \in Names /\ m \in 1..size /\ m \in Int /\ l \in Int
    BY <1>3, <1>7, <1>10
  <2>2. CASE HasLeadingRefTo(prods[i], n) /\ n # prods[l].name
    <3>1. above(n) >= Due(m) /\ m # l
      BY <1>4, <2>2 DEF Counted
    <3>2. m < j \/ m > l
      <4>1. m >= j => m \in Led
        BY <1>3, <2>2 DEF Led
      <4> QED BY <1>3, <1>6, <2>1, <3>1, <4>1
    <3>3. Due(m) = IF m < j THEN Spent + 1 ELSE Spent
      BY DEF Due
    <3> HIDE DEF above
    <3> QED BY <1>3, <1>18, <1>19, <2>1, <3>1, <3>2, <3>3
  <2>3. CASE HasLeadingRefTo(prods[l], n)
    <3>1. CanReach(lead, prods[l].name, n) /\ prods[l].name \in Names
      BY <1>3, <1>7, <1>10, <1>12, <2>1, <2>3
    <3>2. CASE ExemptAlias(prods[l])
      <4>1. prods[l].name \notin cyclic
        BY <3>2 DEF ExemptAlias
      <4>2. above(n) >= above(prods[l].name) + 1
        BY <1>2, <1>18, <3>1, <4>1, UpstreamMore
      <4> HIDE DEF above
      <4> QED BY <1>18, <1>19, <1>20, <4>2
    <3>3. CASE Clean(l)
      <4>1. m > l
        <5>1. ~(m \in 1..l)
          BY <2>3, <3>3 DEF Clean
        <5> QED BY <2>1, <5>1
      <4>2. above(n) >= above(prods[l].name)
        BY <1>18, <3>1, UpstreamGrows
      <4> HIDE DEF above
      <4> QED BY <1>18, <1>19, <1>20, <2>1, <4>1, <4>2
    <3> QED BY <1>2, <1>7, <3>2, <3>3 DEF Behind
  <2> QED BY <1>9, <1>21, <2>2, <2>3
<1>22. ASSUME NEW m \in 1..(i' - 1), HasLeadingRefTo(prods[i], prods[m].name)'
       PROVE  (Cardinality(Upstream(prods[m].name)) >= Due(m))'
  <2>1. m \in 1..(i - 1) /\ prods'[m].name = prods[m].name
    BY <1>3, <1>8
  <2>2. HasLeadingRefTo(prods'[i], prods[m].name)
    BY <1>22, <2>1
  <2>3. above(prods[m].name) >= IF m < l + 1 THEN Spent + 1 ELSE Spent
    BY <1>21, <2>1, <2>2
  <2>4. \A n : Upstream(n)' = Upstream(n)
    BY DEF Upstream
  <2>5. Due(m)' = IF m < l + 1 THEN Spent + 1 ELSE Spent
    BY <1>5, <1>19 DEF Due
  <2> QED BY <2>1, <2>3, <2>4, <2>5
<1>23. Counted'
  BY <1>22 DEF Counted
<1>24. Current'
  BY <1>23 DEF Current
<1> QED BY <1>1, <1>14, <1>15, <1>17, <1>24 DEF Depth, InPaull, InEnd, Rewritten

(* A leading reference gives way to what the leader begins with.           *)
LEMMA InlineKeeps == Pass /\ Inline => Pass' /\ j' > j
<1> SUFFICES ASSUME Pass, Inline PROVE Pass' /\ j' > j
  OBVIOUS
<1> DEFINE new == Inlined(prods[i], Leader, prods[i].alts, Leader.alts)
<1>1. /\ Substituting /\ Led # {} /\ Rewrite(i, new) /\ j' = Min(Led) + 1 /\ changed'
      /\ UNCHANGED <<input, phase, at, tries, i, rounds, lead, cyclic>>
  BY DEF Inline, splitVars, walkVars, cycleVars
<1>2. /\ Declares(prods) /\ DOMAIN prods = 1..Len(prods)
      /\ NothingEmpty(input) => NothingEmpty(prods)
      /\ Alternatives(prods[i].alts) /\ (NothingEmpty(prods) => Filled(prods[i].alts))
      /\ Len(prods) \in Nat /\ i \in DOMAIN prods /\ j \in 1..i
  BY <1>1, InTurn DEF Substituting
<1>3. Min(Led) \in DOMAIN prods
  <2>1. Led \subseteq DOMAIN prods
    BY <1>2 DEF Led
  <2>2. Led \subseteq Nat
    BY <1>2, <2>1
  <2> QED BY <1>1, <2>1, <2>2, LeastOf
<1>4. Alternatives(Leader.alts) /\ (NothingEmpty(prods) => Filled(Leader.alts))
  BY <1>2, <1>3, Rules DEF Leader, NothingEmpty, Filled
<1>5. /\ Alternatives(new) /\ (NothingEmpty(prods) => Filled(new))
      /\ NothingEmpty(prods) => \A n : HasLeadingRefTo(Prod(prods[i].name, new), n) =>
                   \/ HasLeadingRefTo(prods[i], n) /\ n # Leader.name
                   \/ HasLeadingRefTo(Leader, n)
  BY <1>2, <1>4, InlinedIs
<1> HIDE DEF new
<1>6. Shape' /\ j' > j
  BY <1>1, <1>5, ScanPasses
<1>7. NothingEmpty(input) => Depth'
  BY <1>1, <1>2, <1>5, Substituted
<1> QED BY <1>1, <1>6, <1>7 DEF Pass

(* A leading reference to a kept token class becomes its token.            *)
LEMMA InlineTokenKeeps == Pass /\ InlineToken => Pass' /\ j' > j
<1> SUFFICES ASSUME Pass, InlineToken PROVE Pass' /\ j' > j
  OBVIOUS
<1> DEFINE new == TokenFor(prods[i].alts, Leader.name)
<1>1. /\ Substituting /\ Led # {} /\ Rewrite(i, new) /\ j' = Min(Led) + 1 /\ changed'
      /\ UNCHANGED <<input, phase, at, tries, i, rounds, lead, cyclic>>
  BY DEF InlineToken, TokenFor, splitVars, walkVars, cycleVars
<1>2. Alternatives(prods[i].alts) /\ (NothingEmpty(prods) => Filled(prods[i].alts))
  BY <1>1, InTurn DEF Substituting
<1>3. /\ Alternatives(new) /\ (NothingEmpty(prods) => Filled(new))
      /\ \A n : HasLeadingRefTo(Prod(prods[i].name, new), n) =>
                   HasLeadingRefTo(prods[i], n) /\ n # Leader.name
  BY <1>2, TokenIs
<1> HIDE DEF new
<1>4. Shape' /\ j' > j
  BY <1>1, <1>3, ScanPasses
<1>5. NothingEmpty(input) => Depth'
  BY <1>1, <1>3, Substituted
<1> QED BY <1>1, <1>4, <1>5 DEF Pass

(* One round more: what still leads the rule in turn has one more above    *)
(* it than the rounds before.                                              *)
LEMMA RoundsCount ==
    ASSUME Pass, NothingEmpty(input), NextRound
    PROVE  Depth'
<1>1. /\ phase = "paull" /\ i <= Len(prods) /\ rounds > 0 /\ Led = {}
      /\ rounds' = rounds - 1 /\ j' = 1
      /\ UNCHANGED <<input, phase, prods, i, lead, cyclic>>
  BY DEF NextRound, RoundAgain, Substituting, walkVars, cycleVars
<1>2. WellLed /\ CyclesKnown /\ Behind
  BY <1>1, InDepth
<1>3. PICK size \in Nat : size = Len(prods) /\ i \in 1..size /\ j \in 1..i /\ rounds \in 0..(size + 1)
  <2>1. /\ Len(prods) \in Nat /\ DOMAIN prods = 1..Len(prods) /\ i \in DOMAIN prods
        /\ j \in 1..i /\ rounds \in 0..(Len(prods) + 1)
    BY <1>1, InTurn
  <2> QED BY <2>1
<1>4. Counted
  <2>1. ~Skipped
    BY <1>1 DEF Skipped
  <2> QED BY <1>1, <2>1, InDepth
<1>5. WellLed' /\ CyclesKnown' /\ Behind'
  BY <1>1, <1>2 DEF WellLed, CyclesKnown, Behind, ExemptAlias, Clean
<1>6. ASSUME NEW m \in 1..(i - 1), HasLeadingRefTo(prods[i], prods[m].name)
      PROVE  (Cardinality(Upstream(prods[m].name)) >= Due(m))'
  <2>1. m \notin Led
    BY <1>1
  <2>2. m < j
    BY <1>3, <1>6, <2>1 DEF Led
  <2>3. Cardinality(Upstream(prods[m].name)) >= Spent + 1
    BY <1>4, <1>6, <2>2 DEF Counted, Due
  <2>4. \A n : Upstream(n)' = Upstream(n)
    BY <1>1 DEF Upstream
  <2>5. Due(m)' = Spent + 1
    <3>1. Spent' = Spent + 1
      BY <1>1, <1>3 DEF Spent
    <3>2. ~(m < j')
      BY <1>1
    <3> QED BY <3>1, <3>2 DEF Due
  <2> QED BY <1>1, <2>3, <2>4, <2>5
<1>7. Counted'
  BY <1>1, <1>6 DEF Counted
<1>8. Current'
  BY <1>1, <1>7 DEF Current
<1> QED BY <1>1, <1>5, <1>8 DEF Depth, InPaull, InEnd, Rewritten

(* The next round keeps it.                                                *)
LEMMA NextRoundKeeps == Pass /\ NextRound => Pass'
<1> SUFFICES ASSUME Pass, NextRound PROVE Pass'
  OBVIOUS
<1>1. /\ phase = "paull" /\ i <= Len(prods) /\ rounds > 0
      /\ rounds' = rounds - 1 /\ j' = 1
      /\ UNCHANGED <<input, phase, prods, at, tries, i>>
  BY DEF NextRound, RoundAgain, Substituting, splitVars
<1>2. Declares(input) /\ Declares(prods) /\ (NothingEmpty(input) => NothingEmpty(prods)) /\ Clocked
  BY <1>1, InTurn
<1>3. PICK size \in Nat : size = Len(prods) /\ i \in 1..size /\ rounds \in 0..(size + 1)
  <2>1. /\ Len(prods) \in Nat /\ DOMAIN prods = 1..Len(prods) /\ i \in DOMAIN prods
        /\ rounds \in 0..(Len(prods) + 1)
    BY <1>1, InTurn
  <2> QED BY <2>1
<1>4. j' \in 1..i /\ rounds' \in 0..(size + 1)
  BY <1>1, <1>3
<1>5. InTurns'
  BY <1>1, <1>3, <1>4 DEF InTurns
<1>6. Clocked'
  BY <1>1, <1>2, <1>3, <1>4 DEF Clocked
<1>7. Shape'
  BY <1>1, <1>2, <1>5, <1>6 DEF Shape, Sound, InSplit, InSort, InScan
<1>8. NothingEmpty(input) => Depth'
  BY RoundsCount
<1> QED BY <1>1, <1>7, <1>8 DEF Pass

(* An alias that is exempt is not its own name, and stays as it is.        *)
LEMMA AliasStays ==
    ASSUME Pass, NothingEmpty(input), phase = "paull", i <= Len(prods), Skipped
    PROVE  Seeds(prods[i], prods[i].alts) = prods[i].alts /\ TailsOf(prods[i]) = <<>>
<1>1. /\ Declares(prods) /\ i \in DOMAIN prods /\ WellLed /\ CyclesKnown
      /\ Alternatives(prods[i].alts)
  BY InTurn, InDepth
<1>2. PICK p : p = prods[i]
  OBVIOUS
<1>3. Len(p.alts) = 1 /\ Len(p.alts[1]) = 1 /\ p.name \notin cyclic
  BY <1>2 DEF Skipped, ExemptAlias
<1>4. DOMAIN p.alts = 1..1 /\ IsSequence(p.alts)
  BY <1>1, <1>2, <1>3, Parts DEF Alternatives
<1>5. ~LedBy(p.alts[1], p.name)
  <2>1. SUFFICES ASSUME LedBy(p.alts[1], p.name) PROVE FALSE
    OBVIOUS
  <2>2. p.name \in Names
    BY <1>1, <1>2, Rules
  <2>3. p.name \in HeadsOf(p)
    BY <1>4, <2>1, <2>2 DEF HeadsOf, HasLeadingRefTo
  <2>4. CanReach(lead, p.name, p.name)
    BY <1>1, <1>2, <2>3 DEF WellLed
  <2> QED BY <1>1, <1>3, <2>2, <2>4 DEF CyclesKnown
<1>6. SeedsOf(p) = <<1>>
  <2> DEFINE S == { a \in DOMAIN p.alts : ~LedBy(p.alts[a], p.name) }
  <2>1. 1 \in S
    BY <1>4, <1>5
  <2>2. SeedsOf(p) = InOrder(S, 1)
    BY <1>3 DEF SeedsOf
  <2> HIDE DEF S
  <2> QED BY <2>1, <2>2, InOrderOne
<1>7. Seeds(p, p.alts) = p.alts
  <2>1. DOMAIN <<1>> = 1..1 /\ <<1>>[1] = 1
    OBVIOUS
  <2>2. Seeds(p, p.alts) = [s \in 1..1 |-> p.alts[s]]
    BY <1>6, <2>1 DEF Seeds
  <2>3. p.alts = [s \in 1..1 |-> p.alts[s]]
    <3>1. p.alts \in Seq({ p.alts[s] : s \in DOMAIN p.alts })
      BY <1>4 DEF IsSequence
    <3>2. p.alts = [s \in 1..Len(p.alts) |-> p.alts[s]]
      BY <3>1, LenProperties
    <3> QED BY <1>3, <3>2
  <2> QED BY <2>2, <2>3
<1>8. TailsOf(p) = <<>>
  <2> DEFINE S == { a \in DOMAIN p.alts : LedBy(p.alts[a], p.name) /\ Len(p.alts[a]) > 1 }
  <2>1. S = {}
    <3>1. \A a \in DOMAIN p.alts : a = 1
      BY <1>4
    <3>2. \A a \in DOMAIN p.alts : ~(Len(p.alts[a]) > 1)
      <4> SUFFICES ASSUME NEW a \in DOMAIN p.alts PROVE ~(Len(p.alts[a]) > 1)
        OBVIOUS
      <4>1. Len(p.alts[a]) = 1
        BY <1>3, <3>1
      <4> QED BY <4>1
    <3> QED BY <3>2
  <2>2. TailsOf(p) = InOrder(S, 1)
    BY <1>3 DEF TailsOf
  <2> HIDE DEF S
  <2>3. IsSequence(TailsOf(p)) /\ \A m \in DOMAIN TailsOf(p) : TailsOf(p)[m] \in S
    BY <2>2, InOrderHolds
  <2> QED BY <2>1, <2>3, Parts
<1> QED BY <1>2, <1>7, <1>8

(* A rule without recursion that makes progress ends its turn.             *)
LEMMA DropRecursionKeeps == Pass /\ DropRecursion => Pass'
<1> SUFFICES ASSUME Pass, DropRecursion PROVE Pass'
  OBVIOUS
<1> DEFINE new == Seeds(prods[i], prods[i].alts)
<1>1. Settled /\ Rewrite(i, new) /\ NextTarget
  BY DEF DropRecursion
<1>2. Alternatives(prods[i].alts) /\ (NothingEmpty(prods) => Filled(prods[i].alts))
  BY <1>1, InTurn DEF Settled
<1>3. /\ Alternatives(new) /\ (NothingEmpty(prods) => Filled(new))
      /\ \A n : HasLeadingRefTo(Prod(prods[i].name, new), n) =>
                   HasLeadingRefTo(prods[i], n) /\ n # prods[i].name
  BY <1>2, SeedsAre
<1>4. NothingEmpty(input) /\ Skipped => new = prods[i].alts
  BY <1>1, AliasStays DEF Settled
<1> HIDE DEF new
<1>5. Shape'
  BY <1>1, <1>3, TurnPasses
<1>6. NothingEmpty(input) => Depth'
  BY <1>1, <1>3, <1>4, TurnEnds
<1>7. input' = input
  BY <1>1 DEF NextTarget
<1> QED BY <1>5, <1>6, <1>7 DEF Pass

(* A rule rewritten as a loop ends its turn.                               *)
LEMMA MakeLoopKeeps == ASSUME NEW guard PROVE Pass /\ MakeLoop(guard) => Pass'
<1> SUFFICES ASSUME Pass, MakeLoop(guard) PROVE Pass'
  OBVIOUS
<1> DEFINE p == prods[i]
           new == << <<Wrapped(Seeds(p, p.alts)), Star(Wrapped(Tails(p, p.alts)), guard)>> >>
<1>1. Settled /\ Rewrite(i, new) /\ NextTarget /\ TailsOf(p) # <<>>
  BY DEF MakeLoop
<1>2. Alternatives(p.alts)
  BY <1>1, InTurn DEF Settled
<1>3. /\ Alternatives(new) /\ Filled(new)
      /\ \A n : HasLeadingRefTo(Prod(p.name, new), n) => HasLeadingRefTo(p, n) /\ n # p.name
  BY <1>2, LoopIs
<1>4. NothingEmpty(input) /\ Skipped => new = p.alts
  BY <1>1, AliasStays DEF Settled
<1> HIDE DEF new
<1>5. Shape'
  BY <1>1, <1>3, TurnPasses
<1>6. NothingEmpty(input) => Depth'
  BY <1>1, <1>3, <1>4, TurnEnds
<1>7. input' = input
  BY <1>1 DEF NextTarget
<1> QED BY <1>5, <1>6, <1>7 DEF Pass

-----------------------------------------------------------------------------
(* The end.  Each leading reference left leads down the graph the pass     *)
(* began with, or, within a cycle of it, to a later rule of the order.     *)
LEMMA NoneLeadsBack ==
    ASSUME Pass, NothingEmpty(input), phase = "paull", i > Len(prods),
           NEW g \in LeadGraphs, \A k \in DOMAIN prods : LeadSet(g, prods[k].name) = HeadsOf(prods[k]),
           NEW n \in Names
    PROVE  ~CanReach(g, n, n)
<1>1. /\ Declares(prods) /\ i \in 1..(Len(prods) + 1) /\ WellLed /\ CyclesKnown /\ Behind
  BY DEF Pass, Shape, Depth, Sound, InTurns, InPaull
<1>2. PICK size \in Nat : size = Len(prods) /\ DOMAIN prods = 1..size
  BY <1>1, Rules
<1>3. i = size + 1
  BY <1>1, <1>2
<1>4. PICK a \in 1..size : prods[a].name = n
  BY <1>1, <1>2, Rules
<1> DEFINE Later(m) == \E b \in 1..size : b > a /\ prods[b].name = m
           S == { m \in Names : CanReach(lead, n, m) /\ (CanReach(lead, m, n) => Later(m)) }
<1>5. \A b \in 1..size : prods[b].name \in Names
  BY <1>1, <1>2, Rules
<1>6. ASSUME NEW b \in 1..size, CanReach(lead, prods[b].name, prods[b].name),
             NEW m \in LeadSet(g, prods[b].name)
      PROVE  \E c \in 1..size : c > b /\ prods[c].name = m
  <2>1. m \in Names /\ HasLeadingRefTo(prods[b], m)
    BY <1>2 DEF HeadsOf
  <2>2. ~ExemptAlias(prods[b])
    BY <1>1, <1>5, <1>6 DEF CyclesKnown, ExemptAlias
  <2>3. b \in 1..(i - 1)
    BY <1>3
  <2>4. Clean(b)
    BY <1>1, <2>2, <2>3 DEF Behind
  <2>5. PICK c \in 1..size : prods[c].name = m
    BY <1>1, <1>2, <2>1, Rules
  <2>6. ~(c \in 1..b)
    BY <2>1, <2>4, <2>5 DEF Clean
  <2> QED BY <2>5, <2>6
<1>7. ASSUME NEW b \in 1..size, NEW m \in LeadSet(g, prods[b].name)
      PROVE  m \in Names /\ CanReach(lead, prods[b].name, m)
  BY <1>1, <1>2 DEF WellLed, HeadsOf
<1>8. ASSUME NEW m \in LeadSet(g, n) PROVE m \in S
  <2>1. m \in Names /\ CanReach(lead, n, m)
    BY <1>4, <1>7
  <2>2. ASSUME CanReach(lead, m, n) PROVE Later(m)
    <3>1. CanReach(lead, n, n)
      BY <2>1, <2>2, ReachTrans
    <3> QED BY <1>4, <1>6, <3>1
  <2> HIDE DEF Later
  <2> QED BY <2>1, <2>2
<1>9. ASSUME NEW m \in S, NEW l \in LeadSet(g, m) PROVE l \in S
  <2>1. m \in Names /\ CanReach(lead, n, m) /\ (CanReach(lead, m, n) => Later(m))
    OBVIOUS
  <2>2. PICK b \in 1..size : prods[b].name = m
    BY <1>1, <1>2, <2>1, Rules
  <2>3. l \in Names /\ CanReach(lead, m, l)
    BY <1>7, <2>2
  <2>4. CanReach(lead, n, l)
    BY <2>1, <2>3, ReachTrans
  <2>5. ASSUME CanReach(lead, l, n) PROVE Later(l)
    <3>1. CanReach(lead, m, n) /\ CanReach(lead, m, m)
      BY <2>1, <2>3, <2>5, ReachTrans
    <3>2. PICK c \in 1..size : c > b /\ prods[c].name = l
      BY <1>6, <2>2, <3>1
    <3>3. PICK d \in 1..size : d > a /\ prods[d].name = m
      BY <2>1, <3>1
    <3>4. d = b
      BY <1>1, <1>2, <2>2, <3>3, Rules
    <3> QED BY <3>2, <3>3, <3>4
  <2> HIDE DEF Later
  <2> QED BY <2>3, <2>4, <2>5
<1>10. n \notin S
  <2>1. \A b \in 1..size : prods[b].name = n => b = a
    BY <1>1, <1>2, <1>4, Rules
  <2>2. ~Later(n)
    BY <2>1
  <2> HIDE DEF Later
  <2> QED BY <2>2
<1>11. S \in SUBSET Names
  OBVIOUS
<1> HIDE DEF S
<1>12. LeadSet(g, n) \subseteq S /\ Closed(g, S)
  BY <1>8, <1>9 DEF Closed
<1> QED BY <1>10, <1>11, <1>12 DEF CanReach

(* The declared order is put back, and no rule leads back to itself.       *)
LEMMA RestoreKeeps == Pass /\ Restore => Pass'
<1> SUFFICES ASSUME Pass, Restore PROVE Pass'
  OBVIOUS
<1>1. /\ phase = "paull" /\ i > Len(prods) /\ phase' = "validate" /\ input' = input
      /\ prods' = [k \in DOMAIN input |-> Find(prods, input[k].name)]
      /\ UNCHANGED <<at, tries, i, j, rounds>>
  BY DEF Restore, splitVars, paullVars
<1>2. Declares(input) /\ Declares(prods) /\ (NothingEmpty(input) => NothingEmpty(prods)) /\ Clocked
  BY DEF Pass, Shape, Sound
<1>3. /\ Declares(prods') /\ (NothingEmpty(input) => NothingEmpty(prods'))
      /\ \A k \in DOMAIN prods : \E m \in DOMAIN prods' : prods'[m] = prods[k]
  <2>1. PICK size \in Nat \ {0} : DOMAIN input = 1..size
    BY <1>2, Rules
  <2>2. PICK names : names = [k \in 1..size |-> input[k].name]
    OBVIOUS
  <2>3. Arranged(prods, names, size, prods')
    BY <1>1, <2>1, <2>2 DEF Arranged
  <2>4. Lists(names, size)
    <3>1. \A k \in 1..size : names[k] = input[k].name
      BY <2>2
    <3> QED BY <1>2, <2>1, <3>1, Rules DEF Lists
  <2> QED BY <1>2, <2>3, <2>4, Reordered
<1> DEFINE g == LeadGraphOf(prods')
<1>4. g \in LeadGraphs /\ \A k \in DOMAIN prods' : LeadSet(g, prods'[k].name) = HeadsOf(prods'[k])
  BY <1>3, GraphIs
<1> HIDE DEF g
<1>5. \A k \in DOMAIN prods : LeadSet(g, prods[k].name) = HeadsOf(prods[k])
  BY <1>3, <1>4
<1>6. NothingEmpty(input) => \A n \in Names : ~CanReach(g, n, n)
  BY <1>1, <1>4, <1>5, NoneLeadsBack
<1>7. NothingEmpty(input) => \A n \in Names : ~CanReach(LeadGraphOf(prods'), n, n)
  BY <1>6 DEF g
<1>8. Clocked'
  BY <1>1, <1>2 DEF Clocked
<1> QED BY <1>1, <1>2, <1>3, <1>7, <1>8
        DEF Pass, Shape, Depth, Sound, InSplit, InSort, InScan, InTurns, InPaull, InEnd

(* Acceptance keeps it.                                                    *)
LEMMA FinishKeeps == Pass /\ Finish => Pass'
<1> SUFFICES ASSUME Pass, Finish PROVE Pass'
  OBVIOUS
<1>1. phase = "validate" /\ phase' = "done" /\ UNCHANGED <<input, prods, at, tries, i, j, rounds>>
  BY DEF Finish, splitVars, paullVars
<1>2. Clocked'
  BY <1>1 DEF Pass, Shape, Clocked
<1> QED BY <1>1, <1>2
        DEF Pass, Shape, Depth, Sound, InSplit, InSort, InScan, InTurns, InPaull, InEnd, Rewritten

-----------------------------------------------------------------------------
(* A step of what is kept beside the rules leaves it alone.                *)
LEMMA StutterKeeps == Pass /\ UNCHANGED rulesVars => Pass'
<1> SUFFICES ASSUME Pass, UNCHANGED rulesVars PROVE Pass'
  OBVIOUS
<1>1. /\ UNCHANGED <<input, phase, prods, at, tries, i, j, rounds, changed>>
      /\ UNCHANGED <<lead, todo, steps, colour, order>>
      /\ UNCHANGED <<roots, frames, stack, index, indices, lowlinks, cyclic>>
  BY DEF rulesVars, splitVars, paullVars, walkVars, orderVars, cycleVars
<1>2. SortInv => SortInv'
  BY <1>1, Inductive DEF sortVars
<1>3. ScanInv => ScanInv'
  BY <1>1, ScanInductive DEF scanVars
<1>4. (Fresh => Fresh') /\ (SortIdle => SortIdle') /\ (ScanIdle => ScanIdle') /\ (Mirrors => Mirrors')
  BY <1>1 DEF Fresh, SortIdle, ScanIdle, Mirrors
<1>5. InSplit' /\ InSort' /\ InScan'
  BY <1>1, <1>2, <1>3, <1>4 DEF Pass, Shape, InSplit, InSort, InScan
<1>6. InPaull => InPaull'
  BY <1>1 DEF InPaull, WellLed, CyclesKnown, Behind, Clean, ExemptAlias, Current, Skipped, Counted,
              Due, Spent, Upstream
<1>7. Declares(input)' /\ Sound' /\ Clocked' /\ InTurns' /\ (InEnd => InEnd') /\ input' = input
  BY <1>1 DEF Pass, Shape, Sound, Clocked, InTurns, InEnd, Rewritten
<1> QED BY <1>5, <1>6, <1>7 DEF Pass, Shape, Depth

(* The invariant holds as long as the pass goes on.                        *)
LEMMA PassStarts == EliminationInit => PassInv
<1> SUFFICES ASSUME EliminationInit PROVE Pass
  BY DEF PassInv
<1>1. PICK given \in Inputs : Begins(given.grammar)
  BY DEF EliminationInit
<1>2. Declares(given.grammar)
  BY <1>1, GrammarsAssumption
<1> QED BY <1>1, <1>2, BeginKeeps

(* Every step keeps the invariant.                                         *)
LEMMA PassKeeps == PassInv /\ [EliminationNext]_rulesVars => PassInv'
<1> SUFFICES ASSUME PassInv, [EliminationNext]_rulesVars, phase' # "refused"
             PROVE  Pass'
  BY DEF PassInv
<1>1. CASE UNCHANGED rulesVars
  <2>1. Pass
    BY <1>1 DEF PassInv, rulesVars
  <2> QED BY <1>1, <2>1, StutterKeeps
<1>2. CASE EliminationNext
  <2>1. phase # "refused" \/ GiveUp
    BY <1>2
       DEF EliminationNext, WriteOut, Splitting, SplitNextRule, BeginOrder, OrderStep, BeginCycles,
           CycleStep, BeginPaull, Inline, InlineToken, NextRound, RoundAgain, Substituting,
           DropRecursion, MakeLoop, Settled, NextTarget, Restore, Finish
  <2>2. ~GiveUp
    BY DEF GiveUp
  <2>3. Pass
    BY <2>1, <2>2 DEF PassInv
  <2> QED BY <1>2, <2>2, <2>3, WriteOutKeeps, SplitNextRuleKeeps, BeginOrderKeeps, OrderStepKeeps,
             BeginCyclesKeeps, CycleStepKeeps, BeginPaullKeeps, InlineKeeps, InlineTokenKeeps,
             NextRoundKeeps, DropRecursionKeeps, MakeLoopKeeps, RestoreKeeps, FinishKeeps
          DEF EliminationNext
<1> QED BY <1>1, <1>2

(* The invariant of eliminate_left_recursion_keeping, as long as it goes   *)
(* on.                                                                     *)
THEOREM PassInvariant == EliminationSpec => []PassInv
  BY PassStarts, PassKeeps, PTL DEF EliminationSpec

(* A rule whose turn is over begins with no earlier rule and not with      *)
(* itself, unless it is an exempt alias: eliminate_left_recursion_keeping  *)
(* gives it rounds enough, whatever aliases bring back, as long as no      *)
(* alternative of the grammar is empty.                                    *)
THEOREM BehindIsClean == EliminationSpec => []PaullInvariant
<1>1. PassInv => PaullInvariant
  <2> SUFFICES ASSUME PassInv, NothingEmpty(input), phase = "paull", NEW k \in 1..(i - 1)
               PROVE  \/ ExemptAlias(prods[k])
                      \/ \A m \in 1..k : ~HasLeadingRefTo(prods[k], prods[m].name)
    BY DEF PaullInvariant
  <2>1. Behind
    BY DEF PassInv, Pass, Depth, InPaull
  <2> QED BY <2>1 DEF Behind, Clean
<1> QED BY <1>1, PassInvariant, PTL

(* No rule of the rewritten grammar begins with itself through leading     *)
(* references alone: what eliminate_left_recursion_keeping promises the    *)
(* passes behind it.                                                       *)
THEOREM NoLeadingCycle == EliminationSpec => []LeadAcyclic
<1>1. PassInv => LeadAcyclic
  BY DEF PassInv, Pass, Depth, InEnd, LeadAcyclic, Rewritten
<1> QED BY <1>1, PassInvariant, PTL

-----------------------------------------------------------------------------
(* Which position is before which.                                         *)
LEMMA Ahead ==
    ASSUME NEW a, NEW b, NEW c, NEW d, NEW p, NEW q, NEW r, NEW s,
           \/ a < p
           \/ a = p /\ b < q
           \/ a = p /\ b = q /\ c < r
           \/ a = p /\ b = q /\ c = r /\ d < s
    PROVE  Before(<<a, b, c, d>>, <<p, q, r, s>>)
<1> DEFINE x == <<a, b, c, d>>
           y == <<p, q, r, s>>
<1>1. x[1] = a /\ x[2] = b /\ x[3] = c /\ x[4] = d /\ y[1] = p /\ y[2] = q /\ y[3] = r /\ y[4] = s
  OBVIOUS
<1> HIDE DEF x, y
<1>2. SUFFICES Before(x, y)
  BY DEF x, y
<1>3. \A m \in 1..(1 - 1) : FALSE
  OBVIOUS
<1>4. \A m \in 1..(2 - 1) : m = 1
  OBVIOUS
<1>5. \A m \in 1..(3 - 1) : m = 1 \/ m = 2
  OBVIOUS
<1>6. \A m \in 1..(4 - 1) : m = 1 \/ m = 2 \/ m = 3
  OBVIOUS
<1>7. CASE a < p
  BY <1>1, <1>3, <1>7 DEF Before
<1>8. CASE a = p /\ b < q
  BY <1>1, <1>4, <1>8 DEF Before
<1>9. CASE a = p /\ b = q /\ c < r
  BY <1>1, <1>5, <1>9 DEF Before
<1>10. CASE a = p /\ b = q /\ c = r /\ d < s
  BY <1>1, <1>6, <1>10 DEF Before
<1> QED BY <1>7, <1>8, <1>9, <1>10

(* The rank of each phase.                                                 *)
LEMMA Ranks ==
    /\ phase = "split"    => PhaseRank = 1
    /\ phase = "order"    => PhaseRank = 2
    /\ phase = "cycles"   => PhaseRank = 3
    /\ phase = "paull"    => PhaseRank = 4
    /\ phase = "validate" => PhaseRank = 5
    /\ phase = "done"     => PhaseRank = 6
    /\ phase = "refused"  => PhaseRank = 6
  BY DEF PhaseRank

(* The same of the state a step leads to.                                  *)
LEMMA RanksAfter ==
    /\ phase' = "order"    => PhaseRank' = 2
    /\ phase' = "cycles"   => PhaseRank' = 3
    /\ phase' = "paull"    => PhaseRank' = 4
    /\ phase' = "validate" => PhaseRank' = 5
    /\ phase' = "done"     => PhaseRank' = 6
    /\ phase' = "refused"  => PhaseRank' = 6
  BY DEF PhaseRank

Further == (phase' \in {"order", "cycles"} /\ phase' = phase) \/ Before(Position, Position')

(* Every step of the pass gets further.                                    *)
LEMMA StepsFurther == PassInv /\ EliminationNext => Further
<1> SUFFICES ASSUME PassInv, EliminationNext PROVE Further
  OBVIOUS
<1>1. SUFFICES \/ phase' \in {"order", "cycles"} /\ phase' = phase
               \/ PhaseRank < PhaseRank'
               \/ PhaseRank = PhaseRank' /\ at + i < at' + i'
               \/ /\ PhaseRank = PhaseRank' /\ at + i = at' + i'
                  /\ -(tries + rounds) < -(tries' + rounds')
               \/ /\ PhaseRank = PhaseRank' /\ at + i = at' + i'
                  /\ -(tries + rounds) = -(tries' + rounds') /\ j < j'
  <2>1. Position = <<PhaseRank, at + i, -(tries + rounds), j>>
    BY DEF Position
  <2>2. Position' = <<PhaseRank', at' + i', -(tries' + rounds'), j'>>
    BY DEF Position
  <2> QED BY <2>1, <2>2, Ahead DEF Further
<1>2. ASSUME phase # "refused"
      PROVE  Pass /\ Clocked /\ phase \in {"split", "order", "cycles", "paull", "validate", "done"}
  BY <1>2 DEF PassInv, Pass, Shape, Clocked
<1>3. ASSUME phase' = phase PROVE PhaseRank' = PhaseRank
  BY <1>3 DEF PhaseRank
<1>4. CASE WriteOut
  <2>1. /\ phase = "split" /\ tries > 0 /\ tries' = tries - 1
        /\ UNCHANGED <<phase, at, i, rounds>>
    BY <1>4 DEF WriteOut, Splitting, paullVars
  <2> QED BY <1>2, <1>3, <2>1 DEF Clocked
<1>5. CASE SplitNextRule
  <2>1. phase = "split" /\ at' = at + 1 /\ UNCHANGED <<phase, i>>
    BY <1>5 DEF SplitNextRule, paullVars
  <2> QED BY <1>2, <1>3, <2>1 DEF Clocked
<1>6. CASE BeginOrder
  BY <1>6, Ranks, RanksAfter DEF BeginOrder
<1>7. CASE OrderStep
  BY <1>7 DEF OrderStep
<1>8. CASE BeginCycles
  BY <1>8, Ranks, RanksAfter DEF BeginCycles
<1>9. CASE CycleStep
  BY <1>9 DEF CycleStep
<1>10. CASE BeginPaull
  BY <1>10, Ranks, RanksAfter DEF BeginPaull
<1>11. CASE Inline
  <2>1. phase = "paull" /\ UNCHANGED <<phase, at, tries, i, rounds>>
    BY <1>11 DEF Inline, Substituting, splitVars
  <2>2. j' > j
    BY <1>2, <1>11, <2>1, InlineKeeps
  <2> QED BY <1>3, <2>1, <2>2
<1>12. CASE InlineToken
  <2>1. phase = "paull" /\ UNCHANGED <<phase, at, tries, i, rounds>>
    BY <1>12 DEF InlineToken, Substituting, splitVars
  <2>2. j' > j
    BY <1>2, <1>12, <2>1, InlineTokenKeeps
  <2> QED BY <1>3, <2>1, <2>2
<1>13. CASE NextRound
  <2>1. phase = "paull" /\ rounds' = rounds - 1 /\ UNCHANGED <<phase, at, tries, i>>
    BY <1>13 DEF NextRound, RoundAgain, Substituting, splitVars
  <2> QED BY <1>2, <1>3, <2>1 DEF Clocked
<1>14. ASSUME Settled, NextTarget PROVE PhaseRank = PhaseRank' /\ at + i < at' + i'
  <2>1. phase = "paull" /\ i' = i + 1 /\ UNCHANGED <<phase, at>>
    BY <1>14 DEF Settled, NextTarget, splitVars
  <2> QED BY <1>2, <1>3, <2>1 DEF Clocked
<1>15. CASE DropRecursion
  BY <1>14, <1>15 DEF DropRecursion
<1>16. CASE \E guard : MakeLoop(guard)
  BY <1>14, <1>16 DEF MakeLoop
<1>17. CASE Restore
  BY <1>17, Ranks, RanksAfter DEF Restore
<1>18. CASE Finish
  BY <1>18, Ranks, RanksAfter DEF Finish
<1>19. CASE GiveUp
  <2>1. phase \notin {"done", "refused"} /\ phase' = "refused"
    BY <1>19 DEF GiveUp
  <2> QED BY <1>2, <2>1, Ranks, RanksAfter
<1> QED BY <1>4, <1>5, <1>6, <1>7, <1>8, <1>9, <1>10, <1>11, <1>12, <1>13,
          <1>15, <1>16, <1>17, <1>18, <1>19
        DEF EliminationNext

(* Every step of eliminate_left_recursion_keeping gets further, whatever   *)
(* the grammar: no substitution feeds itself for ever.                     *)
THEOREM GetsFurther == EliminationSpec => Progress
<1>1. PassInv /\ [EliminationNext]_rulesVars
         => [\/ phase' \in {"order", "cycles"} /\ phase' = phase
             \/ Before(Position, Position')]_rulesVars
  BY StepsFurther DEF Further
<1> QED BY <1>1, PassInvariant, PTL DEF EliminationSpec, Progress
=============================================================================
