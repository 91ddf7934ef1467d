--------------------------- MODULE Actions_proofs ---------------------------
(***************************************************************************)
(* Proofs about Actions: over any calls, failed ones included, every       *)
(* alternate and every hook runs its own action and then what was asked of *)
(* it, in order, for every set of rules, marks and functions.              *)
(***************************************************************************)
EXTENDS Actions, Induction, FiniteSetTheorems, SequenceTheorems

-----------------------------------------------------------------------------
(* Sequences put together.                                                 *)
FlatTo(f, s, T) ==
    /\ f[1] = s[1]
    /\ \A i \in 2..Len(s) : f[i] = f[i - 1] \o s[i]
    /\ \A i \in 1..Len(s) : f[i] \in Seq(T)

LEMMA FlatUnfolds ==
    ASSUME NEW T, NEW s \in Seq(Seq(T)), s # <<>>
    PROVE  \E f : FlatTo(f, s, T) /\ FlattenSeq(s) = f[Len(s)]
<1> DEFINE S == Seq(T)
<1>1. PICK size \in Nat : size = Len(s)
  OBVIOUS
<1>2. size # 0 /\ size - 1 \in Nat /\ \A i \in 1..size : s[i] \in S
  BY <1>1
<1> DEFINE step == [k \in 1..(size - 1) |-> [x \in S |-> x \o s[k + 1]]]
<1>3. \A k \in 1..(size - 1), x \in S : step[k][x] = x \o s[k + 1] /\ step[k][x] \in S
  <2> SUFFICES ASSUME NEW k \in 1..(size - 1), NEW x \in S PROVE step[k][x] = x \o s[k + 1] /\ step[k][x] \in S
    OBVIOUS
  <2>1. k + 1 \in 1..size
    BY <1>2
  <2>2. s[k + 1] \in Seq(T)
    BY <1>2, <2>1
  <2>3. x \o s[k + 1] \in Seq(T)
    BY <2>2
  <2> QED BY <2>3
<1>4. s[1] \in S
  BY <1>2
<1> HIDE DEF step, S
<1>5. Steps(step, S, size - 1)
  BY <1>3 DEF Steps
<1>6. PICK g : Follows(g, step, S, s[1], size - 1)
  BY <1>2, <1>4, <1>5, Recursion
<1> DEFINE Defines(h) == h = [i \in 1..size |-> IF i = 1 THEN s[i] ELSE h[i - 1] \o s[i]]
           f == [i \in 1..size |-> g[i - 1]]
           flat == CHOOSE h : Defines(h)
<1>7. \A i \in 1..size : f[i] \in S /\ (IF i = 1 THEN f[i] = s[1] ELSE f[i] = f[i - 1] \o s[i])
  <2>1. ASSUME NEW k \in 1..(size - 1) PROVE g[k - 1] \in S /\ g[k] \in S /\ g[k] = g[k - 1] \o s[k + 1]
    <3>1. g[k - 1] \in S /\ g[k] = step[k][g[k - 1]]
      BY <1>6 DEF Follows
    <3> QED BY <3>1, <1>3
  <2>2. g[0] = s[1]
    BY <1>6 DEF Follows
  <2> SUFFICES ASSUME NEW i \in 1..size PROVE f[i] \in S /\ (IF i = 1 THEN f[i] = s[1] ELSE f[i] = f[i - 1] \o s[i])
    OBVIOUS
  <2>3. CASE i = 1
    <3>1. i - 1 = 0 /\ f[i] = g[i - 1]
      BY <2>3
    <3> QED BY <3>1, <2>2, <2>3, <1>4
  <2>4. CASE i # 1
    <3>1. i - 1 \in 1..(size - 1) /\ i - 1 \in 1..size /\ (i - 1) + 1 = i
      BY <2>4, <1>2
    <3>2. PICK k \in 1..(size - 1) : k = i - 1
      BY <3>1
    <3>3. f[i] = g[k] /\ f[i - 1] = g[k - 1] /\ s[k + 1] = s[i]
      BY <3>1, <3>2
    <3> QED BY <3>3, <2>1, <2>4
  <2> QED BY <2>3, <2>4
<1>8. Defines(f)
  <2>1. ASSUME NEW i \in 1..size PROVE f[i] = IF i = 1 THEN s[i] ELSE f[i - 1] \o s[i]
    BY <1>7
  <2>2. f = [i \in 1..size |-> f[i]]
    OBVIOUS
  <2> HIDE DEF f
  <2> QED BY <2>1, <2>2, Zenon
<1>9. Defines(flat)
  <2> HIDE DEF Defines, f
  <2> QED BY <1>8
<1>10. FlattenSeq(s) = flat[Len(s)]
  BY <1>1, <1>2 DEF FlattenSeq
<1> HIDE DEF flat, f
<1>11. ASSUME NEW i \in 1..size PROVE flat[i] = IF i = 1 THEN s[i] ELSE flat[i - 1] \o s[i]
  BY <1>9, Zenon
<1> DEFINE H == { k \in 0..(size - 1) : flat[k + 1] \in S }
<1>12. 0 \in H
  <2>1. 1 \in 1..size /\ 0 + 1 = 1 /\ 0 \in 0..(size - 1)
    BY <1>2
  <2>2. flat[1] = s[1]
    BY <2>1, <1>11
  <2> QED BY <2>1, <2>2, <1>4
<1>13. ASSUME NEW k \in 1..(size - 1), k - 1 \in H PROVE k \in H
  <2>1. k + 1 \in 1..size /\ k + 1 # 1 /\ (k + 1) - 1 = k /\ (k - 1) + 1 = k /\ k \in 0..(size - 1)
    BY <1>2
  <2>2. flat[k + 1] = flat[k] \o s[k + 1]
    BY <2>1, <1>11
  <2>3. flat[k] \in Seq(T) /\ s[k + 1] \in Seq(T)
    BY <1>13, <1>2, <2>1 DEF S
  <2>4. flat[k] \o s[k + 1] \in S
    BY <2>3 DEF S
  <2> QED BY <2>1, <2>2, <2>4
<1>14. \A k \in 0..(size - 1) : k \in H
  <2> HIDE DEF H
  <2> QED BY <1>2, <1>12, <1>13, Induct
<1>15. ASSUME NEW i \in 1..size PROVE flat[i] \in Seq(T)
  <2>1. i - 1 \in 0..(size - 1) /\ (i - 1) + 1 = i
    OBVIOUS
  <2>2. i - 1 \in H
    BY <1>14, <2>1
  <2> QED BY <2>1, <2>2 DEF S
<1>16. flat[1] = s[1] /\ \A i \in 2..size : flat[i] = flat[i - 1] \o s[i]
  <2>1. 1 \in 1..size /\ \A i \in 2..size : i \in 1..size /\ i # 1
    BY <1>2
  <2> QED BY <2>1, <1>11
<1> QED BY <1>1, <1>10, <1>15, <1>16 DEF FlatTo

(* What is put together of one sequence more.                              *)
LEMMA FlatAppend ==
    ASSUME NEW T, NEW s \in Seq(Seq(T)), NEW x \in Seq(T)
    PROVE  /\ FlattenSeq(<<>>) = <<>>
           /\ FlattenSeq(s) \in Seq(T)
           /\ FlattenSeq(Append(s, x)) = FlattenSeq(s) \o x
<1>1. PICK size \in Nat : size = Len(s)
  OBVIOUS
<1>2. FlattenSeq(<<>>) = <<>>
  BY DEF FlattenSeq
<1> DEFINE t == Append(s, x)
<1>3. /\ t \in Seq(Seq(T)) /\ t # <<>> /\ Len(t) = size + 1 /\ t[size + 1] = x
      /\ \A i \in 1..size : t[i] = s[i]
  BY <1>1
<1> HIDE DEF t
<1>4. PICK g : FlatTo(g, t, T) /\ FlattenSeq(t) = g[size + 1]
  BY <1>3, FlatUnfolds
<1>5. CASE s = <<>>
  <2>1. size = 0
    BY <1>1, <1>5
  <2>2. FlattenSeq(t) = x
    BY <1>3, <1>4, <2>1 DEF FlatTo
  <2>3. FlattenSeq(s) = <<>> /\ <<>> \in Seq(T) /\ <<>> \o x = x
    BY <1>2, <1>5
  <2>4. FlattenSeq(Append(s, x)) = FlattenSeq(s) \o x
    BY <2>2, <2>3 DEF t
  <2> QED BY <1>2, <2>3, <2>4
<1>6. CASE s # <<>>
  <2>1. size # 0
    BY <1>1, <1>6
  <2>2. PICK f : FlatTo(f, s, T) /\ FlattenSeq(s) = f[size]
    BY <1>1, <1>6, FlatUnfolds
  <2> DEFINE H == { k \in 0..(size - 1) : f[k + 1] = g[k + 1] }
  <2>3. 0 \in H
    <3>1. f[1] = g[1]
      BY <1>3, <1>4, <2>1, <2>2 DEF FlatTo
    <3> QED BY <3>1, <2>1
  <2>4. ASSUME NEW k \in 1..(size - 1), k - 1 \in H PROVE k \in H
    <3>0. k + 1 \in 2..size /\ (k + 1) - 1 = k /\ (k - 1) + 1 = k /\ k \in 0..(size - 1) /\ k \in 1..size
      BY <2>1
    <3>1. PICK i \in 2..size : i = k + 1 /\ i - 1 = k
      BY <3>0
    <3>2. f[i] = f[k] \o s[i] /\ g[i] = g[k] \o t[i]
      <4>1. i \in 2..Len(s) /\ i \in 2..Len(t)
        BY <1>1, <1>3
      <4>2. f[i] = f[i - 1] \o s[i] /\ g[i] = g[i - 1] \o t[i]
        BY <4>1, <1>4, <2>2 DEF FlatTo
      <4> QED BY <4>2, <3>1
    <3>3. f[k] = g[k] /\ s[i] = t[i]
      <4>1. f[(k - 1) + 1] = g[(k - 1) + 1]
        BY <2>4
      <4>2. i \in 1..size
        BY <3>0, <3>1
      <4>3. (k - 1) + 1 = k
        OBVIOUS
      <4> QED BY <4>1, <4>2, <4>3, <1>3
    <3>4. f[k + 1] = g[k + 1]
      BY <3>1, <3>2, <3>3
    <3> QED BY <3>0, <3>4
  <2>5. \A k \in 0..(size - 1) : k \in H
    <3>1. size - 1 \in Nat
      BY <2>1
    <3> HIDE DEF H
    <3> QED BY <2>3, <2>4, <3>1, Induct
  <2>6. f[size] = g[size]
    <3>1. size - 1 \in 0..(size - 1) /\ (size - 1) + 1 = size
      BY <2>1
    <3>2. size - 1 \in H
      BY <2>5, <3>1
    <3> QED BY <3>1, <3>2
  <2>7. g[size + 1] = g[size] \o x
    <3>1. size + 1 \in 2..Len(t) /\ (size + 1) - 1 = size
      BY <1>3, <2>1
    <3>2. g[size + 1] = g[(size + 1) - 1] \o t[size + 1]
      BY <1>4, <3>1 DEF FlatTo
    <3> QED BY <1>3, <3>1, <3>2
  <2>8. f[size] \in Seq(T)
    BY <1>1, <2>1, <2>2 DEF FlatTo
  <2> QED BY <1>2, <1>4, <2>2, <2>6, <2>7, <2>8 DEF t
<1> QED BY <1>5, <1>6

-----------------------------------------------------------------------------
(* The place of a number among those of a set: each has its own, and none  *)
(* is left out.                                                            *)
Below(M, b) == Cardinality({ j \in M : j < b })

LEMMA BelowFacts ==
    ASSUME NEW size \in Nat, NEW M \in SUBSET (1..size)
    PROVE  /\ IsFiniteSet(M) /\ Cardinality(M) \in Nat
           /\ \A b \in Nat : Below(M, b) \in Nat
           /\ Below(M, 0) = 0 /\ Below(M, size + 1) = Cardinality(M)
           /\ \A b \in Nat : Below(M, b + 1) = IF b \in M THEN Below(M, b) + 1 ELSE Below(M, b)
           /\ \A b \in Nat, c \in Nat : b <= c => Below(M, b) <= Below(M, c)
<1> DEFINE Under(b) == { j \in M : j < b }
<1>0. \A j \in M : j \in Nat /\ 0 < j /\ j < size + 1
  <2> SUFFICES ASSUME NEW j \in M PROVE j \in Nat /\ 0 < j /\ j < size + 1
    OBVIOUS
  <2>1. j \in 1..size
    OBVIOUS
  <2> QED BY <2>1
<1>1. IsFiniteSet(M) /\ Cardinality(M) \in Nat
  <2>1. IsFiniteSet(1..size)
    BY FS_Interval
  <2>2. IsFiniteSet(M)
    BY <2>1, FS_Subset
  <2> QED BY <2>2, FS_CardinalityType
<1>2. ASSUME NEW b \in Nat PROVE IsFiniteSet(Under(b)) /\ Below(M, b) = Cardinality(Under(b)) /\ Below(M, b) \in Nat
  <2>1. Under(b) \in SUBSET M
    OBVIOUS
  <2>2. IsFiniteSet(Under(b))
    <3> HIDE DEF Under
    <3> QED BY <1>1, <2>1, FS_Subset
  <2>3. Cardinality(Under(b)) \in Nat
    <3> HIDE DEF Under
    <3> QED BY <2>2, FS_CardinalityType
  <2> QED BY <2>2, <2>3 DEF Below
<1>3. Below(M, 0) = 0
  <2>1. Under(0) = {}
    <3>1. \A j \in M : ~(j < 0)
      BY <1>0
    <3> QED BY <3>1
  <2> QED BY <1>2, <2>1, FS_EmptySet
<1>4. Below(M, size + 1) = Cardinality(M)
  <2>1. Under(size + 1) = M
    BY <1>0
  <2> QED BY <1>2, <2>1
<1>5. ASSUME NEW b \in Nat PROVE Below(M, b + 1) = IF b \in M THEN Below(M, b) + 1 ELSE Below(M, b)
  <2>1. b + 1 \in Nat
    OBVIOUS
  <2>2. CASE b \in M
    <3>1. Under(b + 1) = Under(b) \cup {b} /\ b \notin Under(b)
      <4>1. \A j \in M : j < b + 1 <=> j < b \/ j = b
        BY <1>0
      <4>2. ~(b < b) /\ b < b + 1
        OBVIOUS
      <4> QED BY <2>2, <4>1, <4>2
    <3>2. Cardinality(Under(b) \cup {b}) = Cardinality(Under(b)) + 1
      <4> HIDE DEF Under
      <4> QED BY <1>2, <3>1, FS_AddElement
    <3>3. Below(M, b + 1) = Cardinality(Under(b + 1)) /\ Below(M, b) = Cardinality(Under(b))
      BY <1>2, <2>1
    <3> HIDE DEF Under
    <3> QED BY <2>2, <3>1, <3>2, <3>3
  <2>3. CASE b \notin M
    <3>1. Under(b + 1) = Under(b)
      <4>1. \A j \in M : j < b + 1 <=> j < b \/ j = b
        BY <1>0
      <4> QED BY <2>3, <4>1
    <3>2. Below(M, b + 1) = Cardinality(Under(b + 1)) /\ Below(M, b) = Cardinality(Under(b))
      BY <1>2, <2>1
    <3> HIDE DEF Under
    <3> QED BY <2>3, <3>1, <3>2
  <2> QED BY <2>2, <2>3
<1>6. ASSUME NEW b \in Nat, NEW c \in Nat, b <= c PROVE Below(M, b) <= Below(M, c)
  <2>1. Under(b) \in SUBSET Under(c)
    <3>1. \A j \in M : j < b => j < c
      BY <1>0, <1>6
    <3> QED BY <3>1
  <2>2. Cardinality(Under(b)) <= Cardinality(Under(c))
    <3>1. IsFiniteSet(Under(c))
      BY <1>2
    <3> HIDE DEF Under
    <3> QED BY <2>1, <3>1, FS_Subset
  <2>3. Below(M, b) = Cardinality(Under(b)) /\ Below(M, c) = Cardinality(Under(c))
    BY <1>2
  <2> HIDE DEF Under
  <2> QED BY <2>2, <2>3
<1>7. \A b \in Nat : Below(M, b) \in Nat
  BY <1>2
<1> QED BY <1>1, <1>3, <1>4, <1>5, <1>6, <1>7

LEMMA Places ==
    ASSUME NEW size \in Nat, NEW M \in SUBSET (1..size)
    PROVE  /\ \A i \in M : Below(M, i) \in 0..(Cardinality(M) - 1)
           /\ \A i \in M, j \in M : Below(M, i) = Below(M, j) => i = j
           /\ \A k \in 0..(Cardinality(M) - 1) : \E i \in M : Below(M, i) = k
<1>1. /\ Cardinality(M) \in Nat
      /\ \A b \in Nat : Below(M, b) \in Nat
      /\ Below(M, 0) = 0 /\ Below(M, size + 1) = Cardinality(M)
      /\ \A b \in Nat : Below(M, b + 1) = IF b \in M THEN Below(M, b) + 1 ELSE Below(M, b)
      /\ \A b \in Nat, c \in Nat : b <= c => Below(M, b) <= Below(M, c)
  BY BelowFacts
<1>2. ASSUME NEW i \in M PROVE Below(M, i) \in 0..(Cardinality(M) - 1)
  <2>1. i \in Nat /\ i + 1 \in Nat /\ size + 1 \in Nat /\ i + 1 <= size + 1
    OBVIOUS
  <2>2. Below(M, i + 1) = Below(M, i) + 1 /\ Below(M, i) \in Nat
    BY <1>1, <2>1
  <2>3. Below(M, i + 1) <= Below(M, size + 1)
    BY <1>1, <2>1
  <2> QED BY <1>1, <2>2, <2>3
<1>3. ASSUME NEW i \in M, NEW j \in M, i < j PROVE Below(M, i) # Below(M, j)
  <2>1. i \in Nat /\ j \in Nat /\ i + 1 \in Nat /\ i + 1 <= j
    BY <1>3
  <2>2. Below(M, i + 1) = Below(M, i) + 1 /\ Below(M, i) \in Nat /\ Below(M, j) \in Nat
    BY <1>1, <2>1
  <2>3. Below(M, i + 1) <= Below(M, j)
    BY <1>1, <2>1
  <2> QED BY <2>2, <2>3
<1>4. ASSUME NEW i \in M, NEW j \in M, Below(M, i) = Below(M, j) PROVE i = j
  <2>1. i \in Nat /\ j \in Nat
    OBVIOUS
  <2>2. ~(i < j) /\ ~(j < i)
    BY <1>3, <1>4
  <2> QED BY <2>1, <2>2
<1>5. ASSUME NEW k \in 0..(Cardinality(M) - 1) PROVE \E i \in M : Below(M, i) = k
  <2> DEFINE B == { b \in Nat : k < Below(M, b) }
  <2>1. size + 1 \in B
    BY <1>1
  <2>2. PICK b \in B : \A c \in B : b <= c
    <3>1. B \subseteq Nat /\ B # {}
      BY <2>1
    <3> HIDE DEF B
    <3> QED BY <3>1, Least
  <2>3. b \in Nat /\ k < Below(M, b) /\ b # 0
    BY <1>1, <2>2
  <2>4. PICK i \in Nat : b = i + 1
    <3>1. b - 1 \in Nat /\ b = (b - 1) + 1
      BY <2>3
    <3> QED BY <3>1
  <2>5. ~(k < Below(M, i))
    BY <2>2, <2>4
  <2>6. Below(M, i) \in Nat /\ Below(M, b) = IF i \in M THEN Below(M, i) + 1 ELSE Below(M, i)
    BY <1>1, <2>4
  <2>7. i \in M /\ Below(M, i) = k
    BY <2>3, <2>5, <2>6
  <2> QED BY <2>7
<1> QED BY <1>2, <1>4, <1>5

-----------------------------------------------------------------------------
(* The invariant.                                                          *)
Users    == { UserRef(k) : k \in Nat }
Slots    == { SlotName(key) : key \in AltKeys }
HookRefs == { HookRef(r, ph) : r \in Rules, ph \in PHASES }
AltNames == {OwnRef, Builtin} \cup Users \cup Slots
Things   == AltNames \cup Functions
Alts     == [m : Marks \cup {NoMark}, a : Seq(AltNames)]
Keys     == Hooks \cup AltKeys

TypeInv == /\ rule \in [Rules -> [Sides -> Seq(Alts)]]
           /\ refs \in [DOMAIN refs -> Seq(Things)]
           /\ IsFiniteSet(DOMAIN refs) /\ OwnRef \in DOMAIN refs
           /\ DOMAIN refs \subseteq {OwnRef} \cup Users \cup HookRefs
           /\ counter \in Nat
           /\ attached \in Seq([key : Keys, runs : Seq(Things)])

\* User refs are numbered without a gap, and a call goes on from there.
Numbered(rf, upto) == \A k \in Nat : UserRef(k) \in DOMAIN rf <=> k < upto
NumberedInv == \E upto \in Nat : Numbered(refs, upto) /\ (call = "actions" => counter = upto)

\* No alternate holds a user ref that is yet to be handed out.
Known(alt, rf) == \A k \in DOMAIN alt.a : alt.a[k] \in Users => alt.a[k] \in DOMAIN rf
KnownInv == \A r \in Rules, s \in Sides : \A i \in DOMAIN rule[r][s] : Known(rule[r][s][i], refs)

\* What a name and a list of them run by a ref map, and what accepted keys
\* ask of a target.
RunOf(rf, x) == IF x \in DOMAIN rf THEN rf[x] ELSE <<x>>
Ran(rf, names) == FlattenSeq([k \in DOMAIN names |-> RunOf(rf, names[k])])
Asked(att, key) == FlattenSeq([k \in DOMAIN att |-> IF att[k].key = key THEN att[k].runs ELSE <<>>])

AltRuns(alt, rf, att, r, s) == Ran(rf, alt.a) = Ran(rf, OwnOf(alt)) \o Asked(att, [rule |-> r, side |-> s, mark |-> alt.m])
HookRuns(rf, att, r, ph) ==
    (IF HookRef(r, ph) \in DOMAIN rf THEN rf[HookRef(r, ph)] ELSE <<>>) = Asked(att, [rule |-> r, sel |-> ph])
AltsInv  == \A r \in Rules, s \in Sides : \A i \in DOMAIN rule[r][s] : AltRuns(rule[r][s][i], refs, attached, r, s)
HooksInv == \A r \in Rules, ph \in PHASES : HookRuns(refs, attached, r, ph)

ActionsInv == TypeInv /\ NumberedInv /\ KnownInv /\ AltsInv /\ HooksInv

LEMMA SaysInOrder == AltsInv /\ HooksInv => RunsInOrder
BY DEF AltsInv, HooksInv, RunsInOrder, AltRuns, HookRuns, Ran, RunOf, Asked, Runs, AskedOf

-----------------------------------------------------------------------------
(* Names of different kinds are different.                                 *)
LEMMA NamesApart ==
    /\ \A k \in Nat : UserRef(k) \notin {OwnRef, Builtin} \cup Slots \cup HookRefs
    /\ \A j \in Nat, k \in Nat : UserRef(j) = UserRef(k) => j = k
    /\ \A x \in Slots : x \notin {OwnRef, Builtin} \cup HookRefs
    /\ \A x \in HookRefs : x \notin AltNames
    /\ \A r \in Rules, q \in Rules, ph \in PHASES, at \in PHASES :
          HookRef(r, ph) = HookRef(q, at) => r = q /\ ph = at
    /\ OwnRef # Builtin
<1>1. ASSUME NEW k \in Nat PROVE UserRef(k)[1] = "user" /\ UserRef(k)[2] = k
  BY DEF UserRef
<1>2. ASSUME NEW x \in Slots PROVE x[1] = "slot"
  BY DEF Slots, SlotName
<1>3. ASSUME NEW r \in Rules, NEW ph \in PHASES
      PROVE  HookRef(r, ph)[1] = "hook" /\ HookRef(r, ph)[2] = r /\ HookRef(r, ph)[3] = ph
  BY DEF HookRef
<1>4. OwnRef[1] = "own" /\ Builtin[1] = "builtin"
  BY DEF OwnRef, Builtin
<1>5. ASSUME NEW x \in HookRefs PROVE x[1] = "hook"
  BY <1>3 DEF HookRefs
<1>6. ASSUME NEW x \in Users PROVE x[1] = "user"
  BY <1>1 DEF Users
<1>7. \A k \in Nat : UserRef(k) \notin {OwnRef, Builtin} \cup Slots \cup HookRefs
  BY <1>1, <1>2, <1>4, <1>5
<1>8. \A x \in Slots : x \notin {OwnRef, Builtin} \cup HookRefs
  BY <1>2, <1>4, <1>5
<1>9. \A x \in HookRefs : x \notin AltNames
  BY <1>2, <1>4, <1>5, <1>6 DEF AltNames
<1>10. \A j \in Nat, k \in Nat : UserRef(j) = UserRef(k) => j = k
  BY <1>1
<1>11. \A r \in Rules, q \in Rules, ph \in PHASES, at \in PHASES :
          HookRef(r, ph) = HookRef(q, at) => r = q /\ ph = at
  BY <1>3
<1> QED BY <1>4, <1>7, <1>8, <1>9, <1>10, <1>11

(* A hook's key is never that of alternates.                               *)
LEMMA KeysApart ==
    /\ \A key \in Hooks : IsHook(key) /\ key.rule \in Rules /\ key.sel \in PHASES
                          /\ key = [rule |-> key.rule, sel |-> key.sel]
    /\ \A key \in AltKeys : /\ ~IsHook(key) /\ key.rule \in Rules /\ key.side \in Sides /\ key.mark \in Marks
                            /\ key = [rule |-> key.rule, side |-> key.side, mark |-> key.mark]
                            /\ SlotName(key) \in Slots
    /\ \A key \in Hooks : \A r, s, m : key # [rule |-> r, side |-> s, mark |-> m]
    /\ \A key \in AltKeys : \A r, ph : key # [rule |-> r, sel |-> ph]
<1>1. ASSUME NEW key \in Hooks
      PROVE  /\ "sel" \in DOMAIN key /\ key.rule \in Rules /\ key.sel \in PHASES
             /\ key = [rule |-> key.rule, sel |-> key.sel]
  BY DEF Hooks
<1>2. ASSUME NEW key \in AltKeys
      PROVE  /\ "sel" \notin DOMAIN key /\ key.rule \in Rules /\ key.side \in Sides /\ key.mark \in Marks
             /\ key = [rule |-> key.rule, side |-> key.side, mark |-> key.mark]
             /\ SlotName(key) \in Slots
  BY DEF AltKeys, Slots
<1>3. \A r, s, m : "sel" \notin DOMAIN [rule |-> r, side |-> s, mark |-> m]
  OBVIOUS
<1>4. \A r, ph : "sel" \in DOMAIN [rule |-> r, sel |-> ph]
  OBVIOUS
<1>5. \A key \in Hooks : \A r, s, m : key # [rule |-> r, side |-> s, mark |-> m]
  BY <1>1, <1>3
<1>6. \A key \in AltKeys : \A r, ph : key # [rule |-> r, sel |-> ph]
  BY <1>2, <1>4
<1> QED BY <1>1, <1>2, <1>5, <1>6 DEF IsHook

-----------------------------------------------------------------------------
(* What lists of names run.                                                *)
LEMMA RanSame ==
    ASSUME NEW rf, NEW rg, NEW names, \A k \in DOMAIN names : RunOf(rf, names[k]) = RunOf(rg, names[k])
    PROVE  Ran(rf, names) = Ran(rg, names)
<1>1. [k \in DOMAIN names |-> RunOf(rf, names[k])] = [k \in DOMAIN names |-> RunOf(rg, names[k])]
  OBVIOUS
<1> QED BY <1>1 DEF Ran

MapsNames(rf) == \A x \in AltNames : RunOf(rf, x) \in Seq(Things)

LEMMA RanAppend ==
    ASSUME NEW rf, MapsNames(rf), NEW names \in Seq(AltNames), NEW x \in AltNames
    PROVE  /\ Ran(rf, names) \in Seq(Things)
           /\ Ran(rf, Append(names, x)) = Ran(rf, names) \o RunOf(rf, x)
<1> DEFINE all(ns) == [k \in DOMAIN ns |-> RunOf(rf, ns[k])]
<1>1. PICK size \in Nat : size = Len(names) /\ DOMAIN names = 1..size
  OBVIOUS
<1>2. \A k \in 1..size : names[k] \in AltNames
  BY <1>1
<1>3. all(names) \in Seq(Seq(Things)) /\ Len(all(names)) = size
  <2>1. \A k \in 1..size : RunOf(rf, names[k]) \in Seq(Things)
    BY <1>2 DEF MapsNames
  <2>2. all(names) = [k \in 1..size |-> RunOf(rf, names[k])]
    BY <1>1
  <2> QED BY <2>1, <2>2
<1>4. all(Append(names, x)) = Append(all(names), RunOf(rf, x))
  <2>1. /\ DOMAIN Append(names, x) = 1..(size + 1) /\ Append(names, x)[size + 1] = x
        /\ \A k \in 1..size : Append(names, x)[k] = names[k]
    BY <1>1
  <2>2. /\ DOMAIN Append(all(names), RunOf(rf, x)) = 1..(size + 1)
        /\ Append(all(names), RunOf(rf, x))[size + 1] = RunOf(rf, x)
        /\ \A k \in 1..size : Append(all(names), RunOf(rf, x))[k] = RunOf(rf, names[k])
    <3>1. PICK f \in Seq(Seq(Things)) : f = all(names)
      BY <1>3
    <3>2. RunOf(rf, x) \in Seq(Things)
      BY DEF MapsNames
    <3>3. \A k \in 1..size : f[k] = RunOf(rf, names[k])
      BY <1>1, <3>1
    <3> QED BY <1>3, <3>1, <3>2, <3>3
  <2>3. Append(all(names), RunOf(rf, x)) = [k \in 1..(size + 1) |-> Append(all(names), RunOf(rf, x))[k]]
    BY <1>3 DEF MapsNames
  <2>4. ASSUME NEW k \in 1..(size + 1) PROVE RunOf(rf, Append(names, x)[k]) = Append(all(names), RunOf(rf, x))[k]
    <3>1. CASE k = size + 1
      BY <2>1, <2>2, <3>1
    <3>2. CASE k # size + 1
      <4>1. k \in 1..size
        BY <3>2
      <4> QED BY <2>1, <2>2, <4>1
    <3> QED BY <3>1, <3>2
  <2>5. all(Append(names, x)) = [k \in 1..(size + 1) |-> RunOf(rf, Append(names, x)[k])]
    BY <2>1
  <2> HIDE DEF all
  <2> QED BY <2>3, <2>4, <2>5
<1>5. RunOf(rf, x) \in Seq(Things)
  BY DEF MapsNames
<1>6. FlattenSeq(all(names)) \in Seq(Things) /\ FlattenSeq(Append(all(names), RunOf(rf, x))) = FlattenSeq(all(names)) \o RunOf(rf, x)
  <2> HIDE DEF all
  <2> QED BY <1>3, <1>5, FlatAppend
<1> QED BY <1>4, <1>6 DEF Ran

(* What is asked for by one key more.                                      *)
LEMMA AskedAppend ==
    ASSUME NEW att \in Seq([key : Keys, runs : Seq(Things)]), NEW e \in [key : Keys, runs : Seq(Things)], NEW key
    PROVE  /\ Asked(att, key) \in Seq(Things)
           /\ e.key = key => Asked(Append(att, e), key) = Asked(att, key) \o e.runs
           /\ e.key # key => Asked(Append(att, e), key) = Asked(att, key)
<1> DEFINE part(x) == IF x.key = key THEN x.runs ELSE <<>>
           all(xs) == [k \in DOMAIN xs |-> part(xs[k])]
<1>1. PICK size \in Nat : size = Len(att) /\ DOMAIN att = 1..size
  OBVIOUS
<1>2. \A x \in [key : Keys, runs : Seq(Things)] : part(x) \in Seq(Things)
  OBVIOUS
<1>3. \A k \in 1..size : att[k] \in [key : Keys, runs : Seq(Things)]
  <2>1. PICK Entries : Entries = [key : Keys, runs : Seq(Things)]
    OBVIOUS
  <2>2. att \in Seq(Entries)
    BY <2>1
  <2>3. \A k \in 1..size : att[k] \in Entries
    BY <1>1, <2>2
  <2> QED BY <2>1, <2>3
<1>4. /\ DOMAIN Append(att, e) = 1..(size + 1) /\ Append(att, e)[size + 1] = e
      /\ \A k \in 1..size : Append(att, e)[k] = att[k]
  BY <1>1
<1>5. \A x : Asked(x, key) = FlattenSeq(all(x))
  BY DEF Asked
<1>6. part(e) \in Seq(Things) /\ (e.key = key => part(e) = e.runs) /\ (e.key # key => part(e) = <<>>)
  BY <1>2
<1> HIDE DEF part
<1>7. all(att) = [k \in 1..size |-> part(att[k])]
  BY <1>1
<1>8. all(att) \in Seq(Seq(Things)) /\ Len(all(att)) = size
  <2>1. \A k \in 1..size : part(att[k]) \in Seq(Things)
    BY <1>2, <1>3
  <2> QED BY <1>7, <2>1
<1>9. all(Append(att, e)) = Append(all(att), part(e))
  <2>1. all(Append(att, e)) = [k \in 1..(size + 1) |-> part(Append(att, e)[k])]
    BY <1>4
  <2>2. \A k \in 1..size : all(att)[k] = part(att[k])
    BY <1>7
  <2>3. PICK f \in Seq(Seq(Things)) : f = all(att)
    BY <1>8
  <2>4. Append(f, part(e)) = [k \in 1..(size + 1) |-> Append(f, part(e))[k]]
        /\ Append(f, part(e))[size + 1] = part(e) /\ \A k \in 1..size : Append(f, part(e))[k] = f[k]
    BY <1>6, <1>8, <2>3
  <2>5. ASSUME NEW k \in 1..(size + 1) PROVE part(Append(att, e)[k]) = Append(f, part(e))[k]
    <3>1. CASE k = size + 1
      BY <1>4, <2>4, <3>1
    <3>2. CASE k # size + 1
      <4>1. k \in 1..size
        BY <3>2
      <4> QED BY <1>4, <2>2, <2>3, <2>4, <4>1
    <3> QED BY <3>1, <3>2
  <2> HIDE DEF all
  <2> QED BY <2>1, <2>3, <2>4, <2>5
<1>10. FlattenSeq(all(att)) \in Seq(Things) /\ FlattenSeq(Append(all(att), part(e))) = FlattenSeq(all(att)) \o part(e)
  <2> HIDE DEF all
  <2> QED BY <1>6, <1>8, FlatAppend
<1>11. FlattenSeq(all(att)) \o <<>> = FlattenSeq(all(att))
  <2> HIDE DEF all
  <2> QED BY <1>10
<1> HIDE DEF all
<1> QED BY <1>5, <1>6, <1>9, <1>10, <1>11

-----------------------------------------------------------------------------
(* An alternate that is left alone, and one that is given a name more.     *)
LEMMA OwnFacts ==
    ASSUME NEW alt \in Alts
    PROVE  /\ OwnOf(alt) \in Seq(AltNames) /\ alt.a \in Seq(AltNames)
           /\ OwnOf(alt) = <<>> \/ (1 \in DOMAIN alt.a /\ OwnOf(alt) = << alt.a[1] >>)
           /\ \A x \in AltNames \ {OwnRef, Builtin} :
                 LET new == AppendAction(alt, x)
                 IN  new \in Alts /\ new.m = alt.m /\ new.a = Append(alt.a, x) /\ OwnOf(new) = OwnOf(alt)
<1>1. alt.a \in Seq(AltNames)
  BY DEF Alts
<1>2. alt.a # <<>> => 1 \in DOMAIN alt.a /\ Head(alt.a) = alt.a[1] /\ alt.a[1] \in AltNames
  BY <1>1
<1>3. OwnOf(alt) = <<>> \/ (1 \in DOMAIN alt.a /\ OwnOf(alt) = << alt.a[1] >> /\ alt.a[1] \in AltNames)
  BY <1>2 DEF OwnOf
<1>4. OwnOf(alt) \in Seq(AltNames)
  <2>1. \A x \in AltNames : <<x>> \in Seq(AltNames)
    OBVIOUS
  <2>2. <<>> \in Seq(AltNames)
    OBVIOUS
  <2> QED BY <1>3, <2>1, <2>2
<1>5. ASSUME NEW x \in AltNames \ {OwnRef, Builtin}, NEW new, new = AppendAction(alt, x)
      PROVE  new \in Alts /\ new.m = alt.m /\ new.a = Append(alt.a, x) /\ OwnOf(new) = OwnOf(alt)
  <2>1. new.m = alt.m /\ new.a = Append(alt.a, x) /\ new \in Alts
    <3>0. PICK b \in Seq(AltNames) : b = alt.a
      BY <1>1
    <3>1. PICK names : names = Append(alt.a, x) /\ names \in Seq(AltNames)
      <4>1. x \in AltNames
        OBVIOUS
      <4>2. Append(b, x) \in Seq(AltNames)
        BY <4>1
      <4> QED BY <3>0, <4>2
    <3>2. alt \in [m : Marks \cup {NoMark}, a : Seq(AltNames)] /\ new = [alt EXCEPT !.a = names]
      BY <1>5, <3>1 DEF Alts, AppendAction
    <3> HIDE DEF Alts
    <3>3. new \in [m : Marks \cup {NoMark}, a : Seq(AltNames)] /\ new.m = alt.m /\ new.a = names
      BY <3>1, <3>2
    <3> QED BY <3>1, <3>3 DEF Alts
  <2>2. PICK b \in Seq(AltNames) : b = alt.a
    BY <1>1
  <2>5. /\ Append(b, x) # <<>> /\ b = <<>> => Head(Append(b, x)) = x
        /\ b # <<>> => Head(Append(b, x)) = Head(b)
    BY <2>2
  <2>3. CASE alt.a = <<>>
    <3>1. Head(new.a) = x /\ new.a # <<>>
      BY <2>1, <2>2, <2>3, <2>5
    <3> QED BY <2>1, <2>3, <3>1 DEF OwnOf
  <2>4. CASE alt.a # <<>>
    <3>1. Head(new.a) = Head(alt.a) /\ new.a # <<>>
      BY <2>1, <2>2, <2>4, <2>5
    <3> QED BY <2>1, <2>4, <3>1 DEF OwnOf
  <2> QED BY <2>1, <2>3, <2>4
<1> QED BY <1>1, <1>3, <1>4, <1>5

Agree(rf, rg, alt) == \A k \in DOMAIN alt.a : RunOf(rf, alt.a[k]) = RunOf(rg, alt.a[k])

LEMMA OwnAgrees ==
    ASSUME NEW rf, NEW rg, NEW alt \in Alts, Agree(rf, rg, alt)
    PROVE  Ran(rf, OwnOf(alt)) = Ran(rg, OwnOf(alt)) /\ Ran(rf, alt.a) = Ran(rg, alt.a)
<1>1. \A k \in DOMAIN OwnOf(alt) : RunOf(rf, OwnOf(alt)[k]) = RunOf(rg, OwnOf(alt)[k])
  <2>1. CASE OwnOf(alt) = <<>>
    BY <2>1
  <2>2. CASE 1 \in DOMAIN alt.a /\ OwnOf(alt) = << alt.a[1] >>
    <3>1. \A k \in DOMAIN OwnOf(alt) : k = 1 /\ OwnOf(alt)[k] = alt.a[1]
      BY <2>2
    <3>2. RunOf(rf, alt.a[1]) = RunOf(rg, alt.a[1])
      BY <2>2 DEF Agree
    <3> QED BY <3>1, <3>2
  <2> QED BY <2>1, <2>2, OwnFacts
<1>2. Ran(rf, OwnOf(alt)) = Ran(rg, OwnOf(alt))
  BY <1>1, RanSame
<1>3. Ran(rf, alt.a) = Ran(rg, alt.a)
  BY RanSame DEF Agree
<1> QED BY <1>2, <1>3

LEMMA AltStays ==
    ASSUME NEW rf, NEW rg, NEW alt \in Alts, Agree(rf, rg, alt), NEW att, NEW btt, NEW r, NEW s,
           Asked(btt, [rule |-> r, side |-> s, mark |-> alt.m]) = Asked(att, [rule |-> r, side |-> s, mark |-> alt.m]),
           AltRuns(alt, rf, att, r, s)
    PROVE  AltRuns(alt, rg, btt, r, s)
BY OwnAgrees DEF AltRuns

LEMMA AltGrows ==
    ASSUME NEW rf, NEW rg, MapsNames(rg), NEW alt \in Alts, Agree(rf, rg, alt),
           NEW x \in AltNames \ {OwnRef, Builtin}, NEW r, NEW s,
           NEW att \in Seq([key : Keys, runs : Seq(Things)]), NEW e \in [key : Keys, runs : Seq(Things)],
           e.key = [rule |-> r, side |-> s, mark |-> alt.m], e.runs = RunOf(rg, x),
           AltRuns(alt, rf, att, r, s)
    PROVE  AltRuns(AppendAction(alt, x), rg, Append(att, e), r, s)
<1>1. PICK new : new = AppendAction(alt, x)
  OBVIOUS
<1>2. new.m = alt.m /\ new.a = Append(alt.a, x) /\ OwnOf(new) = OwnOf(alt)
  BY <1>1, OwnFacts
<1>3. alt.a \in Seq(AltNames) /\ OwnOf(alt) \in Seq(AltNames) /\ x \in AltNames
  BY OwnFacts
<1>4. Ran(rg, new.a) = Ran(rg, alt.a) \o RunOf(rg, x)
  BY <1>2, <1>3, RanAppend
<1>5. PICK key : key = [rule |-> r, side |-> s, mark |-> alt.m]
  OBVIOUS
<1>6. Asked(att, key) \in Seq(Things) /\ Asked(Append(att, e), key) = Asked(att, key) \o RunOf(rg, x)
  <2>1. e.key = key
    BY <1>5
  <2>2. Asked(att, key) \in Seq(Things)
    BY AskedAppend
  <2>3. Asked(Append(att, e), key) = Asked(att, key) \o e.runs
    BY <2>1, AskedAppend
  <2> QED BY <2>2, <2>3
<1>7. Ran(rg, OwnOf(alt)) \in Seq(Things) /\ RunOf(rg, x) \in Seq(Things)
  BY <1>3, RanAppend DEF MapsNames
<1>8. Ran(rg, alt.a) = Ran(rg, OwnOf(alt)) \o Asked(att, key)
  BY <1>5, OwnAgrees DEF AltRuns
<1>9. (Ran(rg, OwnOf(alt)) \o Asked(att, key)) \o RunOf(rg, x) = Ran(rg, OwnOf(alt)) \o (Asked(att, key) \o RunOf(rg, x))
  BY <1>6, <1>7, ConcatAssociative
<1>10. Ran(rg, new.a) = Ran(rg, OwnOf(new)) \o Asked(Append(att, e), [rule |-> r, side |-> s, mark |-> new.m])
  BY <1>2, <1>4, <1>5, <1>6, <1>8, <1>9
<1> QED BY <1>1, <1>10 DEF AltRuns

(* A ref map with some names given what they run.                          *)
Extended(rf, N, fns) == [x \in DOMAIN rf \cup N |-> IF x \in N THEN fns ELSE rf[x]]

LEMMA RefsMap == TypeInv => MapsNames(refs)
<1> SUFFICES ASSUME TypeInv, NEW x \in AltNames PROVE RunOf(refs, x) \in Seq(Things)
  BY DEF MapsNames
<1>1. x \in Things /\ <<x>> \in Seq(Things)
  BY DEF Things
<1>2. x \in DOMAIN refs => refs[x] \in Seq(Things)
  BY DEF TypeInv
<1> QED BY <1>1, <1>2 DEF RunOf

-----------------------------------------------------------------------------
(* A key's alternates, each given a name more.                             *)
LEMMA AppendingFacts ==
    ASSUME TypeInv, NEW key \in AltKeys, NEW name, DOMAIN name = Matching(key),
           \A i \in Matching(key) : name[i] \in AltNames \ {OwnRef, Builtin}
    PROVE  /\ Appending(key, name) \in [Rules -> [Sides -> Seq(Alts)]]
           /\ \A r \in Rules, s \in Sides :
                 /\ DOMAIN Appending(key, name)[r][s] = DOMAIN rule[r][s]
                 /\ \A i \in DOMAIN rule[r][s] :
                       /\ rule[r][s][i] \in Alts
                       /\ key = [rule |-> r, side |-> s, mark |-> rule[r][s][i].m]
                             => /\ i \in Matching(key)
                                /\ Appending(key, name)[r][s][i] = AppendAction(rule[r][s][i], name[i])
                       /\ key # [rule |-> r, side |-> s, mark |-> rule[r][s][i].m]
                             => Appending(key, name)[r][s][i] = rule[r][s][i]
<1> DEFINE p == key.rule
           q == key.side
           new(i) == IF i \in DOMAIN name THEN AppendAction(rule[p][q][i], name[i]) ELSE rule[p][q][i]
<1>1. rule \in [Rules -> [Sides -> Seq(Alts)]] /\ p \in Rules /\ q \in Sides
  BY KeysApart DEF TypeInv
<1>2. \A r \in Rules, s \in Sides : rule[r][s] \in Seq(Alts) /\ \A i \in DOMAIN rule[r][s] : rule[r][s][i] \in Alts
  <2> SUFFICES ASSUME NEW r \in Rules, NEW s \in Sides
               PROVE  rule[r][s] \in Seq(Alts) /\ \A i \in DOMAIN rule[r][s] : rule[r][s][i] \in Alts
    OBVIOUS
  <2>1. PICK alts \in Seq(Alts) : alts = rule[r][s]
    BY <1>1
  <2> QED BY <2>1
<1>3. PICK size \in Nat : DOMAIN rule[p][q] = 1..size
  <2>1. PICK alts \in Seq(Alts) : alts = rule[p][q]
    BY <1>1
  <2> QED BY <2>1
<1>4. PICK given : given = [i \in DOMAIN rule[p][q] |-> new(i)]
  OBVIOUS
<1>5. Appending(key, name) = [rule EXCEPT ![p] = [rule[p] EXCEPT ![q] = given]]
  BY <1>1, <1>4 DEF Appending
<1>6. ASSUME NEW i \in 1..size PROVE new(i) \in Alts
  <2>1. rule[p][q][i] \in Alts
    BY <1>1, <1>2, <1>3
  <2>2. i \in DOMAIN name => new(i) \in Alts
    BY <2>1, OwnFacts
  <2> QED BY <2>1, <2>2
<1>7. given \in Seq(Alts) /\ DOMAIN given = DOMAIN rule[p][q] /\ \A i \in DOMAIN rule[p][q] : given[i] = new(i)
  <2> HIDE DEF new
  <2> QED BY <1>3, <1>4, <1>6
<1>8. Appending(key, name) \in [Rules -> [Sides -> Seq(Alts)]]
  BY <1>1, <1>5, <1>7
<1>9. ASSUME NEW r \in Rules, NEW s \in Sides
      PROVE  Appending(key, name)[r][s] = IF r = p /\ s = q THEN given ELSE rule[r][s]
  BY <1>1, <1>5
<1>10. ASSUME NEW i \in DOMAIN rule[p][q] PROVE i \in Matching(key) <=> rule[p][q][i].m = key.mark
  BY DEF Matching
<1>11. ASSUME NEW r \in Rules, NEW s \in Sides, NEW m
       PROVE  key = [rule |-> r, side |-> s, mark |-> m] <=> r = p /\ s = q /\ m = key.mark
  <2>1. key = [rule |-> p, side |-> q, mark |-> key.mark]
    BY KeysApart
  <2> QED BY <2>1
<1>12. ASSUME NEW r \in Rules, NEW s \in Sides
       PROVE  DOMAIN Appending(key, name)[r][s] = DOMAIN rule[r][s]
  BY <1>7, <1>9
<1>13. ASSUME NEW r \in Rules, NEW s \in Sides, NEW i \in DOMAIN rule[r][s],
              key = [rule |-> r, side |-> s, mark |-> rule[r][s][i].m]
       PROVE  /\ i \in Matching(key)
              /\ Appending(key, name)[r][s][i] = AppendAction(rule[r][s][i], name[i])
  <2>1. r = p /\ s = q /\ rule[r][s][i].m = key.mark
    BY <1>11, <1>13
  <2>2. i \in Matching(key) /\ i \in DOMAIN name
    BY <1>10, <2>1
  <2>3. Appending(key, name)[r][s][i] = new(i)
    BY <1>7, <1>9, <2>1
  <2> QED BY <2>1, <2>2, <2>3
<1>14. ASSUME NEW r \in Rules, NEW s \in Sides, NEW i \in DOMAIN rule[r][s],
              key # [rule |-> r, side |-> s, mark |-> rule[r][s][i].m]
       PROVE  Appending(key, name)[r][s][i] = rule[r][s][i]
  <2>1. CASE r = p /\ s = q
    <3>1. rule[r][s][i].m # key.mark
      BY <1>11, <1>14, <2>1
    <3>2. i \notin DOMAIN name
      BY <1>10, <2>1, <3>1
    <3>3. Appending(key, name)[r][s][i] = new(i)
      BY <1>7, <1>9, <2>1
    <3> QED BY <2>1, <3>2, <3>3
  <2>2. CASE ~(r = p /\ s = q)
    BY <1>9, <2>2
  <2> QED BY <2>1, <2>2
<1> QED BY <1>2, <1>8, <1>12, <1>13, <1>14

(* A key is attached to alternates: whatever map gives the names what the  *)
(* key asks for, and keeps what the alternates run already.                *)
Entry(key, fns) == [key |-> key, runs |-> fns]

LEMMA AltsAttached ==
    ASSUME TypeInv, KnownInv, AltsInv, HooksInv, NEW key \in AltKeys, NEW fns \in Seq(Things), NEW name, NEW rg,
           DOMAIN name = Matching(key), MapsNames(rg),
           \A i \in Matching(key) : /\ name[i] \in AltNames \ {OwnRef, Builtin} /\ RunOf(rg, name[i]) = fns
                                    /\ name[i] \in Users => name[i] \in DOMAIN rg,
           DOMAIN refs \subseteq DOMAIN rg,
           \A x : (x \in Users => x \in DOMAIN refs) => RunOf(rg, x) = RunOf(refs, x),
           \A x \in HookRefs : (x \in DOMAIN rg <=> x \in DOMAIN refs) /\ (x \in DOMAIN refs => rg[x] = refs[x]),
           rule' = Appending(key, name), refs' = rg, attached' = Append(attached, Entry(key, fns))
    PROVE  /\ rule' \in [Rules -> [Sides -> Seq(Alts)]]
           /\ attached' \in Seq([key : Keys, runs : Seq(Things)])
           /\ KnownInv' /\ AltsInv' /\ HooksInv'
<1>1. /\ attached \in Seq([key : Keys, runs : Seq(Things)])
      /\ Entry(key, fns) \in [key : Keys, runs : Seq(Things)]
      /\ Entry(key, fns).key = key /\ Entry(key, fns).runs = fns
  BY DEF TypeInv, Entry, Keys
<1>2. PICK e \in [key : Keys, runs : Seq(Things)] : e = Entry(key, fns) /\ e.key = key /\ e.runs = fns
  BY <1>1
<1>3. attached' = Append(attached, e)
  BY <1>2
<1>4. rule' \in [Rules -> [Sides -> Seq(Alts)]]
  BY AppendingFacts
<1>5. attached' \in Seq([key : Keys, runs : Seq(Things)])
  <2>1. PICK Entries : Entries = [key : Keys, runs : Seq(Things)]
    OBVIOUS
  <2>2. attached \in Seq(Entries) /\ e \in Entries
    BY <1>1, <2>1
  <2>3. Append(attached, e) \in Seq(Entries)
    BY <2>2
  <2> QED BY <1>3, <2>1, <2>3
<1>6. ASSUME NEW r \in Rules, NEW s \in Sides, NEW i \in DOMAIN rule'[r][s]
      PROVE  Known(rule'[r][s][i], rg) /\ AltRuns(rule'[r][s][i], rg, attached', r, s)
  <2>1. i \in DOMAIN rule[r][s]
    BY AppendingFacts
  <2>2. PICK alt \in Alts : alt = rule[r][s][i]
    BY <2>1, AppendingFacts
  <2>3. Known(alt, refs) /\ AltRuns(alt, refs, attached, r, s)
    BY <2>1, <2>2 DEF KnownInv, AltsInv
  <2>4. Agree(refs, rg, alt)
    BY <2>3 DEF Known, Agree
  <2>5. PICK target : target = [rule |-> r, side |-> s, mark |-> alt.m]
    OBVIOUS
  <2>6. CASE key = target
    <3>1. i \in Matching(key) /\ rule'[r][s][i] = AppendAction(alt, name[i])
      <4>1. key = [rule |-> r, side |-> s, mark |-> rule[r][s][i].m]
        BY <2>2, <2>5, <2>6
      <4>2. i \in Matching(key) /\ Appending(key, name)[r][s][i] = AppendAction(rule[r][s][i], name[i])
        BY <2>1, <4>1, AppendingFacts
      <4> QED BY <2>2, <4>2
    <3>2. PICK x \in AltNames \ {OwnRef, Builtin} : x = name[i] /\ RunOf(rg, x) = fns /\ (x \in Users => x \in DOMAIN rg)
      BY <3>1
    <3>3. e.key = [rule |-> r, side |-> s, mark |-> alt.m] /\ e.runs = RunOf(rg, x)
      BY <1>2, <2>5, <2>6, <3>2
    <3>4. AltRuns(AppendAction(alt, x), rg, Append(attached, e), r, s)
      BY <1>1, <2>3, <2>4, <3>3, AltGrows
    <3>5. PICK names \in Seq(AltNames) : names = alt.a
      BY OwnFacts
    <3>6. AppendAction(alt, x).a = Append(names, x)
      BY <3>5, OwnFacts
    <3>7. \A k \in DOMAIN Append(names, x) : Append(names, x)[k] \in Users => Append(names, x)[k] \in DOMAIN rg
      <4>1. \A k \in DOMAIN names : names[k] \in Users => names[k] \in DOMAIN rg
        BY <2>3, <3>5 DEF Known
      <4>2. ASSUME NEW k \in DOMAIN Append(names, x)
            PROVE  (k \in DOMAIN names /\ Append(names, x)[k] = names[k]) \/ Append(names, x)[k] = x
        <5>1. x \in AltNames
          OBVIOUS
        <5> QED BY <5>1
      <4> QED BY <3>2, <4>1, <4>2
    <3>8. Known(AppendAction(alt, x), rg)
      BY <3>6, <3>7 DEF Known
    <3> QED BY <1>3, <3>1, <3>2, <3>4, <3>8
  <2>7. CASE key # target
    <3>1. rule'[r][s][i] = alt
      <4>1. key # [rule |-> r, side |-> s, mark |-> rule[r][s][i].m]
        BY <2>2, <2>5, <2>7
      <4>2. Appending(key, name)[r][s][i] = rule[r][s][i]
        BY <2>1, <4>1, AppendingFacts
      <4> QED BY <2>2, <4>2
    <3>2. Asked(Append(attached, e), target) = Asked(attached, target)
      BY <1>1, <1>2, <2>7, AskedAppend
    <3>3. AltRuns(alt, rg, Append(attached, e), r, s)
      BY <2>3, <2>4, <2>5, <3>2, AltStays
    <3>4. Known(alt, rg)
      BY <2>3 DEF Known
    <3> QED BY <1>3, <3>1, <3>3, <3>4
  <2> QED BY <2>6, <2>7
<1>7. KnownInv' /\ AltsInv'
  BY <1>6 DEF KnownInv, AltsInv
<1>8. ASSUME NEW r \in Rules, NEW ph \in PHASES PROVE HookRuns(rg, Append(attached, e), r, ph)
  <2>1. PICK target : target = [rule |-> r, sel |-> ph]
    OBVIOUS
  <2>2. key # target
    BY <2>1, KeysApart
  <2>3. Asked(Append(attached, e), target) = Asked(attached, target)
    BY <1>1, <1>2, <2>2, AskedAppend
  <2>4. HookRef(r, ph) \in HookRefs
    BY DEF HookRefs
  <2>5. HookRuns(refs, attached, r, ph)
    BY DEF HooksInv
  <2> QED BY <2>1, <2>3, <2>4, <2>5 DEF HookRuns
<1>9. HooksInv'
  BY <1>3, <1>8 DEF HooksInv
<1> QED BY <1>4, <1>5, <1>7, <1>9

-----------------------------------------------------------------------------
(* Init and each action.                                                   *)
LEMMA ListFacts == \A fns \in Lists : fns \in Seq(Things)
<1>1. \A f \in Functions, g \in Functions : <<f>> \in Seq(Things) /\ <<f, g>> \in Seq(Things)
  BY DEF Things
<1> QED BY <1>1 DEF Lists

LEMMA InitHolds == Init => ActionsInv
<1> SUFFICES ASSUME Init PROVE ActionsInv
  OBVIOUS
<1>1. /\ refs = [x \in {OwnRef} |-> <<OwnRef>>] /\ call = "idle" /\ counter = 0 /\ attached = <<>>
  BY DEF Init
<1>2. \A a \in Own : a \in Seq(AltNames)
  <2>1. <<>> \in Seq(AltNames) /\ \A x \in AltNames : <<x>> \in Seq(AltNames)
    OBVIOUS
  <2>2. OwnRef \in AltNames /\ Builtin \in AltNames
    BY DEF AltNames
  <2> QED BY <2>1, <2>2 DEF Own
<1>3. ASSUME NEW m \in Marks \cup {NoMark}, NEW a \in Own
      PROVE  [m |-> m, a |-> a] \in Alts /\ OwnOf([m |-> m, a |-> a]) = a
             /\ Known([m |-> m, a |-> a], refs)
  <2>1. [m |-> m, a |-> a] \in Alts
    BY <1>2 DEF Alts
  <2>2. OwnOf([m |-> m, a |-> a]) = a
    BY DEF OwnOf, Own
  <2>3. \A k \in DOMAIN a : a[k] \in {OwnRef, Builtin}
    BY DEF Own
  <2>4. Known([m |-> m, a |-> a], refs)
    BY <2>3, NamesApart DEF Known, Users
  <2> QED BY <2>1, <2>2, <2>4
<1>4. ASSUME NEW r \in Rules
      PROVE  \E x \in [m : Marks, a : Own], y \in [m : Marks \cup {NoMark}, a : { <<>> }], z \in [m : Marks, a : { <<OwnRef>> }] :
                rule[r] = [s \in Sides |-> IF s = "open" THEN <<x, y>> ELSE <<z>>]
  BY DEF Init
<1>5. ASSUME NEW x \in [m : Marks \cup {NoMark}, a : Own]
      PROVE  x \in Alts /\ OwnOf(x) = x.a /\ Known(x, refs)
  <2>1. x.m \in Marks \cup {NoMark} /\ x.a \in Own /\ x = [m |-> x.m, a |-> x.a]
    OBVIOUS
  <2> QED BY <1>3, <2>1
<1>6. ASSUME NEW r \in Rules, NEW s \in Sides
      PROVE  /\ rule[r][s] \in Seq(Alts)
             /\ \A i \in DOMAIN rule[r][s] : rule[r][s][i] \in [m : Marks \cup {NoMark}, a : Own]
  <2>1. PICK x \in [m : Marks, a : Own] :
          \E y \in [m : Marks \cup {NoMark}, a : { <<>> }], z \in [m : Marks, a : { <<OwnRef>> }] :
             rule[r] = [t \in Sides |-> IF t = "open" THEN <<x, y>> ELSE <<z>>]
    BY <1>4
  <2>2. PICK y \in [m : Marks \cup {NoMark}, a : { <<>> }], z \in [m : Marks, a : { <<OwnRef>> }] :
             rule[r] = [t \in Sides |-> IF t = "open" THEN <<x, y>> ELSE <<z>>]
    BY <2>1
  <2>3. PICK E : E = [m : Marks \cup {NoMark}, a : Own]
    OBVIOUS
  <2>4. x \in E /\ y \in E /\ z \in E
    BY <2>3 DEF Own
  <2>5. rule[r][s] = <<x, y>> \/ rule[r][s] = <<z>>
    BY <2>2
  <2>6. \A i \in DOMAIN rule[r][s] : rule[r][s][i] \in E
    BY <2>4, <2>5
  <2>7. x \in Alts /\ y \in Alts /\ z \in Alts
    BY <1>5, <2>3, <2>4
  <2>8. rule[r][s] \in Seq(Alts)
    <3>1. <<x, y>> \in Seq(Alts) /\ <<z>> \in Seq(Alts)
      BY <2>7
    <3> QED BY <2>5, <3>1
  <2> QED BY <2>3, <2>6, <2>8
<1>7. rule \in [Rules -> [Sides -> Seq(Alts)]]
  <2>1. rule = [r \in Rules |-> rule[r]]
    BY DEF Init
  <2>2. ASSUME NEW r \in Rules PROVE rule[r] = [s \in Sides |-> rule[r][s]]
    BY <1>4
  <2>3. \A r \in Rules : rule[r] \in [Sides -> Seq(Alts)]
    BY <1>6, <2>2
  <2> QED BY <2>1, <2>3
<1>8. TypeInv
  <2>1. DOMAIN refs = {OwnRef} /\ IsFiniteSet(DOMAIN refs)
    BY <1>1, FS_Singleton
  <2>2. refs \in [DOMAIN refs -> Seq(Things)]
    BY <1>1 DEF Things, AltNames
  <2>3. attached \in Seq([key : Keys, runs : Seq(Things)])
    BY <1>1
  <2> QED BY <1>1, <1>7, <2>1, <2>2, <2>3 DEF TypeInv
<1>9. NumberedInv
  <2>1. \A k \in Nat : UserRef(k) \notin DOMAIN refs
    BY <1>1, NamesApart
  <2>2. Numbered(refs, 0)
    BY <2>1 DEF Numbered
  <2> QED BY <1>1, <2>2 DEF NumberedInv
<1>10. KnownInv
  BY <1>5, <1>6 DEF KnownInv
<1>11. \A key : Asked(attached, key) = <<>>
  BY <1>1 DEF Asked, FlattenSeq
<1>12. ASSUME NEW r \in Rules, NEW s \in Sides, NEW i \in DOMAIN rule[r][s]
       PROVE  AltRuns(rule[r][s][i], refs, attached, r, s)
  <2>1. PICK alt \in Alts : alt = rule[r][s][i] /\ OwnOf(alt) = alt.a
    BY <1>5, <1>6
  <2>2. Ran(refs, alt.a) \in Seq(Things)
    BY <1>8, RefsMap, OwnFacts, RanAppend DEF AltNames
  <2>3. Ran(refs, alt.a) \o <<>> = Ran(refs, alt.a)
    BY <2>2
  <2> QED BY <1>11, <2>1, <2>3 DEF AltRuns
<1>13. AltsInv
  BY <1>12 DEF AltsInv
<1>14. HooksInv
  <2>1. \A r \in Rules, ph \in PHASES : HookRef(r, ph) \notin DOMAIN refs
    <3>1. \A r \in Rules, ph \in PHASES : HookRef(r, ph) \in HookRefs
      BY DEF HookRefs
    <3> QED BY <1>1, <3>1, NamesApart DEF AltNames
  <2> QED BY <1>11, <2>1 DEF HooksInv, HookRuns
<1> QED BY <1>8, <1>9, <1>10, <1>13, <1>14 DEF ActionsInv

(* A call numbers its refs from the first that is free.                    *)
LEMMA FirstIsFree ==
    ASSUME IsFiniteSet(DOMAIN refs), NEW upto \in Nat, Numbered(refs, upto)
    PROVE  FirstFree = upto
<1> DEFINE S == 0..(upto - 1)
           f == [k \in S |-> UserRef(k)]
           Free(n) == UserRef(n) \notin DOMAIN refs /\ \A k \in 0..(n - 1) : UserRef(k) \in DOMAIN refs
<1>1. PICK size \in Nat : size = Cardinality(DOMAIN refs)
  BY FS_CardinalityType
<1>2. upto <= size
  <2>1. f \in Injection(S, DOMAIN refs)
    BY NamesApart DEF Numbered, Injection, IsInjective
  <2>2. Cardinality(S) <= Cardinality(DOMAIN refs)
    <3> HIDE DEF f, S
    <3> QED BY <2>1, FS_Injection
  <2>3. Cardinality(S) = upto
    <3>1. 0 \in Int /\ upto - 1 \in Int
      OBVIOUS
    <3>2. Cardinality(0..(upto - 1)) = IF 0 > upto - 1 THEN 0 ELSE (upto - 1) - 0 + 1
      BY <3>1, FS_Interval
    <3> QED BY <3>2
  <2> QED BY <1>1, <2>2, <2>3
<1>3. upto \in 0..size /\ Free(upto)
  BY <1>2 DEF Numbered
<1>4. ASSUME NEW n \in 0..size, Free(n) PROVE n = upto
  <2>1. ~(n < upto)
    BY <1>4 DEF Numbered
  <2>2. ~(upto < n)
    <3>1. UserRef(upto) \notin DOMAIN refs
      BY DEF Numbered
    <3> QED BY <1>4, <3>1
  <2> QED BY <2>1, <2>2
<1>5. FirstFree = CHOOSE n \in 0..size : Free(n)
  BY <1>1 DEF FirstFree
<1> HIDE DEF Free
<1> QED BY <1>3, <1>4, <1>5

LEMMA BeginHolds == ASSUME ActionsInv, NEW kind \in {"actions", "slots"}, Begin(kind) PROVE ActionsInv'
<1>1. PICK upto \in Nat : Numbered(refs, upto)
  BY DEF ActionsInv, NumberedInv
<1>2. FirstFree = upto
  BY <1>1, FirstIsFree DEF ActionsInv, TypeInv
<1>3. /\ call' = kind /\ rule' = rule /\ refs' = refs /\ attached' = attached
      /\ counter' = IF kind = "actions" THEN upto ELSE counter
  BY <1>2 DEF Begin
<1>4. NumberedInv'
  BY <1>1, <1>3 DEF NumberedInv, Numbered
<1>5. TypeInv' /\ KnownInv' /\ AltsInv' /\ HooksInv'
  BY <1>3 DEF ActionsInv, TypeInv, KnownInv, AltsInv, HooksInv
<1> QED BY <1>4, <1>5 DEF ActionsInv

(* A failed call and a complete one leave everything attached.             *)
LEMMA EndHolds == ASSUME ActionsInv, call' = "idle" \/ call' = call, UNCHANGED <<rule, refs, counter, attached>> PROVE ActionsInv'
<1>1. NumberedInv'
  BY DEF ActionsInv, NumberedInv, Numbered
<1>2. TypeInv' /\ KnownInv' /\ AltsInv' /\ HooksInv'
  BY DEF ActionsInv, TypeInv, KnownInv, AltsInv, HooksInv
<1> QED BY <1>1, <1>2 DEF ActionsInv

(* A hook runs what it ran and then what is added; nothing else changes.   *)
LEMMA HookHolds ==
    ASSUME ActionsInv, NEW key \in Hooks, NEW fns \in Lists, AttachHook(key, fns)
    PROVE  ActionsInv'
<1> DEFINE hook == HookRef(key.rule, key.sel)
           old  == IF hook \in DOMAIN refs THEN refs[hook] ELSE <<>>
<1>1. TypeInv /\ NumberedInv /\ KnownInv /\ AltsInv /\ HooksInv /\ fns \in Seq(Things)
  BY ListFacts DEF ActionsInv
<1>2. key.rule \in Rules /\ key.sel \in PHASES /\ key = [rule |-> key.rule, sel |-> key.sel]
  BY KeysApart
<1>3. hook \in HookRefs /\ hook \notin AltNames /\ hook # OwnRef
  BY <1>2, NamesApart DEF HookRefs, AltNames
<1>4. old \in Seq(Things)
  BY <1>1 DEF TypeInv
<1>5. PICK both \in Seq(Things) : both = old \o fns
  <2> HIDE DEF old
  <2>1. old \o fns \in Seq(Things)
    BY <1>1, <1>4
  <2> QED BY <2>1
<1>6. /\ refs' = Extended(refs, {hook}, both)
      /\ attached' = Append(attached, [key |-> key, runs |-> fns])
      /\ UNCHANGED <<rule, call, counter>>
  BY <1>5 DEF AttachHook, Mapping, Extended
<1> HIDE DEF hook, old
<1>7. PICK rg : rg = refs' /\ rg = Extended(refs, {hook}, both)
  BY <1>6
<1>8. /\ rg = [x \in DOMAIN rg |-> rg[x]] /\ DOMAIN rg = {hook} \cup DOMAIN refs
      /\ \A x \in {hook} : rg[x] = both
      /\ \A x \in DOMAIN refs \ {hook} : rg[x] = refs[x]
      /\ \A x : x \notin {hook} => RunOf(rg, x) = RunOf(refs, x)
  BY <1>7 DEF RunOf, Extended
<1>9. PICK e \in [key : Keys, runs : Seq(Things)] : e = [key |-> key, runs |-> fns] /\ e.key = key /\ e.runs = fns
  <2>1. key \in Keys
    BY DEF Keys
  <2>2. [key |-> key, runs |-> fns] \in [key : Keys, runs : Seq(Things)]
    BY <1>1, <2>1
  <2> QED BY <2>2
<1>10. attached' = Append(attached, e) /\ attached \in Seq([key : Keys, runs : Seq(Things)])
  BY <1>1, <1>6, <1>9 DEF TypeInv
<1>11. TypeInv'
  <2>1. attached' \in Seq([key : Keys, runs : Seq(Things)])
    <3>1. PICK Entries : Entries = [key : Keys, runs : Seq(Things)]
      OBVIOUS
    <3>2. attached \in Seq(Entries) /\ e \in Entries
      BY <1>10, <3>1
    <3>3. Append(attached, e) \in Seq(Entries)
      BY <3>2
    <3> QED BY <1>10, <3>1, <3>3
  <2>2. IsFiniteSet({hook} \cup DOMAIN refs)
    <3>1. IsFiniteSet(DOMAIN refs)
      BY <1>1 DEF TypeInv
    <3>2. IsFiniteSet(DOMAIN refs \cup {hook}) /\ DOMAIN refs \cup {hook} = {hook} \cup DOMAIN refs
      BY <3>1, FS_AddElement
    <3> QED BY <3>2
  <2>3. rg \in [DOMAIN rg -> Seq(Things)]
    <3>1. \A x \in DOMAIN rg : rg[x] \in Seq(Things)
      BY <1>1, <1>8 DEF TypeInv
    <3> QED BY <1>8, <3>1
  <2> QED BY <1>1, <1>3, <1>6, <1>7, <1>8, <2>1, <2>2, <2>3 DEF TypeInv
<1>12. NumberedInv'
  <2>1. \A k \in Nat : UserRef(k) \in DOMAIN rg <=> UserRef(k) \in DOMAIN refs
    BY <1>3, <1>8, NamesApart
  <2> QED BY <1>1, <1>6, <1>7, <2>1 DEF NumberedInv, Numbered
<1>13. KnownInv' /\ AltsInv'
  <2> SUFFICES ASSUME NEW r \in Rules, NEW s \in Sides, NEW i \in DOMAIN rule[r][s]
               PROVE  Known(rule[r][s][i], rg) /\ AltRuns(rule[r][s][i], rg, Append(attached, e), r, s)
    BY <1>6, <1>7, <1>10 DEF KnownInv, AltsInv
  <2>1. PICK alts \in Seq(Alts) : alts = rule[r][s]
    BY <1>1 DEF TypeInv
  <2>2. PICK alt \in Alts : alt = rule[r][s][i]
    BY <2>1
  <2>3. Known(alt, refs) /\ AltRuns(alt, refs, attached, r, s)
    BY <1>1, <2>2 DEF KnownInv, AltsInv
  <2>4. Agree(refs, rg, alt)
    <3>1. PICK names \in Seq(AltNames) : names = alt.a
      BY OwnFacts
    <3>2. \A k \in DOMAIN names : names[k] \in AltNames
      BY <3>1
    <3> QED BY <1>3, <1>8, <3>1, <3>2 DEF Agree
  <2>5. PICK target : target = [rule |-> r, side |-> s, mark |-> alt.m]
    OBVIOUS
  <2>6. e.key # target
    BY <1>9, <2>5, KeysApart
  <2>7. Asked(Append(attached, e), target) = Asked(attached, target)
    BY <1>10, <2>6, AskedAppend
  <2>8. AltRuns(alt, rg, Append(attached, e), r, s)
    BY <2>3, <2>4, <2>5, <2>7, AltStays
  <2>9. Known(alt, rg)
    BY <1>8, <2>3 DEF Known
  <2> QED BY <2>2, <2>8, <2>9
<1>14. HooksInv'
  <2> SUFFICES ASSUME NEW r \in Rules, NEW ph \in PHASES PROVE HookRuns(rg, Append(attached, e), r, ph)
    BY <1>7, <1>10 DEF HooksInv
  <2>1. PICK target : target = [rule |-> r, sel |-> ph]
    OBVIOUS
  <2>2. HookRuns(refs, attached, r, ph)
    BY <1>1 DEF HooksInv
  <2>3. CASE r = key.rule /\ ph = key.sel
    <3>1. HookRef(r, ph) = hook /\ key = target
      BY <1>2, <2>1, <2>3 DEF hook
    <3>2. Asked(Append(attached, e), target) = Asked(attached, target) \o fns
      BY <1>9, <1>10, <3>1, AskedAppend
    <3>3. old = Asked(attached, target)
      BY <2>1, <2>2, <3>1 DEF HookRuns, old
    <3> QED BY <1>5, <1>8, <2>1, <3>1, <3>2, <3>3 DEF HookRuns
  <2>4. CASE ~(r = key.rule /\ ph = key.sel)
    <3>1. HookRef(r, ph) # hook
      BY <1>2, <2>4, NamesApart DEF hook
    <3>2. e.key # target
      BY <1>2, <1>9, <2>1, <2>4
    <3>3. Asked(Append(attached, e), target) = Asked(attached, target)
      BY <1>10, <3>2, AskedAppend
    <3> QED BY <1>8, <2>1, <2>2, <3>1, <3>3 DEF HookRuns
  <2> QED BY <2>3, <2>4
<1> QED BY <1>11, <1>12, <1>13, <1>14 DEF ActionsInv

(* The key's alternates are among finitely many.                           *)
LEMMA MatchingFacts ==
    ASSUME TypeInv, NEW key \in AltKeys
    PROVE  \E size \in Nat : Matching(key) \in SUBSET (1..size)
<1>1. rule[key.rule][key.side] \in Seq(Alts)
  BY KeysApart DEF TypeInv
<1>2. PICK alts \in Seq(Alts) : alts = rule[key.rule][key.side]
  BY <1>1
<1>3. Len(alts) \in Nat /\ DOMAIN alts = 1..Len(alts)
  OBVIOUS
<1> QED BY <1>2, <1>3 DEF Matching

(* Every alternate is given a ref of its own, that no alternate had.       *)
LEMMA AltsHold ==
    ASSUME ActionsInv, NEW key \in AltKeys, NEW fns \in Lists, AttachAlts(key, fns)
    PROVE  ActionsInv'
<1>1. TypeInv /\ NumberedInv /\ KnownInv /\ AltsInv /\ HooksInv /\ fns \in Seq(Things)
  BY ListFacts DEF ActionsInv
<1>2. PICK M : M = Matching(key)
  OBVIOUS
<1>3. PICK size \in Nat : M \in SUBSET (1..size)
  BY <1>1, <1>2, MatchingFacts
<1>4. PICK count \in Nat : count = Cardinality(M) /\ IsFiniteSet(M)
  BY <1>3, BelowFacts
<1>5. /\ \A i \in M : Below(M, i) \in 0..(count - 1)
      /\ \A k \in 0..(count - 1) : \E i \in M : Below(M, i) = k
  BY <1>3, <1>4, Places
<1>6. Numbered(refs, counter) /\ counter \in Nat
  BY <1>1 DEF NumberedInv, AttachAlts, TypeInv
<1> DEFINE name == [i \in M |-> UserRef(counter + Below(M, i))]
           N == { name[i] : i \in M }
<1>7. /\ rule' = Appending(key, name)
      /\ refs' = Extended(refs, N, fns)
      /\ counter' = counter + count /\ call' = call /\ call = "actions"
      /\ attached' = Append(attached, Entry(key, fns))
  <2>1. PICK number : number = [i \in Matching(key) |-> counter + Cardinality({ j \in Matching(key) : j < i })]
    OBVIOUS
  <2>2. /\ rule' = Appending(key, [i \in Matching(key) |-> UserRef(number[i])])
        /\ refs' = Mapping({ UserRef(number[i]) : i \in Matching(key) }, fns)
    BY <2>1 DEF AttachAlts
  <2>3. \A i \in M : number[i] = counter + Below(M, i)
    BY <1>2, <2>1 DEF Below
  <2>4. [i \in Matching(key) |-> UserRef(number[i])] = name
    BY <1>2, <2>3
  <2>5. { UserRef(number[i]) : i \in Matching(key) } = N
    BY <1>2, <2>3
  <2>6. counter' = counter + count /\ call' = call /\ call = "actions"
        /\ attached' = Append(attached, Entry(key, fns))
    BY <1>2, <1>4 DEF AttachAlts, Entry
  <2> HIDE DEF name, N
  <2> QED BY <2>2, <2>4, <2>5, <2>6 DEF Mapping, Extended
<1>8. ASSUME NEW i \in M
      PROVE  /\ name[i] \in N /\ name[i] \in Users /\ name[i] \notin DOMAIN refs
             /\ name[i] \in AltNames \ {OwnRef, Builtin}
  <2>1. PICK k \in Nat : k = counter + Below(M, i) /\ ~(k < counter)
    BY <1>5, <1>6
  <2>2. name[i] = UserRef(k) /\ name[i] \in N
    BY <2>1
  <2>3. UserRef(k) \in Users /\ UserRef(k) \notin DOMAIN refs
    BY <1>6, <2>1 DEF Users, Numbered
  <2> QED BY <2>2, <2>3, NamesApart DEF AltNames
<1>9. DOMAIN name = M /\ \A x \in N : \E i \in M : x = name[i]
  OBVIOUS
<1>10. ASSUME NEW k \in Nat PROVE UserRef(k) \in N <=> counter <= k /\ k < counter + count
  <2>1. ASSUME UserRef(k) \in N PROVE counter <= k /\ k < counter + count
    <3>1. PICK i \in M : UserRef(k) = UserRef(counter + Below(M, i))
      BY <2>1
    <3>2. counter + Below(M, i) \in Nat /\ Below(M, i) \in 0..(count - 1)
      BY <1>5, <1>6
    <3>3. k = counter + Below(M, i)
      BY <3>1, <3>2, NamesApart
    <3> QED BY <1>6, <3>2, <3>3
  <2>2. ASSUME counter <= k, k < counter + count PROVE UserRef(k) \in N
    <3>1. k - counter \in 0..(count - 1)
      BY <1>6, <2>2
    <3>2. PICK i \in M : Below(M, i) = k - counter
      BY <1>5, <3>1
    <3>3. counter + Below(M, i) = k
      BY <1>6, <3>2
    <3>4. name[i] = UserRef(k)
      BY <3>3
    <3> QED BY <3>4
  <2> QED BY <2>1, <2>2
<1> HIDE DEF name, N
<1>11. PICK rg : rg = refs' /\ rg = Extended(refs, N, fns)
  BY <1>7
<1>12. /\ rg = [x \in DOMAIN rg |-> rg[x]] /\ DOMAIN rg = N \cup DOMAIN refs
       /\ \A x \in N : rg[x] = fns
       /\ \A x \in DOMAIN refs \ N : rg[x] = refs[x]
       /\ \A x : x \notin N => RunOf(rg, x) = RunOf(refs, x)
  BY <1>11 DEF RunOf, Extended
<1>13. rg \in [DOMAIN rg -> Seq(Things)]
  <2>1. \A x \in DOMAIN rg : rg[x] \in Seq(Things)
    BY <1>1, <1>12 DEF TypeInv
  <2> QED BY <1>12, <2>1
<1>14. MapsNames(rg)
  <2>1. \A x \in AltNames : x \in Things /\ <<x>> \in Seq(Things)
    BY DEF Things
  <2> QED BY <1>13, <2>1 DEF MapsNames, RunOf
<1>15. \A x \in N : x \in Users /\ x \notin DOMAIN refs
  BY <1>8, <1>9
<1>16. /\ rule' \in [Rules -> [Sides -> Seq(Alts)]]
       /\ attached' \in Seq([key : Keys, runs : Seq(Things)])
       /\ KnownInv' /\ AltsInv' /\ HooksInv'
  <2>0. PICK taken : taken = name
    OBVIOUS
  <2>1. DOMAIN taken = Matching(key)
    BY <1>2, <1>9, <2>0
  <2>7. rule' = Appending(key, taken) /\ refs' = rg /\ attached' = Append(attached, Entry(key, fns))
    BY <1>7, <1>11, <2>0
  <2>2. \A i \in Matching(key) : /\ taken[i] \in AltNames \ {OwnRef, Builtin} /\ RunOf(rg, taken[i]) = fns
                                 /\ taken[i] \in Users => taken[i] \in DOMAIN rg
    BY <1>2, <1>8, <1>12, <2>0 DEF RunOf
  <2>3. \A x : (x \in Users => x \in DOMAIN refs) => RunOf(rg, x) = RunOf(refs, x)
    BY <1>12, <1>15
  <2>4. \A x \in HookRefs : x \notin N
    BY <1>15, NamesApart DEF Users
  <2>5. \A x \in HookRefs : (x \in DOMAIN rg <=> x \in DOMAIN refs) /\ (x \in DOMAIN refs => rg[x] = refs[x])
    BY <1>12, <2>4
  <2>6. DOMAIN refs \subseteq DOMAIN rg
    BY <1>12
  <2> QED BY <1>1, <1>14, <2>1, <2>2, <2>3, <2>5, <2>6, <2>7, AltsAttached
<1>17. TypeInv'
  <2>1. IsFiniteSet(DOMAIN rg)
    <3>1. name \in Surjection(M, N)
      BY <1>8, <1>9 DEF Surjection, name, N
    <3>2. IsFiniteSet(N)
      BY <1>4, <3>1, FS_Surjection
    <3>3. IsFiniteSet(DOMAIN refs)
      BY <1>1 DEF TypeInv
    <3>4. IsFiniteSet(N \cup DOMAIN refs)
      BY <3>2, <3>3, FS_Union
    <3> QED BY <1>12, <3>4
  <2>2. counter' \in Nat
    BY <1>6, <1>7
  <2> QED BY <1>1, <1>11, <1>12, <1>13, <1>15, <1>16, <2>1, <2>2 DEF TypeInv
<1>18. NumberedInv'
  <2>1. counter + count \in Nat
    BY <1>6
  <2>2. ASSUME NEW k \in Nat PROVE UserRef(k) \in DOMAIN rg <=> k < counter + count
    <3>1. UserRef(k) \in DOMAIN rg <=> (counter <= k /\ k < counter + count) \/ k < counter
      BY <1>6, <1>10, <1>12 DEF Numbered
    <3> QED BY <1>6, <3>1
  <2>3. Numbered(rg, counter + count)
    BY <2>2 DEF Numbered
  <2> QED BY <1>7, <1>11, <2>1, <2>3 DEF NumberedInv
<1> QED BY <1>16, <1>17, <1>18 DEF ActionsInv

(* A slot is no user ref and has no function yet.                          *)
LEMMA SlotHolds ==
    ASSUME ActionsInv, NEW key \in AltKeys, AttachSlot(key)
    PROVE  ActionsInv'
<1>1. TypeInv /\ NumberedInv /\ KnownInv /\ AltsInv /\ HooksInv
  BY DEF ActionsInv
<1>2. PICK slot \in Slots : slot = SlotName(key)
  BY KeysApart
<1>3. PICK name : name = [i \in Matching(key) |-> slot]
  OBVIOUS
<1>4. slot \in AltNames \ {OwnRef, Builtin} /\ slot \notin Users /\ slot \notin HookRefs
  BY <1>2, NamesApart DEF AltNames, Users
<1>5. slot \notin DOMAIN refs
  BY <1>1, <1>4 DEF TypeInv
<1>6. PICK fns \in Seq(Things) : fns = <<slot>>
  <2>1. slot \in Things
    BY <1>4 DEF Things
  <2>2. <<slot>> \in Seq(Things)
    BY <2>1
  <2> QED BY <2>2
<1>7. /\ rule' = Appending(key, name) /\ refs' = refs /\ attached' = Append(attached, Entry(key, fns))
      /\ UNCHANGED <<call, counter>>
  BY <1>2, <1>3, <1>6 DEF AttachSlot, Entry
<1>8. DOMAIN name = Matching(key) /\ \A i \in Matching(key) : name[i] = slot
  BY <1>3
<1>9. RunOf(refs, slot) = fns
  BY <1>5, <1>6 DEF RunOf
<1>10. \A i \in Matching(key) : /\ name[i] \in AltNames \ {OwnRef, Builtin} /\ RunOf(refs, name[i]) = fns
                                /\ name[i] \in Users => name[i] \in DOMAIN refs
  BY <1>4, <1>8, <1>9
<1>11. MapsNames(refs)
  BY <1>1, RefsMap
<1>12. /\ rule' \in [Rules -> [Sides -> Seq(Alts)]]
       /\ attached' \in Seq([key : Keys, runs : Seq(Things)])
       /\ KnownInv' /\ AltsInv' /\ HooksInv'
  BY <1>1, <1>7, <1>8, <1>10, <1>11, AltsAttached
<1>13. TypeInv'
  BY <1>1, <1>7, <1>12 DEF TypeInv
<1>14. NumberedInv'
  BY <1>1, <1>7 DEF NumberedInv, Numbered
<1> QED BY <1>12, <1>13, <1>14 DEF ActionsInv

-----------------------------------------------------------------------------
LEMMA StepHolds == ActionsInv /\ [Next]_vars => ActionsInv'
<1> SUFFICES ASSUME ActionsInv, [Next]_vars PROVE ActionsInv'
  OBVIOUS
<1>1. ASSUME NEW kind \in {"actions", "slots"}, Begin(kind) PROVE ActionsInv'
  BY <1>1, BeginHolds
<1>2. ASSUME NEW key \in Hooks, NEW fns \in Lists, AttachHook(key, fns) PROVE ActionsInv'
  BY <1>2, HookHolds
<1>3. ASSUME NEW key \in AltKeys, NEW fns \in Lists, AttachAlts(key, fns) PROVE ActionsInv'
  BY <1>3, AltsHold
<1>4. ASSUME NEW key \in AltKeys, AttachSlot(key) PROVE ActionsInv'
  BY <1>4, SlotHolds
<1>5. CASE \E key \in Hooks \cup AltKeys \cup BadKeys : Fail(key)
  BY <1>5, EndHolds DEF Fail
<1>6. CASE Return
  BY <1>6, EndHolds DEF Return
<1>7. CASE UNCHANGED vars
  BY <1>7, EndHolds DEF vars
<1> QED BY <1>1, <1>2, <1>3, <1>4, <1>5, <1>6, <1>7 DEF Next

(* User refs are numbered without a gap, no alternate holds one that is    *)
(* still to be handed out, and every alternate and hook runs what was      *)
(* asked of it, whatever calls were made and wherever they failed          *)
(* (attach_actions, attach_action_slots).                                  *)
THEOREM ActionsInvariant == Spec => []ActionsInv
BY InitHolds, StepHolds, PTL DEF Spec

(* "The functions run AFTER the compiler's own action, in attachment       *)
(* order" (attach_actions), for every set of rules, marks and functions.   *)
THEOREM RunInOrder == Spec => []RunsInOrder
<1>1. ActionsInv => RunsInOrder
  BY SaysInOrder DEF ActionsInv
<1> QED BY <1>1, ActionsInvariant, PTL
=============================================================================
