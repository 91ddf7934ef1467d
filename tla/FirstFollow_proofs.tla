------------------------- MODULE FirstFollow_proofs -------------------------
(***************************************************************************)
(* Proofs about FirstFollow: the three fixed points, computed in place and *)
(* one after the other, are what the words of the rules say they are, in   *)
(* every grammar.                                                          *)
(***************************************************************************)
EXTENDS FirstFollow, Induction

\* Sequences of at most two tokens.
Beginnings(T) == { w \in Seq(T) : Len(w) <= 2 }

-----------------------------------------------------------------------------
(* The first two tokens of two sequences put together.                     *)
LEMMA ShortFacts ==
    ASSUME NEW T, NEW u \in Beginnings(T), NEW v \in Beginnings(T)
    PROVE  /\ Short(u \o v, 2) \in Beginnings(T)
           /\ u = <<>> => Short(u \o v, 2) = v
           /\ v = <<>> => Short(u \o v, 2) = u
           /\ u # <<>> => Short(u \o v, 2) # <<>> /\ Short(u \o v, 2)[1] = u[1]
           /\ Len(u) = 2 => Short(u \o v, 2) = u
           /\ Len(u) = 1 /\ v # <<>> => Short(u \o v, 2) = << u[1], v[1] >>
<1>1. /\ u \in Seq(T) /\ v \in Seq(T) /\ Len(u) \in 0..2 /\ Len(v) \in 0..2
      /\ DOMAIN u = 1..Len(u) /\ DOMAIN v = 1..Len(v)
  <2>1. u \in Seq(T) /\ Len(u) <= 2 /\ v \in Seq(T) /\ Len(v) <= 2
    BY DEF Beginnings
  <2>2. Len(u) \in Nat /\ Len(v) \in Nat /\ DOMAIN u = 1..Len(u) /\ DOMAIN v = 1..Len(v)
    BY <2>1
  <2> QED BY <2>1, <2>2
<1> DEFINE w == u \o v
           n == IF Len(w) < 2 THEN Len(w) ELSE 2
<1>2. /\ w \in Seq(T) /\ Len(w) = Len(u) + Len(v)
      /\ \A k \in 1..(Len(u) + Len(v)) : w[k] = IF k <= Len(u) THEN u[k] ELSE v[k - Len(u)]
  BY <1>1
<1> HIDE DEF w
<1>3. n \in 0..2 /\ n <= Len(w)
  BY <1>1, <1>2
<1>4. PICK s : s = Short(w, 2)
  OBVIOUS
<1>5. s = SubSeq(w, 1, n)
  BY <1>4 DEF Short
<1> HIDE DEF n
<1>6. s \in Seq(T) /\ Len(s) = n /\ \A k \in 1..n : s[k] = w[k]
  BY <1>2, <1>3, <1>5
<1>7. s \in Beginnings(T)
  BY <1>3, <1>6 DEF Beginnings
<1>10. ASSUME v = <<>> PROVE s = u
  <2>1. Len(v) = 0
    BY <1>10
  <2>2. Len(s) = Len(u) /\ \A k \in 1..Len(u) : s[k] = u[k]
    BY <1>1, <1>2, <1>6, <2>1 DEF n
  <2> QED BY <1>1, <1>6, <2>2
<1>8. CASE u = <<>>
  <2>1. Len(s) = Len(v) /\ \A k \in 1..Len(v) : s[k] = v[k]
    BY <1>1, <1>2, <1>6, <1>8 DEF n
  <2>2. s = v
    BY <1>1, <1>6, <2>1
  <2>3. Len(u) = 0
    BY <1>8
  <2> QED BY <1>4, <1>7, <1>8, <1>10, <2>2, <2>3 DEF w
<1>9. CASE u # <<>>
  <2>1. Len(u) \in 1..2
    BY <1>1, <1>9
  <2>2. n \in 1..2
    BY <1>1, <1>2, <2>1 DEF n
  <2>3. s # <<>> /\ s[1] = u[1]
    BY <1>1, <1>2, <1>6, <2>1, <2>2
  <2>4. ASSUME Len(u) = 2 PROVE s = u
    <3>1. n = 2
      BY <1>1, <1>2, <2>4 DEF n
    <3>2. Len(s) = Len(u) /\ \A k \in 1..Len(u) : s[k] = u[k]
      BY <1>1, <1>2, <1>6, <2>4, <3>1
    <3> QED BY <1>1, <1>6, <3>2
  <2>5. ASSUME Len(u) = 1, v # <<>> PROVE s = << u[1], v[1] >>
    <3>1. Len(v) \in 1..2
      BY <1>1, <2>5
    <3>2. n = 2
      BY <1>1, <1>2, <2>5, <3>1 DEF n
    <3>3. s[1] = u[1] /\ s[2] = v[1]
      BY <1>1, <1>2, <1>6, <2>5, <3>1, <3>2
    <3> QED BY <1>6, <3>2, <3>3
  <2> QED BY <1>4, <1>7, <1>9, <1>10, <2>3, <2>4, <2>5 DEF w
<1> QED BY <1>8, <1>9

(* What is joined is made of one of each.                                  *)
LEMMA JoinFacts ==
    ASSUME NEW A, NEW B, NEW n
    PROVE  /\ \A u \in A, v \in B : Short(u \o v, n) \in Join(A, B, n)
           /\ \A w \in Join(A, B, n) : \E u \in A, v \in B : w = Short(u \o v, n)
<1>1. ASSUME NEW u \in A, NEW v \in B PROVE Short(u \o v, n) \in Join(A, B, n)
  <2>1. PICK p \in A \X B : p[1] = u /\ p[2] = v
    <3>1. << u, v >> \in A \X B /\ << u, v >>[1] = u /\ << u, v >>[2] = v
      OBVIOUS
    <3> QED BY <3>1, Zenon
  <2> QED BY <2>1 DEF Join
<1>2. ASSUME NEW w \in Join(A, B, n) PROVE \E u \in A, v \in B : w = Short(u \o v, n)
  <2>1. PICK p \in A \X B : w = Short(p[1] \o p[2], n)
    BY DEF Join
  <2>2. p[1] \in A /\ p[2] \in B
    OBVIOUS
  <2> QED BY <2>1, <2>2
<1> QED BY <1>1, <1>2

LEMMA JoinType ==
    ASSUME NEW T, NEW A \in SUBSET Beginnings(T), NEW B \in SUBSET Beginnings(T)
    PROVE  Join(A, B, 2) \in SUBSET Beginnings(T)
BY ShortFacts, JoinFacts

\* upto is what the elements of a sequence, one after the other, begin with.
Unfolds(upto, seq, env, T) ==
    /\ upto[0] = {<<>>}
    /\ \A k \in 1..Len(seq) : upto[k] = Join(upto[k - 1], Starts(seq[k], env), 2)
    /\ \A k \in 0..Len(seq) : upto[k] \in SUBSET Beginnings(T)

Typed(seq, env, T) == \A k \in 1..Len(seq) : Starts(seq[k], env) \in SUBSET Beginnings(T)

LEMMA SeqStartsUnfolds ==
    ASSUME NEW T, NEW seq, NEW env, IsSequence(seq), Typed(seq, env, T)
    PROVE  \E upto : Unfolds(upto, seq, env, T) /\ SeqStarts(seq, env, 2) = upto[Len(seq)]
<1> DEFINE S == SUBSET Beginnings(T)
<1>1. PICK size \in Nat : size = Len(seq)
  BY DEF IsSequence
<1> DEFINE step == [k \in 1..size |-> [A \in S |-> Join(A, Starts(seq[k], env), 2)]]
<1>2. \A k \in 1..size, A \in S : step[k][A] = Join(A, Starts(seq[k], env), 2) /\ step[k][A] \in S
  BY <1>1, JoinType DEF Typed
<1> HIDE DEF step
<1>3. {<<>>} \in S
  BY DEF Beginnings
<1> HIDE DEF S
<1>4. Steps(step, S, size)
  BY <1>2 DEF Steps
<1>5. PICK f : Follows(f, step, S, {<<>>}, size)
  BY <1>3, <1>4, Recursion
<1> DEFINE Defines(h) == h = [k \in 0..size |-> IF k = 0 THEN {<<>>} ELSE Join(h[k - 1], Starts(seq[k], env), 2)]
           upto == CHOOSE h : Defines(h)
<1>6. Defines(f)
  <2>1. ASSUME NEW k \in 0..size
        PROVE  f[k] = IF k = 0 THEN {<<>>} ELSE Join(f[k - 1], Starts(seq[k], env), 2)
    <3>1. CASE k = 0
      BY <3>1, <1>5 DEF Follows
    <3>2. CASE k # 0
      <4>1. k \in 1..size
        BY <3>2
      <4>2. f[k - 1] \in S /\ f[k] = step[k][f[k - 1]]
        BY <4>1, <1>5 DEF Follows
      <4> QED BY <4>1, <4>2, <1>2, <3>2
    <3> QED BY <3>1, <3>2
  <2>2. f = [k \in 0..size |-> f[k]]
    BY <1>5 DEF Follows
  <2> HIDE DEF upto
  <2> QED BY <2>1, <2>2, Zenon
<1>7. Defines(upto)
  <2> HIDE DEF Defines
  <2> QED BY <1>6
<1>8. SeqStarts(seq, env, 2) = upto[Len(seq)]
  BY <1>1 DEF SeqStarts
<1> HIDE DEF upto
<1>9. upto[0] = {<<>>} /\ \A k \in 1..size : upto[k] = Join(upto[k - 1], Starts(seq[k], env), 2)
  <2>1. ASSUME NEW k \in 0..size
        PROVE  upto[k] = IF k = 0 THEN {<<>>} ELSE Join(upto[k - 1], Starts(seq[k], env), 2)
    BY <1>7, Zenon
  <2>2. 0 \in 0..size /\ \A k \in 1..size : k \in 0..size /\ k # 0
    OBVIOUS
  <2> QED BY <2>1, <2>2, Zenon
<1> DEFINE H == { k \in 0..size : upto[k] \in S }
<1>10. 0 \in H
  <2>1. upto[0] \in S
    BY <1>3, <1>9, Zenon
  <2> QED BY <2>1
<1>11. \A k \in 1..size : k - 1 \in H => k \in H
  <2> SUFFICES ASSUME NEW k \in 1..size, upto[k - 1] \in S PROVE upto[k] \in S
    OBVIOUS
  <2>1. upto[k] = step[k][upto[k - 1]] /\ step[k][upto[k - 1]] \in S
    BY <1>2, <1>9
  <2> QED BY <2>1
<1>12. \A k \in 0..size : k \in H
  <2> HIDE DEF H
  <2> QED BY <1>10, <1>11, Induct
<1>13. \A k \in 0..size : upto[k] \in S
  BY <1>12 DEF H
<1> QED BY <1>1, <1>8, <1>9, <1>13 DEF Unfolds, S

-----------------------------------------------------------------------------
(* What of two sets of beginnings shows in the joined one.                 *)
LEMMA JoinShows ==
    ASSUME NEW T, NEW A \in SUBSET Beginnings(T), NEW B \in SUBSET Beginnings(T)
    PROVE  /\ <<>> \in Join(A, B, 2) <=> <<>> \in A /\ <<>> \in B
           /\ \A w \in Join(A, B, 2) : w # <<>> =>
                 \/ \E u \in A : u # <<>> /\ u[1] = w[1]
                 \/ <<>> \in A /\ \E v \in B : v # <<>> /\ v[1] = w[1]
<1>1. \A u \in A, v \in B : u \in Beginnings(T) /\ v \in Beginnings(T)
  OBVIOUS
<1>2. ASSUME NEW w \in Join(A, B, 2)
      PROVE  /\ w = <<>> => <<>> \in A /\ <<>> \in B
             /\ w # <<>> =>
                   \/ \E u \in A : u # <<>> /\ u[1] = w[1]
                   \/ <<>> \in A /\ \E v \in B : v # <<>> /\ v[1] = w[1]
  <2>1. PICK u \in A, v \in B : w = Short(u \o v, 2)
    BY JoinFacts
  <2>2. CASE u = <<>>
    <3>1. w = v
      BY <1>1, <2>1, <2>2, ShortFacts
    <3> QED BY <2>2, <3>1
  <2>3. CASE u # <<>>
    <3>1. w # <<>> /\ w[1] = u[1]
      BY <1>1, <2>1, <2>3, ShortFacts
    <3> QED BY <2>3, <3>1
  <2> QED BY <2>2, <2>3
<1>3. ASSUME <<>> \in A, <<>> \in B PROVE <<>> \in Join(A, B, 2)
  <2>1. Short(<<>> \o <<>>, 2) = <<>>
    BY <1>1, <1>3, ShortFacts
  <2>2. Short(<<>> \o <<>>, 2) \in Join(A, B, 2)
    BY <1>3, JoinFacts
  <2> QED BY <2>1, <2>2
<1> QED BY <1>2, <1>3

(* What becomes of one beginning when others are joined to it.             *)
LEMMA JoinCarries ==
    ASSUME NEW T, NEW A \in SUBSET Beginnings(T), NEW B \in SUBSET Beginnings(T), NEW u \in A
    PROVE  /\ <<>> \in B => u \in Join(A, B, 2)
           /\ B # {} /\ Len(u) = 2 => u \in Join(A, B, 2)
           /\ B # {} /\ u # <<>> => \E w \in Join(A, B, 2) : w # <<>> /\ w[1] = u[1]
           /\ u = <<>> => B \subseteq Join(A, B, 2)
           /\ Len(u) = 1 => \A v \in B : v # <<>> => << u[1], v[1] >> \in Join(A, B, 2)
<1>1. u \in Beginnings(T)
  OBVIOUS
<1>2. ASSUME NEW v \in B
      PROVE  /\ v \in Beginnings(T) /\ Short(u \o v, 2) \in Join(A, B, 2)
             /\ v = <<>> => u \in Join(A, B, 2)
             /\ Len(u) = 2 => u \in Join(A, B, 2)
             /\ u # <<>> => \E w \in Join(A, B, 2) : w # <<>> /\ w[1] = u[1]
             /\ u = <<>> => v \in Join(A, B, 2)
             /\ Len(u) = 1 /\ v # <<>> => << u[1], v[1] >> \in Join(A, B, 2)
  <2>1. v \in Beginnings(T) /\ Short(u \o v, 2) \in Join(A, B, 2)
    BY JoinFacts
  <2>2. PICK w \in Join(A, B, 2) : w = Short(u \o v, 2)
    BY <2>1
  <2>3. /\ u = <<>> => w = v
        /\ v = <<>> => w = u
        /\ u # <<>> => w # <<>> /\ w[1] = u[1]
        /\ Len(u) = 2 => w = u
        /\ Len(u) = 1 /\ v # <<>> => w = << u[1], v[1] >>
    BY <1>1, <2>1, <2>2, ShortFacts
  <2> QED BY <2>1, <2>2, <2>3
<1> QED BY <1>2

-----------------------------------------------------------------------------
(* What a sequence begins with, by what its elements do.                   *)
LEMMA SeqVanishing ==
    ASSUME NEW T, NEW seq, NEW env, IsSequence(seq), Typed(seq, env, T)
    PROVE  <<>> \in SeqStarts(seq, env, 2) <=> \A k \in DOMAIN seq : <<>> \in Starts(seq[k], env)
<1>1. PICK upto : Unfolds(upto, seq, env, T) /\ SeqStarts(seq, env, 2) = upto[Len(seq)]
  BY SeqStartsUnfolds
<1>2. PICK size \in Nat : size = Len(seq) /\ DOMAIN seq = 1..size
  BY DEF IsSequence
<1> DEFINE H == { k \in 0..size : <<>> \in upto[k] <=> \A m \in 1..k : <<>> \in Starts(seq[m], env) }
<1>3. 0 \in H
  <2>1. <<>> \in upto[0]
    BY <1>1 DEF Unfolds
  <2> QED BY <2>1
<1>4. \A k \in 1..size : k - 1 \in H => k \in H
  <2> SUFFICES ASSUME NEW k \in 1..size, k - 1 \in H PROVE k \in H
    OBVIOUS
  <2>1. upto[k - 1] \in SUBSET Beginnings(T) /\ Starts(seq[k], env) \in SUBSET Beginnings(T)
        /\ upto[k] = Join(upto[k - 1], Starts(seq[k], env), 2)
    BY <1>1, <1>2 DEF Unfolds, Typed
  <2>2. <<>> \in upto[k] <=> <<>> \in upto[k - 1] /\ <<>> \in Starts(seq[k], env)
    BY <2>1, JoinShows
  <2>3. \A m : m \in 1..k <=> m \in 1..(k - 1) \/ m = k
    OBVIOUS
  <2>4. <<>> \in upto[k - 1] <=> \A m \in 1..(k - 1) : <<>> \in Starts(seq[m], env)
    OBVIOUS
  <2>5. <<>> \in upto[k] <=> \A m \in 1..k : <<>> \in Starts(seq[m], env)
    BY <2>2, <2>3, <2>4
  <2> QED BY <2>5
<1>5. \A k \in 0..size : k \in H
  <2> HIDE DEF H
  <2> QED BY <1>3, <1>4, Induct
<1>6. size \in H
  BY <1>5
<1> QED BY <1>1, <1>2, <1>6

LEMMA SeqHeads ==
    ASSUME NEW T, NEW seq, NEW env, IsSequence(seq), Typed(seq, env, T),
           NEW w \in SeqStarts(seq, env, 2), w # <<>>
    PROVE  \E j \in DOMAIN seq : /\ \A m \in 1..(j - 1) : <<>> \in Starts(seq[m], env)
                                 /\ \E u \in Starts(seq[j], env) : u # <<>> /\ u[1] = w[1]
<1>1. PICK upto : Unfolds(upto, seq, env, T) /\ SeqStarts(seq, env, 2) = upto[Len(seq)]
  BY SeqStartsUnfolds
<1>2. PICK size \in Nat : size = Len(seq) /\ DOMAIN seq = 1..size
  BY DEF IsSequence
<1> DEFINE Empties(j) == \A m \in 1..(j - 1) : <<>> \in Starts(seq[m], env)
           From(j, x) == \E u \in Starts(seq[j], env) : u # <<>> /\ u[1] = x[1]
           Vanished(k) == <<>> \in upto[k] => \A m \in 1..k : <<>> \in Starts(seq[m], env)
           Begun(k) == \A x \in upto[k] : x # <<>> => \E j \in 1..k : Empties(j) /\ From(j, x)
           H == { k \in 0..size : Vanished(k) /\ Begun(k) }
<1>3. 0 \in H
  <2>1. \A x \in upto[0] : x = <<>>
    BY <1>1 DEF Unfolds
  <2>2. Vanished(0)
    OBVIOUS
  <2>3. Begun(0)
    BY <2>1
  <2> QED BY <2>2, <2>3
<1>4. \A k \in 1..size : k - 1 \in H => k \in H
  <2> SUFFICES ASSUME NEW k \in 1..size, k - 1 \in H PROVE k \in H
    OBVIOUS
  <2>1. upto[k - 1] \in SUBSET Beginnings(T) /\ Starts(seq[k], env) \in SUBSET Beginnings(T)
        /\ upto[k] = Join(upto[k - 1], Starts(seq[k], env), 2)
    BY <1>1, <1>2 DEF Unfolds, Typed
  <2>2. Vanished(k - 1) /\ Begun(k - 1)
    OBVIOUS
  <2>3. k \in Nat /\ k - 1 \in Nat /\ \A m : m \in 1..k <=> m \in 1..(k - 1) \/ m = k
    OBVIOUS
  <2>4. Vanished(k)
    <3>1. <<>> \in upto[k] <=> <<>> \in upto[k - 1] /\ <<>> \in Starts(seq[k], env)
      BY <2>1, JoinShows
    <3> QED BY <2>2, <2>3, <3>1
  <2>5. ASSUME NEW x \in upto[k], x # <<>> PROVE \E j \in 1..k : Empties(j) /\ From(j, x)
    <3>1. \/ \E u \in upto[k - 1] : u # <<>> /\ u[1] = x[1]
          \/ <<>> \in upto[k - 1] /\ \E v \in Starts(seq[k], env) : v # <<>> /\ v[1] = x[1]
      BY <2>1, <2>5, JoinShows
    <3>2. CASE \E u \in upto[k - 1] : u # <<>> /\ u[1] = x[1]
      <4>1. PICK u \in upto[k - 1] : u # <<>> /\ u[1] = x[1]
        BY <3>2
      <4>2. PICK j \in 1..(k - 1) : Empties(j) /\ From(j, u)
        <5> HIDE DEF Empties, From
        <5> QED BY <2>2, <4>1
      <4>3. From(j, x)
        BY <4>1, <4>2
      <4> HIDE DEF Empties, From
      <4> QED BY <2>3, <4>2, <4>3
    <3>3. CASE <<>> \in upto[k - 1] /\ \E v \in Starts(seq[k], env) : v # <<>> /\ v[1] = x[1]
      <4>1. Empties(k) /\ From(k, x)
        BY <2>2, <3>3
      <4> HIDE DEF Empties, From
      <4> QED BY <2>3, <4>1
    <3> QED BY <3>1, <3>2, <3>3
  <2>6. Begun(k)
    BY <2>5
  <2> HIDE DEF Begun, Vanished
  <2> QED BY <2>4, <2>6
<1>5. \A k \in 0..size : k \in H
  <2> HIDE DEF H
  <2> QED BY <1>3, <1>4, Induct
<1>6. Begun(size)
  <2> HIDE DEF Begun, Vanished
  <2> QED BY <1>5
<1>7. \E j \in 1..size : Empties(j) /\ From(j, w)
  <2> HIDE DEF Empties, From
  <2> QED BY <1>1, <1>2, <1>6
<1> QED BY <1>2, <1>7

(* What is begun with at one place of a sequence and what follows it.      *)
LEMMA Kept ==
    ASSUME NEW T, NEW seq, NEW env, NEW upto, IsSequence(seq), Typed(seq, env, T), Unfolds(upto, seq, env, T),
           NEW i \in 0..Len(seq), NEW u \in upto[i], NEW j \in i..Len(seq),
           \A k \in (i + 1)..j : <<>> \in Starts(seq[k], env)
    PROVE  u \in upto[j]
<1>1. PICK size \in Nat : size = Len(seq) /\ i \in 0..size /\ j \in i..size /\ j \in 0..size
  <2>1. PICK size \in Nat : size = Len(seq)
    BY DEF IsSequence
  <2>2. i \in 0..size /\ j \in i..size
    BY <2>1
  <2>3. j \in 0..size
    BY <2>2
  <2> QED BY <2>1, <2>2, <2>3
<1> DEFINE H == { k \in 0..size : i <= k /\ k <= j => u \in upto[k] }
<1>2. 0 \in H
  BY <1>1
<1>3. \A k \in 1..size : k - 1 \in H => k \in H
  <2> SUFFICES ASSUME NEW k \in 1..size, k - 1 \in H, i <= k, k <= j PROVE u \in upto[k]
    OBVIOUS
  <2>1. CASE k = i
    BY <2>1
  <2>2. CASE k # i
    <3>1. i <= k - 1 /\ k - 1 <= j /\ k \in (i + 1)..j
      BY <1>1, <2>2
    <3>2. u \in upto[k - 1] /\ <<>> \in Starts(seq[k], env)
      BY <3>1
    <3>3. upto[k - 1] \in SUBSET Beginnings(T) /\ Starts(seq[k], env) \in SUBSET Beginnings(T)
          /\ upto[k] = Join(upto[k - 1], Starts(seq[k], env), 2)
      BY <1>1 DEF Unfolds, Typed
    <3> QED BY <3>2, <3>3, JoinCarries
  <2> QED BY <2>1, <2>2
<1>4. \A k \in 0..size : k \in H
  <2> HIDE DEF H
  <2> QED BY <1>2, <1>3, Induct
<1>5. j \in H /\ i <= j
  BY <1>1, <1>4
<1> QED BY <1>1, <1>5

LEMMA Carried ==
    ASSUME NEW T, NEW seq, NEW env, NEW upto, IsSequence(seq), Typed(seq, env, T), Unfolds(upto, seq, env, T),
           NEW i \in 0..Len(seq), NEW u \in upto[i], u # <<>>,
           \A k \in 1..Len(seq) : Starts(seq[k], env) # {}
    PROVE  /\ \E w \in upto[Len(seq)] : w # <<>> /\ w[1] = u[1]
           /\ Len(u) = 2 => u \in upto[Len(seq)]
<1>1. PICK size \in Nat : size = Len(seq) /\ i \in 0..size
  BY DEF IsSequence
<1> DEFINE Begins(k) == \E w \in upto[k] : w # <<>> /\ w[1] = u[1]
           Whole(k) == Len(u) = 2 => u \in upto[k]
           H == { k \in 0..size : i <= k => Begins(k) /\ Whole(k) }
<1>2. Begins(i) /\ Whole(i)
  OBVIOUS
<1>3. 0 \in H
  <2> HIDE DEF Begins, Whole
  <2> QED BY <1>1, <1>2
<1>4. \A k \in 1..size : k - 1 \in H => k \in H
  <2> SUFFICES ASSUME NEW k \in 1..size, k - 1 \in H, i <= k PROVE Begins(k) /\ Whole(k)
    OBVIOUS
  <2>1. CASE k = i
    BY <1>2, <2>1
  <2>2. CASE k # i
    <3>1. i <= k - 1
      BY <1>1, <2>2
    <3>2. Begins(k - 1) /\ Whole(k - 1)
      <4> HIDE DEF Begins, Whole
      <4> QED BY <3>1
    <3>3. upto[k - 1] \in SUBSET Beginnings(T) /\ Starts(seq[k], env) \in SUBSET Beginnings(T)
          /\ upto[k] = Join(upto[k - 1], Starts(seq[k], env), 2) /\ Starts(seq[k], env) # {}
      BY <1>1 DEF Unfolds, Typed
    <3>4. Begins(k)
      <4>1. PICK v \in upto[k - 1] : v # <<>> /\ v[1] = u[1]
        BY <3>2
      <4>2. \E w \in upto[k] : w # <<>> /\ w[1] = v[1]
        BY <3>3, <4>1, JoinCarries
      <4> QED BY <4>1, <4>2
    <3>5. Whole(k)
      BY <3>2, <3>3, JoinCarries
    <3> QED BY <3>4, <3>5
  <2> QED BY <2>1, <2>2
<1>5. \A k \in 0..size : k \in H
  <2> HIDE DEF H
  <2> QED BY <1>3, <1>4, Induct
<1>6. size \in H /\ i <= size
  BY <1>1, <1>5
<1>7. Begins(size) /\ Whole(size)
  <2> HIDE DEF Begins, Whole
  <2> QED BY <1>6
<1> QED BY <1>1, <1>7

(* Elements that vanish pass what comes after them to the front.           *)
LEMMA Fronted ==
    ASSUME NEW T, NEW seq, NEW env, NEW upto, IsSequence(seq), Typed(seq, env, T), Unfolds(upto, seq, env, T),
           NEW j \in 1..Len(seq), \A m \in 1..(j - 1) : <<>> \in Starts(seq[m], env)
    PROVE  Starts(seq[j], env) \subseteq upto[j]
<1>1. /\ 0 \in 0..Len(seq) /\ j - 1 \in 0..Len(seq) /\ <<>> \in upto[0]
      /\ \A k \in (0 + 1)..(j - 1) : <<>> \in Starts(seq[k], env)
  BY DEF IsSequence, Unfolds
<1>2. <<>> \in upto[j - 1]
  BY <1>1, Kept
<1>3. upto[j - 1] \in SUBSET Beginnings(T) /\ Starts(seq[j], env) \in SUBSET Beginnings(T)
      /\ upto[j] = Join(upto[j - 1], Starts(seq[j], env), 2)
  BY <1>1 DEF Unfolds, Typed
<1>4. Starts(seq[j], env) \subseteq Join(upto[j - 1], Starts(seq[j], env), 2)
  <2>1. PICK A \in SUBSET Beginnings(T), B \in SUBSET Beginnings(T) : A = upto[j - 1] /\ B = Starts(seq[j], env)
    BY <1>3
  <2>2. <<>> \in A
    BY <1>2, <2>1
  <2>3. B \subseteq Join(A, B, 2)
    BY <2>2, JoinCarries
  <2> QED BY <2>1, <2>3
<1> QED BY <1>3, <1>4

(* A sequence begins with what an element before which all can vanish      *)
(* does, unless some element derives nothing.                              *)
LEMMA SeqBegins ==
    ASSUME NEW T, NEW seq, NEW env, IsSequence(seq), Typed(seq, env, T),
           NEW j \in DOMAIN seq, \A m \in 1..(j - 1) : <<>> \in Starts(seq[m], env),
           NEW u \in Starts(seq[j], env), u # <<>>,
           \A k \in DOMAIN seq : Starts(seq[k], env) # {}
    PROVE  \E w \in SeqStarts(seq, env, 2) : w # <<>> /\ w[1] = u[1]
<1>1. PICK upto : Unfolds(upto, seq, env, T) /\ SeqStarts(seq, env, 2) = upto[Len(seq)]
  BY SeqStartsUnfolds
<1>2. Len(seq) \in Nat /\ DOMAIN seq = 1..Len(seq) /\ j \in 1..Len(seq) /\ j \in 0..Len(seq)
  BY DEF IsSequence
<1>3. u \in upto[j]
  BY <1>1, <1>2, Fronted
<1>4. \A k \in 1..Len(seq) : Starts(seq[k], env) # {}
  BY <1>2
<1>5. \E w \in upto[Len(seq)] : w # <<>> /\ w[1] = u[1]
  BY <1>1, <1>2, <1>3, <1>4, Carried
<1> QED BY <1>1, <1>5

(* The same of a token and what comes after it.                            *)
LEMMA SeqBeginsWithTwo ==
    ASSUME NEW T, NEW seq, NEW env, IsSequence(seq), Typed(seq, env, T),
           NEW i \in DOMAIN seq, NEW j \in DOMAIN seq, i < j, NEW t, << t >> \in Starts(seq[i], env),
           \A m \in 1..(j - 1) : m # i => <<>> \in Starts(seq[m], env),
           NEW u \in Starts(seq[j], env), u # <<>>,
           \A k \in DOMAIN seq : Starts(seq[k], env) # {}
    PROVE  << t, u[1] >> \in SeqStarts(seq, env, 2)
<1>1. PICK upto : Unfolds(upto, seq, env, T) /\ SeqStarts(seq, env, 2) = upto[Len(seq)]
  BY SeqStartsUnfolds
<1>2. PICK size \in Nat : size = Len(seq) /\ DOMAIN seq = 1..size
  BY DEF IsSequence
<1>3. PICK v : v = << t >> /\ Len(v) = 1 /\ v[1] = t
  <2>1. << t >> = << t >> /\ Len(<< t >>) = 1 /\ << t >>[1] = t
    OBVIOUS
  <2> QED BY <2>1, Zenon
<1>4. v \in upto[i]
  BY <1>1, <1>2, <1>3, Fronted
<1>5. v \in upto[j - 1]
  <2>1. /\ i \in 0..Len(seq) /\ j - 1 \in i..Len(seq)
        /\ \A k \in (i + 1)..(j - 1) : <<>> \in Starts(seq[k], env)
    BY <1>2
  <2> QED BY <1>1, <1>4, <2>1, Kept
<1>6. upto[j - 1] \in SUBSET Beginnings(T) /\ Starts(seq[j], env) \in SUBSET Beginnings(T)
      /\ upto[j] = Join(upto[j - 1], Starts(seq[j], env), 2)
  BY <1>1, <1>2 DEF Unfolds, Typed
<1>7. << v[1], u[1] >> \in upto[j]
  <2>1. \A y \in Starts(seq[j], env) : y # <<>> => << v[1], y[1] >> \in Join(upto[j - 1], Starts(seq[j], env), 2)
    BY <1>3, <1>5, <1>6, JoinCarries
  <2> QED BY <1>6, <2>1
<1>8. PICK x : x = << v[1], u[1] >> /\ Len(x) = 2 /\ x # <<>>
  <2>1. << v[1], u[1] >> = << v[1], u[1] >> /\ Len(<< v[1], u[1] >>) = 2 /\ << v[1], u[1] >> # <<>>
    OBVIOUS
  <2> QED BY <2>1, Zenon
<1>9. x \in upto[Len(seq)]
  <2>1. x \in upto[j] /\ j \in 0..Len(seq) /\ \A k \in 1..Len(seq) : Starts(seq[k], env) # {}
    BY <1>2, <1>7, <1>8
  <2> QED BY <1>1, <1>8, <2>1, Carried
<1> QED BY <1>1, <1>3, <1>8, <1>9

(* The same of a token when all else can vanish.                           *)
LEMMA SeqBeginsWithOne ==
    ASSUME NEW T, NEW seq, NEW env, IsSequence(seq), Typed(seq, env, T),
           NEW i \in DOMAIN seq, NEW t, << t >> \in Starts(seq[i], env),
           \A m \in DOMAIN seq : m # i => <<>> \in Starts(seq[m], env)
    PROVE  << t >> \in SeqStarts(seq, env, 2)
<1>1. PICK upto : Unfolds(upto, seq, env, T) /\ SeqStarts(seq, env, 2) = upto[Len(seq)]
  BY SeqStartsUnfolds
<1>2. PICK size \in Nat : size = Len(seq) /\ DOMAIN seq = 1..size
  BY DEF IsSequence
<1>3. PICK v : v = << t >>
  OBVIOUS
<1>4. v \in upto[i]
  BY <1>1, <1>2, <1>3, Fronted
<1>5. /\ i \in 0..Len(seq) /\ Len(seq) \in i..Len(seq)
      /\ \A k \in (i + 1)..Len(seq) : <<>> \in Starts(seq[k], env)
  BY <1>2
<1> QED BY <1>1, <1>3, <1>4, <1>5, Kept

-----------------------------------------------------------------------------
(* The elements of a grammar, and the tokens anything in it begins with.   *)
ElementsOf(g) == UNION { { AltAt(g, x)[i] : i \in DOMAIN AltAt(g, x) } : x \in AltPlaces(g) }
Tokens(g) == {End} \cup { ClassSets[r] : r \in DOMAIN ClassSets } \cup { el.name : el \in ElementsOf(g) }
Envs(g) == SUBSET (NamesOf(g) \X Beginnings(Tokens(g)))
OfElements(seq, g) ==
    IsSequence(seq) /\ \A k \in DOMAIN seq :
       /\ seq[k] \in ElementsOf(g)
       /\ IsRef(seq[k]) => \E x \in Places(g) : TargetOf(g, x) = seq[k].name

LEMMA OfFacts ==
    ASSUME NEW env, NEW r, NEW w
    PROVE  /\ << r, w >> \in env => w \in Of(env, r)
           /\ w \in Of(env, r) => \E p \in env : p[1] = r /\ p[2] = w
<1>1. ASSUME << r, w >> \in env PROVE w \in Of(env, r)
  <2>1. PICK p \in env : p[1] = r /\ p[2] = w
    <3>1. << r, w >>[1] = r /\ << r, w >>[2] = w
      OBVIOUS
    <3> QED BY <1>1, <3>1, Zenon
  <2> QED BY <2>1 DEF Of
<1> QED BY <1>1 DEF Of

LEMMA EnvFacts ==
    ASSUME NEW g, NEW env \in Envs(g), NEW r, NEW w \in Of(env, r)
    PROVE  r \in NamesOf(g) /\ w \in Beginnings(Tokens(g)) /\ << r, w >> \in env
<1>1. PICK p \in env : p[1] = r /\ p[2] = w
  BY DEF Of
<1>2. p \in NamesOf(g) \X Beginnings(Tokens(g))
  BY DEF Envs
<1>3. p = << p[1], p[2] >> /\ p[1] \in NamesOf(g) /\ p[2] \in Beginnings(Tokens(g))
  BY <1>2
<1> QED BY <1>1, <1>3

LEMMA AltFacts ==
    ASSUME NEW g, WellFormed(g), NEW x \in AltPlaces(g)
    PROVE  /\ x[1] \in DOMAIN g /\ x[2] \in DOMAIN g[x[1]].alts /\ x = << x[1], x[2] >>
           /\ g[x[1]].name \in NamesOf(g)
           /\ OfElements(AltAt(g, x), g)
<1>1. PICK p \in DOMAIN g : x \in { <<p, k>> : k \in DOMAIN g[p].alts }
  BY DEF AltPlaces
<1>2. PICK k \in DOMAIN g[p].alts : x = <<p, k>>
  BY <1>1
<1>3. x[1] = p /\ x[2] = k
  BY <1>2
<1>4. IsSequence(AltAt(g, x))
  BY <1>3 DEF WellFormed, AltAt
<1>5. ASSUME NEW i \in DOMAIN AltAt(g, x)
      PROVE  /\ AltAt(g, x)[i] \in ElementsOf(g)
             /\ IsRef(AltAt(g, x)[i]) => \E y \in Places(g) : TargetOf(g, y) = AltAt(g, x)[i].name
  <2>1. AltAt(g, x)[i] \in ElementsOf(g)
    BY DEF ElementsOf
  <2>2. ASSUME IsRef(AltAt(g, x)[i]) PROVE \E y \in Places(g) : TargetOf(g, y) = AltAt(g, x)[i].name
    <3>1. PICK y : y = <<p, k, i>> /\ y[1] = p /\ y[2] = k /\ y[3] = i
      <4>1. <<p, k, i>> = <<p, k, i>> /\ <<p, k, i>>[1] = p /\ <<p, k, i>>[2] = k /\ <<p, k, i>>[3] = i
        OBVIOUS
      <4> QED BY <4>1, Zenon
    <3>2. i \in DOMAIN g[p].alts[k] /\ AltAt(g, x) = g[p].alts[k]
      BY <1>3 DEF AltAt
    <3>3. y \in UNION { { <<p, n, j>> : j \in DOMAIN g[p].alts[n] } : n \in DOMAIN g[p].alts }
      BY <3>1, <3>2
    <3>4. y \in UNION { UNION { { <<q, n, j>> : j \in DOMAIN g[q].alts[n] } : n \in DOMAIN g[q].alts } : q \in DOMAIN g }
      BY <3>3
    <3>5. y \in Places(g)
      BY <2>2, <3>1, <3>2, <3>4 DEF Places
    <3>6. TargetOf(g, y) = AltAt(g, x)[i].name
      BY <3>1, <3>2 DEF TargetOf
    <3> QED BY <3>5, <3>6
  <2> QED BY <2>1, <2>2
<1>6. OfElements(AltAt(g, x), g)
  BY <1>4, <1>5 DEF OfElements
<1>7. g[p].name \in NamesOf(g)
  BY DEF NamesOf
<1> QED BY <1>2, <1>3, <1>6, <1>7

(* What is left of a sequence after one of its elements.                   *)
LEMMA RestFacts ==
    ASSUME NEW S, NEW s \in Seq(S), NEW i \in 1..Len(s), NEW rest, rest = SubSeq(s, i + 1, Len(s))
    PROVE  /\ rest \in Seq(S) /\ DOMAIN rest = 1..Len(rest) /\ Len(rest) \in Nat
           /\ \A m \in DOMAIN rest : m + i \in DOMAIN s /\ rest[m] = s[m + i]
<1>1. PICK size \in Nat : size = Len(s) /\ DOMAIN s = 1..size
  OBVIOUS
<1>2. i \in 1..size /\ i + 1 \in 1..(size + 1)
  BY <1>1
<1>3. rest \in Seq(S) /\ Len(rest) = size - i
  BY <1>1, <1>2
<1>4. DOMAIN rest = 1..(size - i) /\ size - i \in Nat
  BY <1>2, <1>3
<1>5. ASSUME NEW m \in 1..(size - i) PROVE m + i \in 1..size /\ rest[m] = s[m + i]
  <2>1. m + i \in 1..size /\ (i + 1) + m - 1 = m + i
    BY <1>2
  <2> QED BY <1>1, <1>2, <2>1
<1> QED BY <1>1, <1>3, <1>4, <1>5

LEMMA RefFacts ==
    ASSUME NEW g, WellFormed(g), NEW x \in Places(g)
    PROVE  /\ x[1] \in DOMAIN g /\ g[x[1]].name \in NamesOf(g)
           /\ OfElements(SuffixOf(g, x), g)
<1>1. PICK p \in DOMAIN g : x \in UNION { { <<p, k, i>> : i \in DOMAIN g[p].alts[k] } : k \in DOMAIN g[p].alts }
  BY DEF Places
<1>2. PICK k \in DOMAIN g[p].alts : x \in { <<p, k, i>> : i \in DOMAIN g[p].alts[k] }
  BY <1>1
<1>3. PICK i \in DOMAIN g[p].alts[k] : x = <<p, k, i>>
  BY <1>2
<1>4. x[1] = p /\ x[2] = k /\ x[3] = i
  BY <1>3
<1>5. PICK y : y = <<p, k>> /\ y[1] = p /\ y[2] = k
  <2>1. <<p, k>> = <<p, k>> /\ <<p, k>>[1] = p /\ <<p, k>>[2] = k
    OBVIOUS
  <2> QED BY <2>1, Zenon
<1>6. y \in AltPlaces(g)
  <2>1. y \in { <<p, n>> : n \in DOMAIN g[p].alts }
    BY <1>5
  <2> QED BY <2>1 DEF AltPlaces
<1>7. PICK alt : alt = g[p].alts[k]
  OBVIOUS
<1>8. AltAt(g, y) = alt /\ OfElements(alt, g)
  BY <1>5, <1>6, <1>7, AltFacts DEF AltAt
<1>9. alt \in Seq({ alt[m] : m \in DOMAIN alt }) /\ i \in DOMAIN alt
  BY <1>7, <1>8 DEF OfElements, IsSequence
<1>10. PICK suf : suf = SuffixOf(g, x)
  OBVIOUS
<1>11. suf = SubSeq(alt, i + 1, Len(alt))
  BY <1>4, <1>7, <1>10 DEF SuffixOf
<1>12. i \in 1..Len(alt) /\ Len(alt) \in Nat /\ DOMAIN alt = 1..Len(alt)
  BY <1>9
<1>13. /\ suf \in Seq({ alt[m] : m \in DOMAIN alt }) /\ DOMAIN suf = 1..Len(suf) /\ Len(suf) \in Nat
       /\ \A m \in DOMAIN suf : m + i \in DOMAIN alt /\ suf[m] = alt[m + i]
  <2>1. PICK S : S = { alt[m] : m \in DOMAIN alt }
    OBVIOUS
  <2>2. alt \in Seq(S)
    BY <1>9, <2>1
  <2>3. i \in 1..Len(alt)
    BY <1>12
  <2>4. /\ suf \in Seq(S) /\ DOMAIN suf = 1..Len(suf) /\ Len(suf) \in Nat
        /\ \A m \in DOMAIN suf : m + i \in DOMAIN alt /\ suf[m] = alt[m + i]
    BY <1>11, <2>2, <2>3, RestFacts
  <2> QED BY <2>1, <2>4
<1>14. IsSequence(suf)
  BY <1>13 DEF IsSequence
<1>15. OfElements(suf, g)
  BY <1>8, <1>13, <1>14 DEF OfElements
<1>16. g[p].name \in NamesOf(g)
  BY DEF NamesOf
<1> QED BY <1>4, <1>10, <1>15, <1>16

(* What is derived is typed.                                               *)
LEMMA ElementsTyped ==
    ASSUME NEW g, NEW env \in Envs(g), NEW seq, OfElements(seq, g)
    PROVE  IsSequence(seq) /\ Typed(seq, env, Tokens(g))
<1>1. ASSUME NEW k \in DOMAIN seq PROVE Starts(seq[k], env) \in SUBSET Beginnings(Tokens(g))
  <2>1. CASE IsRef(seq[k])
    <3>1. Starts(seq[k], env) = Of(env, seq[k].name)
      BY <2>1 DEF Starts
    <3>2. \A w \in Of(env, seq[k].name) : w \in Beginnings(Tokens(g))
      BY EnvFacts
    <3> QED BY <3>1, <3>2
  <2>2. CASE ~IsRef(seq[k])
    <3>1. PICK t \in Tokens(g) : t = seq[k].name
      BY DEF OfElements, Tokens
    <3>2. << t >> \in Beginnings(Tokens(g))
      BY DEF Beginnings
    <3>3. Starts(seq[k], env) = {<< t >>}
      BY <2>2, <3>1 DEF Starts
    <3> QED BY <3>2, <3>3
  <2> QED BY <2>1, <2>2
<1>2. IsSequence(seq) /\ DOMAIN seq = 1..Len(seq)
  BY DEF OfElements, IsSequence
<1> QED BY <1>1, <1>2 DEF Typed

LEMMA SeqTyped ==
    ASSUME NEW g, NEW env \in Envs(g), NEW seq, OfElements(seq, g)
    PROVE  SeqStarts(seq, env, 2) \in SUBSET Beginnings(Tokens(g))
<1>1. IsSequence(seq) /\ Typed(seq, env, Tokens(g))
  BY ElementsTyped
<1>2. PICK upto : Unfolds(upto, seq, env, Tokens(g)) /\ SeqStarts(seq, env, 2) = upto[Len(seq)]
  BY <1>1, SeqStartsUnfolds
<1>3. Len(seq) \in 0..Len(seq)
  BY <1>1 DEF IsSequence
<1> QED BY <1>2, <1>3 DEF Unfolds

-----------------------------------------------------------------------------
(* What rules derive, step by step.                                        *)
LEMMA DerivedFacts ==
    ASSUME NEW g, WellFormed(g), NEW env \in Envs(g)
    PROVE  /\ Derived(g, env, 2) \in Envs(g)
           /\ \A r \in NamesOf(g) \cap DOMAIN ClassSets : << ClassSets[r] >> \in Of(Derived(g, env, 2), r)
           /\ \A x \in OfNoClass(g) : SeqStarts(AltAt(g, x), env, 2) \subseteq Of(Derived(g, env, 2), g[x[1]].name)
           /\ \A r \in NamesOf(g) : \A w \in Of(Derived(g, env, 2), r) :
                 \/ r \in DOMAIN ClassSets /\ w = << ClassSets[r] >>
                 \/ \E x \in OfNoClass(g) : g[x[1]].name = r /\ w \in SeqStarts(AltAt(g, x), env, 2)
<1> DEFINE D == Derived(g, env, 2)
<1>1. ASSUME NEW r \in NamesOf(g) \cap DOMAIN ClassSets
      PROVE  << r, << ClassSets[r] >> >> \in D /\ << ClassSets[r] >> \in Beginnings(Tokens(g))
  <2>1. PICK t \in Tokens(g) : t = ClassSets[r]
    BY DEF Tokens
  <2>2. << t >> \in Beginnings(Tokens(g))
    BY DEF Beginnings
  <2> QED BY <2>1, <2>2 DEF Derived
<1>2. ASSUME NEW x \in OfNoClass(g), NEW w \in SeqStarts(AltAt(g, x), env, 2)
      PROVE  << g[x[1]].name, w >> \in D /\ w \in Beginnings(Tokens(g)) /\ g[x[1]].name \in NamesOf(g)
  <2>1. x \in AltPlaces(g)
    BY DEF OfNoClass
  <2>2. OfElements(AltAt(g, x), g) /\ g[x[1]].name \in NamesOf(g)
    BY <2>1, AltFacts
  <2>3. w \in Beginnings(Tokens(g))
    BY <2>2, SeqTyped
  <2>4. << g[x[1]].name, w >> \in {g[x[1]].name} \X SeqStarts(AltAt(g, x), env, 2)
    OBVIOUS
  <2>5. << g[x[1]].name, w >> \in UNION { {g[y[1]].name} \X SeqStarts(AltAt(g, y), env, 2) : y \in OfNoClass(g) }
    BY <2>4
  <2> QED BY <2>2, <2>3, <2>5 DEF Derived
<1>3. ASSUME NEW p \in D
      PROVE  \/ \E r \in NamesOf(g) \cap DOMAIN ClassSets : p = << r, << ClassSets[r] >> >>
             \/ \E x \in OfNoClass(g) : \E w \in SeqStarts(AltAt(g, x), env, 2) : p = << g[x[1]].name, w >>
  <2>1. CASE p \in { <<r, << ClassSets[r] >> >> : r \in NamesOf(g) \cap DOMAIN ClassSets }
    BY <2>1
  <2>2. CASE p \in UNION { {g[x[1]].name} \X SeqStarts(AltAt(g, x), env, 2) : x \in OfNoClass(g) }
    <3>1. PICK x \in OfNoClass(g) : p \in {g[x[1]].name} \X SeqStarts(AltAt(g, x), env, 2)
      BY <2>2
    <3>2. p = << g[x[1]].name, p[2] >> /\ p[2] \in SeqStarts(AltAt(g, x), env, 2)
      BY <3>1
    <3> QED BY <3>2
  <2> QED BY <2>1, <2>2 DEF Derived
<1>4. ASSUME NEW p \in D PROVE p \in NamesOf(g) \X Beginnings(Tokens(g))
  <2>1. CASE \E r \in NamesOf(g) \cap DOMAIN ClassSets : p = << r, << ClassSets[r] >> >>
    BY <1>1, <2>1
  <2>2. CASE \E x \in OfNoClass(g) : \E w \in SeqStarts(AltAt(g, x), env, 2) : p = << g[x[1]].name, w >>
    <3>0. PICK x \in OfNoClass(g) : \E w \in SeqStarts(AltAt(g, x), env, 2) : p = << g[x[1]].name, w >>
      BY <2>2
    <3>1. PICK w \in SeqStarts(AltAt(g, x), env, 2) : p = << g[x[1]].name, w >>
      BY <3>0
    <3>2. g[x[1]].name \in NamesOf(g) /\ w \in Beginnings(Tokens(g))
      BY <1>2
    <3> QED BY <3>1, <3>2
  <2> QED BY <1>3, <2>1, <2>2
<1>5. D \in Envs(g)
  BY <1>4 DEF Envs
<1>6. ASSUME NEW r \in NamesOf(g), NEW w \in Of(D, r)
      PROVE  \/ r \in DOMAIN ClassSets /\ w = << ClassSets[r] >>
             \/ \E x \in OfNoClass(g) : g[x[1]].name = r /\ w \in SeqStarts(AltAt(g, x), env, 2)
  <2>1. PICK p \in D : p[1] = r /\ p[2] = w
    BY DEF Of
  <2>2. CASE \E q \in NamesOf(g) \cap DOMAIN ClassSets : p = << q, << ClassSets[q] >> >>
    BY <2>1, <2>2
  <2>3. CASE \E x \in OfNoClass(g) : \E v \in SeqStarts(AltAt(g, x), env, 2) : p = << g[x[1]].name, v >>
    <3>0. PICK x \in OfNoClass(g) : \E v \in SeqStarts(AltAt(g, x), env, 2) : p = << g[x[1]].name, v >>
      BY <2>3
    <3>1. PICK v \in SeqStarts(AltAt(g, x), env, 2) : p = << g[x[1]].name, v >>
      BY <3>0
    <3>2. g[x[1]].name = r /\ v = w
      BY <2>1, <3>1
    <3> QED BY <3>2
  <2> HIDE DEF D
  <2> QED BY <1>3, <2>2, <2>3
<1>7. \A r \in NamesOf(g) \cap DOMAIN ClassSets : << ClassSets[r] >> \in Of(D, r)
  <2> HIDE DEF D
  <2> QED BY <1>1, OfFacts
<1>8. ASSUME NEW x \in OfNoClass(g), NEW w \in SeqStarts(AltAt(g, x), env, 2)
      PROVE  w \in Of(D, g[x[1]].name)
  <2> HIDE DEF D
  <2> QED BY <1>2, OfFacts
<1> QED BY <1>5, <1>6, <1>7, <1>8

\* env is what rules derive, ever deeper.
Deepens(env, g) ==
    /\ env[0] = {}
    /\ \A k \in 1..Depth : env[k - 1] \in Envs(g) /\ env[k] = Derived(g, env[k - 1], 2)
    /\ \A k \in 0..Depth : env[k] \in Envs(g)

LEMMA WordsUnfold ==
    ASSUME NEW g \in Inputs
    PROVE  \E env : Deepens(env, g) /\ WordStarts(g, 2) = env[Depth]
<1>1. WellFormed(g) /\ Depth \in Nat
  BY InputsAssumption
<1> DEFINE S == Envs(g)
           step == [k \in 1..Depth |-> [E \in S |-> Derived(g, E, 2)]]
<1>2. \A k \in 1..Depth, E \in S : step[k][E] = Derived(g, E, 2) /\ step[k][E] \in S
  <2>1. \A E \in S : Derived(g, E, 2) \in S
    BY <1>1, DerivedFacts
  <2> HIDE DEF S
  <2> QED BY <2>1
<1>3. {} \in S
  BY DEF Envs
<1> HIDE DEF step, S
<1>4. Steps(step, S, Depth)
  BY <1>2 DEF Steps
<1>5. PICK f : Follows(f, step, S, {}, Depth)
  BY <1>1, <1>3, <1>4, Recursion
<1> DEFINE Defines(h) == h = [k \in 0..Depth |-> IF k = 0 THEN {} ELSE Derived(g, h[k - 1], 2)]
           env == CHOOSE h : Defines(h)
<1>6. Defines(f)
  <2>1. ASSUME NEW k \in 0..Depth
        PROVE  f[k] = IF k = 0 THEN {} ELSE Derived(g, f[k - 1], 2)
    <3>1. CASE k = 0
      BY <3>1, <1>5 DEF Follows
    <3>2. CASE k # 0
      <4>1. k \in 1..Depth
        BY <3>2
      <4>2. f[k - 1] \in S /\ f[k] = step[k][f[k - 1]]
        BY <4>1, <1>5 DEF Follows
      <4> QED BY <4>1, <4>2, <1>2, <3>2
    <3> QED BY <3>1, <3>2
  <2>2. f = [k \in 0..Depth |-> f[k]]
    BY <1>5 DEF Follows
  <2> HIDE DEF env
  <2> QED BY <2>1, <2>2, Zenon
<1>7. Defines(env)
  <2> HIDE DEF Defines
  <2> QED BY <1>6
<1>8. WordStarts(g, 2) = env[Depth]
  BY DEF WordStarts
<1> HIDE DEF env
<1>9. env[0] = {} /\ \A k \in 1..Depth : env[k] = Derived(g, env[k - 1], 2)
  <2>1. ASSUME NEW k \in 0..Depth
        PROVE  env[k] = IF k = 0 THEN {} ELSE Derived(g, env[k - 1], 2)
    BY <1>7, Zenon
  <2>2. 0 \in 0..Depth /\ \A k \in 1..Depth : k \in 0..Depth /\ k # 0
    BY <1>1
  <2> QED BY <2>1, <2>2, Zenon
<1> DEFINE H == { k \in 0..Depth : env[k] \in S }
<1>10. 0 \in H
  <2>1. env[0] \in S
    BY <1>3, <1>9, Zenon
  <2> QED BY <1>1, <2>1
<1>11. \A k \in 1..Depth : k - 1 \in H => k \in H
  <2> SUFFICES ASSUME NEW k \in 1..Depth, env[k - 1] \in S PROVE env[k] \in S
    OBVIOUS
  <2> QED BY <1>2, <1>9
<1>12. \A k \in 0..Depth : k \in H
  <2> HIDE DEF H
  <2> QED BY <1>1, <1>10, <1>11, Induct
<1>13. \A k \in 0..Depth : env[k] \in S
  BY <1>12 DEF H
<1>14. \A k \in 1..Depth : env[k - 1] \in S
  BY <1>1, <1>13
<1> QED BY <1>8, <1>9, <1>13, <1>14 DEF Deepens, S

(* A grammar's words hold what its alternatives derive.                    *)
LEMMA WordFacts ==
    ASSUME NEW g \in Inputs
    PROVE  /\ WordStarts(g, 2) \in Envs(g)
           /\ \A r \in NamesOf(g) \cap DOMAIN ClassSets : << ClassSets[r] >> \in Of(WordStarts(g, 2), r)
           /\ \A x \in OfNoClass(g) :
                 SeqStarts(AltAt(g, x), WordStarts(g, 2), 2) \subseteq Of(WordStarts(g, 2), g[x[1]].name)
<1>1. PICK env : Deepens(env, g) /\ WordStarts(g, 2) = env[Depth]
  BY WordsUnfold
<1>2. WellFormed(g) /\ Depth \in Nat /\ Derived(g, WordStarts(g, 2), 2) = WordStarts(g, 2)
  BY InputsAssumption DEF DeepEnough
<1>3. WordStarts(g, 2) \in Envs(g)
  BY <1>1, <1>2 DEF Deepens
<1> QED BY <1>2, <1>3, DerivedFacts

-----------------------------------------------------------------------------
(* What can come after a rule, passed on from reference to reference.      *)
Conts(g) == SUBSET ((NamesOf(g) \cup { TargetOf(g, x) : x \in Places(g) })
                       \X (Beginnings(Tokens(g)) \ {<<>>}))
PassedAt(g, env, starts, x) == Join(SeqStarts(SuffixOf(g, x), starts, 2), Of(env, g[x[1]].name), 2)

LEMMA ContFacts ==
    ASSUME NEW g, NEW env \in Conts(g), NEW r, NEW w \in Of(env, r)
    PROVE  w \in Beginnings(Tokens(g)) /\ w # <<>> /\ << r, w >> \in env
<1>1. PICK p \in env : p[1] = r /\ p[2] = w
  BY DEF Of
<1>2. p = << p[1], p[2] >> /\ p[2] \in Beginnings(Tokens(g)) \ {<<>>}
  BY DEF Conts
<1> QED BY <1>1, <1>2

LEMMA PassedFacts ==
    ASSUME NEW g, WellFormed(g), NEW env \in Conts(g), NEW starts \in Envs(g)
    PROVE  /\ Passed(g, env, starts) \in Conts(g)
           /\ env \subseteq Passed(g, env, starts)
           /\ \A x \in Places(g) : PassedAt(g, env, starts, x) \subseteq Of(Passed(g, env, starts), TargetOf(g, x))
           /\ \A r : \A w \in Of(Passed(g, env, starts), r) :
                 \/ w \in Of(env, r)
                 \/ \E x \in Places(g) : TargetOf(g, x) = r /\ w \in PassedAt(g, env, starts, x)
<1> DEFINE P == Passed(g, env, starts)
           T == Beginnings(Tokens(g))
<1>1. ASSUME NEW x \in Places(g)
      PROVE  PassedAt(g, env, starts, x) \subseteq T \ {<<>>}
  <2>1. PICK B \in SUBSET T : B = SeqStarts(SuffixOf(g, x), starts, 2)
    BY RefFacts, SeqTyped
  <2>2. PICK C \in SUBSET T : C = Of(env, g[x[1]].name) /\ <<>> \notin C
    <3>1. \A w \in Of(env, g[x[1]].name) : w \in T /\ w # <<>>
      BY ContFacts
    <3> HIDE DEF T
    <3> QED BY <3>1
  <2>3. Join(B, C, 2) \in SUBSET T
    BY <2>1, <2>2, JoinType
  <2>4. <<>> \notin Join(B, C, 2)
    BY <2>1, <2>2, JoinShows
  <2> QED BY <2>1, <2>2, <2>3, <2>4 DEF PassedAt
<1>2. P = env \cup UNION { {TargetOf(g, x)} \X PassedAt(g, env, starts, x) : x \in Places(g) }
  BY DEF Passed, PassedAt
<1>3. ASSUME NEW x \in Places(g), NEW w \in PassedAt(g, env, starts, x)
      PROVE  << TargetOf(g, x), w >> \in P
  <2>1. << TargetOf(g, x), w >> \in {TargetOf(g, x)} \X PassedAt(g, env, starts, x)
    OBVIOUS
  <2> HIDE DEF P
  <2> QED BY <1>2, <2>1
<1>4. ASSUME NEW p \in P
      PROVE  p \in env \/ \E x \in Places(g) : \E w \in PassedAt(g, env, starts, x) : p = << TargetOf(g, x), w >>
  <2>1. CASE p \in env
    BY <2>1
  <2>2. CASE p \in UNION { {TargetOf(g, x)} \X PassedAt(g, env, starts, x) : x \in Places(g) }
    <3>1. PICK x \in Places(g) : p \in {TargetOf(g, x)} \X PassedAt(g, env, starts, x)
      BY <2>2
    <3>2. p = << TargetOf(g, x), p[2] >> /\ p[2] \in PassedAt(g, env, starts, x)
      BY <3>1
    <3> QED BY <3>2
  <2> HIDE DEF P
  <2> QED BY <1>2, <2>1, <2>2
<1>5. env \subseteq P
  BY <1>2
<1> HIDE DEF P
<1>6. P \in Conts(g)
  <2> SUFFICES ASSUME NEW p \in P
               PROVE  p \in (NamesOf(g) \cup { TargetOf(g, x) : x \in Places(g) }) \X (T \ {<<>>})
    BY DEF Conts
  <2>1. CASE p \in env
    BY <2>1 DEF Conts
  <2>2. CASE \E x \in Places(g) : \E w \in PassedAt(g, env, starts, x) : p = << TargetOf(g, x), w >>
    <3>1. PICK x \in Places(g) : \E w \in PassedAt(g, env, starts, x) : p = << TargetOf(g, x), w >>
      BY <2>2
    <3>2. PICK w \in PassedAt(g, env, starts, x) : p = << TargetOf(g, x), w >>
      BY <3>1
    <3>3. w \in T \ {<<>>}
      BY <1>1
    <3> QED BY <3>2, <3>3
  <2> QED BY <1>4, <2>1, <2>2
<1>7. ASSUME NEW r, NEW w \in Of(P, r)
      PROVE  \/ w \in Of(env, r)
             \/ \E x \in Places(g) : TargetOf(g, x) = r /\ w \in PassedAt(g, env, starts, x)
  <2>1. PICK p \in P : p[1] = r /\ p[2] = w
    BY DEF Of
  <2>2. CASE p \in env
    BY <2>1, <2>2 DEF Of
  <2>3. CASE \E x \in Places(g) : \E v \in PassedAt(g, env, starts, x) : p = << TargetOf(g, x), v >>
    <3>1. PICK x \in Places(g) : \E v \in PassedAt(g, env, starts, x) : p = << TargetOf(g, x), v >>
      BY <2>3
    <3>2. PICK v \in PassedAt(g, env, starts, x) : p = << TargetOf(g, x), v >>
      BY <3>1
    <3>3. TargetOf(g, x) = r /\ v = w
      BY <2>1, <3>2
    <3> QED BY <3>3
  <2> QED BY <1>4, <2>2, <2>3
<1>8. \A x \in Places(g) : PassedAt(g, env, starts, x) \subseteq Of(P, TargetOf(g, x))
  BY <1>3, OfFacts
<1> QED BY <1>5, <1>6, <1>7, <1>8 DEF P

\* env is what can come after the rules, passed on ever further.
Spreads(env, g) ==
    /\ env[0] = { << g[1].name, << End >> >> }
    /\ \A k \in 1..Depth : env[k - 1] \in Conts(g) /\ env[k] = Passed(g, env[k - 1], WordStarts(g, 2))
    /\ \A k \in 0..Depth : env[k] \in Conts(g)

LEMMA FirstContinuation ==
    ASSUME NEW g \in Inputs
    PROVE  g[1].name \in NamesOf(g) /\ { << g[1].name, << End >> >> } \in Conts(g)
<1>1. WellFormed(g)
  BY InputsAssumption
<1>2. 1 \in DOMAIN g
  <2>1. g \in Seq({ g[k] : k \in DOMAIN g }) /\ g # <<>>
    BY <1>1 DEF WellFormed, IsSequence
  <2> QED BY <2>1
<1>3. g[1].name \in NamesOf(g)
  BY <1>2 DEF NamesOf
<1>4. PICK t \in Tokens(g) : t = End
  BY DEF Tokens
<1>5. << t >> \in Beginnings(Tokens(g)) /\ << t >> # <<>>
  BY DEF Beginnings
<1> QED BY <1>3, <1>4, <1>5 DEF Conts

LEMMA ContinuationsUnfold ==
    ASSUME NEW g \in Inputs
    PROVE  \E env : Spreads(env, g) /\ Continuations(g) = env[Depth]
<1>1. WellFormed(g) /\ Depth \in Nat
  BY InputsAssumption
<1> DEFINE S == Conts(g)
           W == WordStarts(g, 2)
           base == { << g[1].name, << End >> >> }
           step == [k \in 1..Depth |-> [E \in S |-> Passed(g, E, W)]]
<1>2. \A k \in 1..Depth, E \in S : step[k][E] = Passed(g, E, W) /\ step[k][E] \in S
  <2>1. W \in Envs(g)
    BY WordFacts
  <2> HIDE DEF W
  <2>2. \A E \in S : Passed(g, E, W) \in S
    BY <1>1, <2>1, PassedFacts
  <2> HIDE DEF S
  <2> QED BY <2>2
<1>3. base \in S
  BY FirstContinuation
<1> HIDE DEF step, S, base, W
<1>4. Steps(step, S, Depth)
  BY <1>2 DEF Steps
<1>5. PICK f : Follows(f, step, S, base, Depth)
  BY <1>1, <1>3, <1>4, Recursion
<1> DEFINE Defines(h) == h = [k \in 0..Depth |-> IF k = 0 THEN base ELSE Passed(g, h[k - 1], W)]
           env == CHOOSE h : Defines(h)
<1>6. Defines(f)
  <2>1. ASSUME NEW k \in 0..Depth
        PROVE  f[k] = IF k = 0 THEN base ELSE Passed(g, f[k - 1], W)
    <3>1. CASE k = 0
      BY <3>1, <1>5 DEF Follows
    <3>2. CASE k # 0
      <4>1. k \in 1..Depth
        BY <3>2
      <4>2. f[k - 1] \in S /\ f[k] = step[k][f[k - 1]]
        BY <4>1, <1>5 DEF Follows
      <4> QED BY <4>1, <4>2, <1>2, <3>2
    <3> QED BY <3>1, <3>2
  <2>2. f = [k \in 0..Depth |-> f[k]]
    BY <1>5 DEF Follows
  <2> HIDE DEF env
  <2> QED BY <2>1, <2>2, Zenon
<1>7. Defines(env)
  <2> HIDE DEF Defines
  <2> QED BY <1>6
<1>8. Continuations(g) = env[Depth]
  BY DEF Continuations, base, W
<1> HIDE DEF env
<1>9. env[0] = base /\ \A k \in 1..Depth : env[k] = Passed(g, env[k - 1], W)
  <2>1. ASSUME NEW k \in 0..Depth
        PROVE  env[k] = IF k = 0 THEN base ELSE Passed(g, env[k - 1], W)
    BY <1>7, Zenon
  <2>2. 0 \in 0..Depth /\ \A k \in 1..Depth : k \in 0..Depth /\ k # 0
    BY <1>1
  <2> QED BY <2>1, <2>2, Zenon
<1> DEFINE H == { k \in 0..Depth : env[k] \in S }
<1>10. 0 \in H
  <2>1. env[0] \in S
    BY <1>3, <1>9, Zenon
  <2> QED BY <1>1, <2>1
<1>11. \A k \in 1..Depth : k - 1 \in H => k \in H
  <2> SUFFICES ASSUME NEW k \in 1..Depth, env[k - 1] \in S PROVE env[k] \in S
    OBVIOUS
  <2> QED BY <1>2, <1>9
<1>12. \A k \in 0..Depth : k \in H
  <2> HIDE DEF H
  <2> QED BY <1>1, <1>10, <1>11, Induct
<1>13. \A k \in 0..Depth : env[k] \in S
  BY <1>12 DEF H
<1>14. \A k \in 1..Depth : env[k - 1] \in S
  BY <1>1, <1>13
<1> QED BY <1>8, <1>9, <1>13, <1>14 DEF Spreads, S, W, base

(* What can come after the rules holds what every reference passes on.     *)
LEMMA ContinuationFacts ==
    ASSUME NEW g \in Inputs
    PROVE  /\ Continuations(g) \in Conts(g)
           /\ << End >> \in Of(Continuations(g), g[1].name)
           /\ \A x \in Places(g) :
                 PassedAt(g, Continuations(g), WordStarts(g, 2), x) \subseteq Of(Continuations(g), TargetOf(g, x))
<1>1. PICK env : Spreads(env, g) /\ Continuations(g) = env[Depth]
  BY ContinuationsUnfold
<1>2. WellFormed(g) /\ Depth \in Nat /\ Passed(g, Continuations(g), WordStarts(g, 2)) = Continuations(g)
  BY InputsAssumption DEF FollowedFar
<1>3. Continuations(g) \in Conts(g) /\ WordStarts(g, 2) \in Envs(g)
  BY <1>1, <1>2, WordFacts DEF Spreads
<1>4. PICK p : p = << g[1].name, << End >> >>
  OBVIOUS
<1> DEFINE H == { k \in 0..Depth : p \in env[k] }
<1>5. 0 \in H
  BY <1>1, <1>2, <1>4 DEF Spreads
<1>6. \A k \in 1..Depth : k - 1 \in H => k \in H
  <2> SUFFICES ASSUME NEW k \in 1..Depth, p \in env[k - 1] PROVE p \in env[k]
    OBVIOUS
  <2>1. env[k - 1] \in Conts(g) /\ env[k] = Passed(g, env[k - 1], WordStarts(g, 2))
    BY <1>1 DEF Spreads
  <2> QED BY <1>2, <1>3, <2>1, PassedFacts
<1>7. \A k \in 0..Depth : k \in H
  <2> HIDE DEF H
  <2> QED BY <1>2, <1>5, <1>6, Induct
<1>8. p \in env[Depth]
  BY <1>2, <1>7
<1>9. << End >> \in Of(Continuations(g), g[1].name)
  BY <1>1, <1>4, <1>8, OfFacts
<1> QED BY <1>2, <1>3, <1>9, PassedFacts

-----------------------------------------------------------------------------
(* What first_of_seq reads off the sets of the rules, held against what    *)
(* the rules derive: enough, when the sets hold what the rules begin with; *)
(* not more, when they hold nothing else.                                  *)
Holds(fs, null, g, env) ==
    \A r \in NamesOf(g) : /\ <<>> \in Of(env, r) => r \in null
                          /\ \A w \in Of(env, r) : w # <<>> => w[1] \in fs[r]
Backed(fs, null, g, env) ==
    /\ \A r \in null : <<>> \in Of(env, r)
    /\ NoDeadEnd(g) => \A r \in NamesOf(g) : \A t \in fs[r] : \E w \in Of(env, r) : w # <<>> /\ w[1] = t

LEMMA ReadsEnough ==
    ASSUME NEW g, NEW env \in Envs(g), NEW fs, NEW null, DOMAIN fs = NamesOf(g), Holds(fs, null, g, env),
           NEW seq, OfElements(seq, g), NEW w \in SeqStarts(seq, env, 2)
    PROVE  /\ w = <<>> => SeqVanishes(seq, null)
           /\ w # <<>> => w[1] \in FirstOfSeq(seq, fs, null)
<1>1. IsSequence(seq) /\ Typed(seq, env, Tokens(g))
  BY ElementsTyped
<1>2. ASSUME NEW k \in DOMAIN seq, <<>> \in Starts(seq[k], env) PROVE Vanishes(seq[k], null)
  <2>1. CASE IsRef(seq[k])
    <3>1. <<>> \in Of(env, seq[k].name)
      BY <1>2, <2>1 DEF Starts
    <3>2. seq[k].name \in NamesOf(g)
      BY <3>1, EnvFacts
    <3> QED BY <2>1, <3>1, <3>2 DEF Holds, Vanishes
  <2>2. CASE ~IsRef(seq[k])
    <3>1. <<>> \in {<< seq[k].name >>}
      BY <1>2, <2>2 DEF Starts
    <3> QED BY <3>1
  <2> QED BY <2>1, <2>2
<1>3. ASSUME w = <<>> PROVE SeqVanishes(seq, null)
  <2>1. \A k \in DOMAIN seq : <<>> \in Starts(seq[k], env)
    BY <1>1, <1>3, SeqVanishing
  <2> QED BY <1>2, <2>1 DEF SeqVanishes
<1>4. ASSUME w # <<>> PROVE w[1] \in FirstOfSeq(seq, fs, null)
  <2>1. PICK j \in DOMAIN seq : /\ \A m \in 1..(j - 1) : <<>> \in Starts(seq[m], env)
                                /\ \E u \in Starts(seq[j], env) : u # <<>> /\ u[1] = w[1]
    BY <1>1, <1>4, SeqHeads
  <2>2. \A m \in 1..(j - 1) : m \in DOMAIN seq
    BY <1>1 DEF IsSequence
  <2>3. j \in Reached(seq, null)
    BY <1>2, <2>1, <2>2 DEF Reached
  <2>4. w[1] \in FirstOf(seq[j], fs)
    <3>1. PICK u \in Starts(seq[j], env) : u # <<>> /\ u[1] = w[1]
      BY <2>1
    <3>2. CASE IsRef(seq[j])
      <4>1. u \in Of(env, seq[j].name)
        BY <3>1, <3>2 DEF Starts
      <4>2. seq[j].name \in NamesOf(g)
        BY <4>1, EnvFacts
      <4>3. w[1] \in fs[seq[j].name]
        BY <3>1, <4>1, <4>2 DEF Holds
      <4> QED BY <3>2, <4>2, <4>3 DEF FirstOf
    <3>3. CASE ~IsRef(seq[j])
      <4>1. u = << seq[j].name >>
        BY <3>1, <3>3 DEF Starts
      <4>2. w[1] = seq[j].name
        BY <3>1, <4>1
      <4> QED BY <3>3, <4>2 DEF FirstOf
    <3> QED BY <3>2, <3>3
  <2> QED BY <2>3, <2>4 DEF FirstOfSeq
<1> QED BY <1>3, <1>4

(* What can vanish, in a sequence, derives nothing.                        *)
LEMMA Vanished ==
    ASSUME NEW g, NEW env, NEW fs, NEW null, Backed(fs, null, g, env), NEW el, Vanishes(el, null)
    PROVE  <<>> \in Starts(el, env)
BY DEF Backed, Vanishes, Starts

LEMMA NothingDead ==
    ASSUME NEW g, NEW env, env = WordStarts(g, 2), NoDeadEnd(g), NEW seq, OfElements(seq, g)
    PROVE  \A k \in DOMAIN seq : Starts(seq[k], env) # {}
<1> SUFFICES ASSUME NEW k \in DOMAIN seq PROVE Starts(seq[k], env) # {}
  OBVIOUS
<1>1. CASE IsRef(seq[k])
  <2>1. PICK x \in Places(g) : TargetOf(g, x) = seq[k].name
    BY <1>1 DEF OfElements
  <2> QED BY <1>1, <2>1 DEF NoDeadEnd, Starts
<1>2. CASE ~IsRef(seq[k])
  BY <1>2 DEF Starts
<1> QED BY <1>1, <1>2

LEMMA BeginsWith ==
    ASSUME NEW g, NEW env, env = WordStarts(g, 2), NoDeadEnd(g), NEW fs, NEW null, DOMAIN fs = NamesOf(g),
           Backed(fs, null, g, env), NEW el, NEW t \in FirstOf(el, fs)
    PROVE  \E u \in Starts(el, env) : u # <<>> /\ u[1] = t
<1>1. CASE IsRef(el)
  <2>1. el.name \in NamesOf(g) /\ t \in fs[el.name]
    BY <1>1 DEF FirstOf
  <2>2. \E u \in Of(env, el.name) : u # <<>> /\ u[1] = t
    BY <2>1 DEF Backed
  <2> QED BY <1>1, <2>2 DEF Starts
<1>2. CASE ~IsRef(el)
  <2>1. t = el.name /\ Starts(el, env) = {<< el.name >>}
    BY <1>2 DEF FirstOf, Starts
  <2>2. << t >> # <<>> /\ << t >>[1] = t
    OBVIOUS
  <2> QED BY <2>1, <2>2
<1> QED BY <1>1, <1>2

LEMMA ReadsNoMore ==
    ASSUME NEW g \in Inputs, NEW fs, NEW null, DOMAIN fs = NamesOf(g),
           Backed(fs, null, g, WordStarts(g, 2)), NEW seq, OfElements(seq, g)
    PROVE  /\ SeqVanishes(seq, null) => <<>> \in SeqStarts(seq, WordStarts(g, 2), 2)
           /\ NoDeadEnd(g) => \A t \in FirstOfSeq(seq, fs, null) :
                 \E w \in SeqStarts(seq, WordStarts(g, 2), 2) : w # <<>> /\ w[1] = t
<1>1. PICK env \in Envs(g) : env = WordStarts(g, 2)
  BY WordFacts
<1>2. IsSequence(seq) /\ Typed(seq, env, Tokens(g))
  BY ElementsTyped
<1>3. ASSUME SeqVanishes(seq, null) PROVE <<>> \in SeqStarts(seq, env, 2)
  <2>1. \A k \in DOMAIN seq : <<>> \in Starts(seq[k], env)
    BY <1>1, <1>3, Vanished DEF SeqVanishes
  <2> QED BY <1>2, <2>1, SeqVanishing
<1>4. ASSUME NoDeadEnd(g), NEW t \in FirstOfSeq(seq, fs, null)
      PROVE  \E w \in SeqStarts(seq, env, 2) : w # <<>> /\ w[1] = t
  <2>1. PICK j \in Reached(seq, null) : t \in FirstOf(seq[j], fs)
    BY DEF FirstOfSeq
  <2>2. j \in DOMAIN seq /\ \A m \in 1..(j - 1) : <<>> \in Starts(seq[m], env)
    BY <1>1, Vanished DEF Reached
  <2>3. PICK u \in Starts(seq[j], env) : u # <<>> /\ u[1] = t
    BY <1>1, <1>4, <2>1, BeginsWith
  <2>4. \A k \in DOMAIN seq : Starts(seq[k], env) # {}
    BY <1>1, <1>4, NothingDead
  <2>5. \E w \in SeqStarts(seq, env, 2) : w # <<>> /\ w[1] = u[1]
    BY <1>2, <2>2, <2>3, <2>4, SeqBegins
  <2> QED BY <2>3, <2>5
<1> QED BY <1>1, <1>3, <1>4

(* A token of a sequence, and what can come after it there.                *)
LEMMA ReadsPairs ==
    ASSUME NEW g \in Inputs, NoDeadEnd(g), NEW fs, NEW null, DOMAIN fs = NamesOf(g),
           Backed(fs, null, g, WordStarts(g, 2)), NEW seq, OfElements(seq, g),
           NEW i \in Reached(seq, null), ~IsRef(seq[i])
    PROVE  LET rest == SubSeq(seq, i + 1, Len(seq))
           IN  /\ \A t \in FirstOfSeq(rest, fs, null) : << seq[i].name, t >> \in SeqStarts(seq, WordStarts(g, 2), 2)
               /\ SeqVanishes(rest, null) => << seq[i].name >> \in SeqStarts(seq, WordStarts(g, 2), 2)
<1>1. PICK env \in Envs(g) : env = WordStarts(g, 2)
  BY WordFacts
<1>2. IsSequence(seq) /\ Typed(seq, env, Tokens(g))
  BY ElementsTyped
<1>3. PICK rest : rest = SubSeq(seq, i + 1, Len(seq))
  OBVIOUS
<1>4. i \in DOMAIN seq /\ \A m \in 1..(i - 1) : <<>> \in Starts(seq[m], env)
  BY <1>1, Vanished DEF Reached
<1>5. seq \in Seq({ seq[k] : k \in DOMAIN seq }) /\ DOMAIN seq = 1..Len(seq) /\ Len(seq) \in Nat
  BY <1>2 DEF IsSequence
<1>6. /\ DOMAIN rest = 1..(Len(seq) - i)
      /\ \A m \in DOMAIN rest : m + i \in DOMAIN seq /\ rest[m] = seq[m + i]
  BY <1>3, <1>4, <1>5
<1>7. << seq[i].name >> \in Starts(seq[i], env)
  BY DEF Starts
<1>8. ASSUME NEW t \in FirstOfSeq(rest, fs, null)
      PROVE  << seq[i].name, t >> \in SeqStarts(seq, env, 2)
  <2>1. PICK h \in Reached(rest, null) : t \in FirstOf(rest[h], fs)
    BY <1>8 DEF FirstOfSeq
  <2>2. h \in DOMAIN rest /\ \A m \in 1..(h - 1) : Vanishes(rest[m], null)
    BY DEF Reached
  <2>3. PICK j \in DOMAIN seq : j = h + i /\ rest[h] = seq[j] /\ i < j
    BY <1>4, <1>5, <1>6, <2>2
  <2>4. ASSUME NEW m \in 1..(j - 1), m # i PROVE <<>> \in Starts(seq[m], env)
    <3>1. CASE m < i
      BY <1>4, <1>5, <3>1
    <3>2. CASE m > i
      <4>1. m - i \in 1..(h - 1) /\ m - i \in DOMAIN rest /\ (m - i) + i = m
        <5>1. PICK size \in Nat : size = Len(seq)
          BY <1>5
        <5>2. i \in 1..size /\ h \in 1..(size - i) /\ j = h + i
          BY <1>4, <1>5, <1>6, <2>2, <2>3, <5>1
        <5>3. m \in Int /\ i < m /\ m < j
          BY <3>2, <5>2
        <5>4. m - i \in 1..(h - 1) /\ m - i \in 1..(size - i) /\ (m - i) + i = m
          BY <5>2, <5>3
        <5> QED BY <1>6, <5>1, <5>4
      <4>2. Vanishes(seq[m], null)
        BY <1>6, <2>2, <4>1
      <4> QED BY <1>1, <4>2, Vanished
    <3> QED BY <1>4, <1>5, <2>4, <3>1, <3>2
  <2>5. PICK u \in Starts(seq[j], env) : u # <<>> /\ u[1] = t
    BY <1>1, <2>1, <2>3, BeginsWith
  <2>6. \A k \in DOMAIN seq : Starts(seq[k], env) # {}
    BY <1>1, NothingDead
  <2>7. << seq[i].name, u[1] >> \in SeqStarts(seq, env, 2)
    BY <1>2, <1>4, <1>7, <2>3, <2>4, <2>5, <2>6, SeqBeginsWithTwo
  <2> QED BY <2>5, <2>7
<1>9. ASSUME SeqVanishes(rest, null) PROVE << seq[i].name >> \in SeqStarts(seq, env, 2)
  <2>1. ASSUME NEW m \in DOMAIN seq, m # i PROVE <<>> \in Starts(seq[m], env)
    <3>1. CASE m < i
      BY <1>4, <1>5, <3>1
    <3>2. CASE m > i
      <4>1. m - i \in DOMAIN rest /\ (m - i) + i = m
        BY <1>4, <1>5, <1>6, <3>2
      <4>2. Vanishes(seq[m], null)
        BY <1>6, <1>9, <4>1 DEF SeqVanishes
      <4> QED BY <1>1, <4>2, Vanished
    <3> QED BY <1>4, <1>5, <2>1, <3>1, <3>2
  <2> QED BY <1>2, <1>4, <1>7, <2>1, SeqBeginsWithOne
<1> QED BY <1>1, <1>3, <1>8, <1>9

-----------------------------------------------------------------------------
(* The inductive invariant.  Outside the round that may still change it,   *)
(* what an alternative begins with is in the set of its rule, and what a   *)
(* reference passes on in the set of the rule it is to: completeness of    *)
(* the sets rests on it.  Exactness rests on the words: all that is in a   *)
(* set is backed by one, at every step.                                    *)
AltHeld(g, fs, null, x) ==
    /\ FirstOfSeq(AltAt(g, x), fs, null) \subseteq fs[g[x[1]].name]
    /\ SeqVanishes(AltAt(g, x), null) => g[x[1]].name \in null
RefHeld(g, fs, null, fw, x) ==
    TargetOf(g, x) \in NamesOf(g) =>
       /\ FirstOfSeq(SuffixOf(g, x), fs, null) \subseteq fw[TargetOf(g, x)]
       /\ SeqVanishes(SuffixOf(g, x), null) => fw[g[x[1]].name] \subseteq fw[TargetOf(g, x)]
Followed(fw, g) == \A r \in NamesOf(g) : \A t \in fw[r] : \E s \in Of(Continuations(g), r) : s[1] = t
Sound(g) == NoDeadEnd(g) /\ NoOrphan(g)

TypeInv ==
    /\ grammar \in Inputs
    /\ phase \in {"first", "follow", "pairs", "done"}
    /\ changed \in BOOLEAN
    /\ places \subseteq PlacesOf(phase)
    /\ first  = [ r \in Rules |-> first[r] ]
    /\ follow = [ r \in Rules |-> follow[r] ]
    /\ pairs  = [ r \in Rules |-> pairs[r] ]

FirstInv ==
    /\ \A r \in Rules \cap DOMAIN ClassSets : ClassSets[r] \in first[r]
    /\ nullable \subseteq Rules
    /\ Backed(first, nullable, grammar, WordStarts(grammar, 2))
    /\ \A x \in OfNoClass(grammar) :
          \/ AltHeld(grammar, first, nullable, x)
          \/ phase = "first" /\ (changed \/ x \in places)

FollowInv ==
    /\ phase # "first" => End \in follow[grammar[1].name]
    /\ Sound(grammar) => Followed(follow, grammar)
    /\ \A x \in Places(grammar) :
          \/ RefHeld(grammar, first, nullable, follow, x)
          \/ phase = "first"
          \/ phase = "follow" /\ (changed \/ x \in places)

PairsInv == Sound(grammar) => \A r \in Rules : pairs[r] \subseteq Of(Continuations(grammar), r)

AnalysisInv == TypeInv /\ FirstInv /\ FollowInv /\ PairsInv

LEMMA AddFacts ==
    ASSUME NEW N, NEW set, set = [ r \in N |-> set[r] ], NEW r \in N, NEW new
    PROVE  /\ Add(set, r, new) = [ q \in N |-> Add(set, r, new)[q] ]
           /\ Add(set, r, new)[r] = set[r] \cup new
           /\ \A q \in N : q # r => Add(set, r, new)[q] = set[q]
<1>1. DOMAIN set = N
  <2> DEFINE f == [ q \in N |-> set[q] ]
  <2>1. DOMAIN f = N
    OBVIOUS
  <2> HIDE DEF f
  <2>2. set = f
    BY DEF f
  <2> QED BY <2>1, <2>2
<1>2. Add(set, r, new) = [ q \in N |-> IF q = r THEN set[r] \cup new ELSE set[q] ]
  BY <1>1 DEF Add
<1> QED BY <1>2

LEMMA DomainOf ==
    ASSUME NEW N, NEW set, set = [ r \in N |-> set[r] ]
    PROVE  DOMAIN set = N
<1> DEFINE f == [ q \in N |-> set[q] ]
<1>1. DOMAIN f = N
  OBVIOUS
<1> HIDE DEF f
<1>2. set = f
  BY DEF f
<1> QED BY <1>1, <1>2

-----------------------------------------------------------------------------
(* When every alternative is held, so is every word.                       *)
LEMMA WordsHeld ==
    ASSUME NEW g \in Inputs, NEW fs, NEW null, DOMAIN fs = NamesOf(g),
           \A r \in NamesOf(g) \cap DOMAIN ClassSets : ClassSets[r] \in fs[r],
           \A x \in OfNoClass(g) : AltHeld(g, fs, null, x)
    PROVE  Holds(fs, null, g, WordStarts(g, 2))
<1>1. PICK env : Deepens(env, g) /\ WordStarts(g, 2) = env[Depth]
  BY WordsUnfold
<1>2. WellFormed(g) /\ Depth \in Nat
  BY InputsAssumption
<1> DEFINE H == { k \in 0..Depth : Holds(fs, null, g, env[k]) }
<1>3. 0 \in H
  <2>1. \A r : Of(env[0], r) = {}
    BY <1>1 DEF Deepens, Of
  <2>2. Holds(fs, null, g, env[0])
    BY <2>1 DEF Holds
  <2> QED BY <1>2, <2>2
<1>4. \A k \in 1..Depth : k - 1 \in H => k \in H
  <2> SUFFICES ASSUME NEW k \in 1..Depth, k - 1 \in H PROVE k \in H
    OBVIOUS
  <2>1. PICK E \in Envs(g) : E = env[k - 1] /\ env[k] = Derived(g, E, 2) /\ Holds(fs, null, g, E)
    BY <1>1 DEF Deepens
  <2>2. ASSUME NEW r \in NamesOf(g), NEW w \in Of(Derived(g, E, 2), r)
        PROVE  IF w = <<>> THEN r \in null ELSE w[1] \in fs[r]
    <3>1. CASE r \in DOMAIN ClassSets /\ w = << ClassSets[r] >>
      <4>1. w # <<>> /\ w[1] = ClassSets[r]
        BY <3>1
      <4> QED BY <3>1, <4>1
    <3>2. ASSUME NEW x \in OfNoClass(g), g[x[1]].name = r, w \in SeqStarts(AltAt(g, x), E, 2)
          PROVE  IF w = <<>> THEN r \in null ELSE w[1] \in fs[r]
      <4>1. x \in AltPlaces(g)
        BY DEF OfNoClass
      <4>2. OfElements(AltAt(g, x), g)
        BY <1>2, <4>1, AltFacts
      <4>3. /\ w = <<>> => SeqVanishes(AltAt(g, x), null)
            /\ w # <<>> => w[1] \in FirstOfSeq(AltAt(g, x), fs, null)
        BY <2>1, <3>2, <4>2, ReadsEnough
      <4> QED BY <3>2, <4>3 DEF AltHeld
    <3> QED BY <1>2, <3>1, <3>2, DerivedFacts
  <2>3. Holds(fs, null, g, env[k])
    BY <2>1, <2>2 DEF Holds
  <2> QED BY <2>3
<1>5. \A k \in 0..Depth : k \in H
  <2> HIDE DEF H
  <2> QED BY <1>2, <1>3, <1>4, Induct
<1>6. Depth \in H
  BY <1>2, <1>5
<1> QED BY <1>1, <1>6

(* When every reference is held too, so is all that can follow.            *)
LEMMA ContinuationsHeld ==
    ASSUME NEW g \in Inputs, NEW fs, NEW null, DOMAIN fs = NamesOf(g), NEW fw,
           Holds(fs, null, g, WordStarts(g, 2)), End \in fw[g[1].name],
           \A x \in Places(g) : RefHeld(g, fs, null, fw, x)
    PROVE  \A r \in NamesOf(g) : \A s \in Of(Continuations(g), r) : s[1] \in fw[r]
<1>1. PICK env : Spreads(env, g) /\ Continuations(g) = env[Depth]
  BY ContinuationsUnfold
<1>2. PICK W \in Envs(g) : W = WordStarts(g, 2)
  BY WordFacts
<1>3. WellFormed(g) /\ Depth \in Nat
  BY InputsAssumption
<1> DEFINE In(E) == \A r \in NamesOf(g) : \A s \in Of(E, r) : s[1] \in fw[r]
           H == { k \in 0..Depth : In(env[k]) }
<1>4. 0 \in H
  <2>1. ASSUME NEW r \in NamesOf(g), NEW s \in Of(env[0], r) PROVE s[1] \in fw[r]
    <3>1. PICK p \in env[0] : p[1] = r /\ p[2] = s
      BY DEF Of
    <3>2. p = << g[1].name, << End >> >>
      BY <1>1, <3>1 DEF Spreads
    <3>3. r = g[1].name /\ s = << End >>
      BY <3>1, <3>2
    <3>4. s[1] = End
      BY <3>3
    <3> QED BY <3>3, <3>4
  <2>2. In(env[0])
    BY <2>1
  <2> HIDE DEF In
  <2> QED BY <1>3, <2>2
<1>5. \A k \in 1..Depth : k - 1 \in H => k \in H
  <2> SUFFICES ASSUME NEW k \in 1..Depth, k - 1 \in H PROVE k \in H
    OBVIOUS
  <2>1. PICK E \in Conts(g) : E = env[k - 1] /\ env[k] = Passed(g, E, W) /\ In(E)
    BY <1>1, <1>2 DEF Spreads
  <2>2. ASSUME NEW r \in NamesOf(g), NEW s \in Of(Passed(g, E, W), r)
        PROVE  s[1] \in fw[r]
    <3>1. CASE s \in Of(E, r)
      BY <2>1, <3>1
    <3>2. ASSUME NEW x \in Places(g), TargetOf(g, x) = r, s \in PassedAt(g, E, W, x)
          PROVE  s[1] \in fw[r]
      <4>1. PICK q \in NamesOf(g) : q = g[x[1]].name
        BY <1>3, RefFacts
      <4>2. PICK suf : suf = SuffixOf(g, x) /\ OfElements(suf, g)
        BY <1>3, RefFacts
      <4>3. PICK B \in SUBSET Beginnings(Tokens(g)) : B = SeqStarts(suf, W, 2)
        BY <4>2, SeqTyped
      <4>4. PICK C \in SUBSET Beginnings(Tokens(g)) : C = Of(E, q) /\ <<>> \notin C
        <5>1. \A w \in Of(E, q) : w \in Beginnings(Tokens(g)) /\ w # <<>>
          BY ContFacts
        <5> QED BY <5>1
      <4>5. s \in Join(B, C, 2) /\ s # <<>>
        <5>1. s \in Join(B, C, 2)
          BY <3>2, <4>1, <4>2, <4>3, <4>4 DEF PassedAt
        <5>2. <<>> \notin Join(B, C, 2)
          BY <4>4, JoinShows
        <5> QED BY <5>1, <5>2
      <4>6. \/ \E u \in B : u # <<>> /\ u[1] = s[1]
            \/ <<>> \in B /\ \E v \in C : v # <<>> /\ v[1] = s[1]
        BY <4>5, JoinShows
      <4>7. CASE \E u \in B : u # <<>> /\ u[1] = s[1]
        <5>1. s[1] \in FirstOfSeq(suf, fs, null)
          BY <1>2, <4>2, <4>3, <4>7, ReadsEnough
        <5> QED BY <3>2, <4>2, <5>1 DEF RefHeld
      <4>8. CASE <<>> \in B /\ \E v \in C : v # <<>> /\ v[1] = s[1]
        <5>1. SeqVanishes(suf, null)
          BY <1>2, <4>2, <4>3, <4>8, ReadsEnough
        <5>2. s[1] \in fw[q]
          BY <2>1, <4>4, <4>8
        <5> QED BY <3>2, <4>1, <4>2, <5>1, <5>2 DEF RefHeld
      <4> QED BY <4>6, <4>7, <4>8
    <3> QED BY <1>3, <3>1, <3>2, PassedFacts
  <2>3. In(env[k])
    BY <2>1, <2>2
  <2> QED BY <2>3
<1>6. \A k \in 0..Depth : k \in H
  <2> HIDE DEF H
  <2> QED BY <1>3, <1>4, <1>5, Induct
<1>7. Depth \in H
  BY <1>3, <1>6
<1> QED BY <1>1, <1>7

-----------------------------------------------------------------------------
(* What each step adds is backed by a word, or by what can follow.         *)
LEMMA FirstBacked ==
    ASSUME NEW g \in Inputs, NEW fs, NEW null, fs = [ r \in NamesOf(g) |-> fs[r] ],
           Backed(fs, null, g, WordStarts(g, 2)), NEW x \in OfNoClass(g), NEW alt, alt = AltAt(g, x),
           NEW r, r = g[x[1]].name
    PROVE  Backed(Add(fs, r, FirstOfSeq(alt, fs, null)), IF SeqVanishes(alt, null) THEN null \cup {r} ELSE null,
                  g, WordStarts(g, 2))
<1>1. WellFormed(g) /\ x \in AltPlaces(g) /\ DOMAIN fs = NamesOf(g)
  BY InputsAssumption, DomainOf DEF OfNoClass
<1>2. r \in NamesOf(g) /\ OfElements(alt, g)
  BY <1>1, AltFacts
<1>3. PICK W : W = WordStarts(g, 2)
  OBVIOUS
<1>4. \A w \in SeqStarts(alt, W, 2) : w \in Of(W, r)
  BY <1>3, WordFacts
<1>5. /\ SeqVanishes(alt, null) => <<>> \in SeqStarts(alt, W, 2)
      /\ NoDeadEnd(g) => \A t \in FirstOfSeq(alt, fs, null) : \E w \in SeqStarts(alt, W, 2) : w # <<>> /\ w[1] = t
  BY <1>1, <1>2, <1>3, ReadsNoMore
<1>6. PICK gs : /\ gs = Add(fs, r, FirstOfSeq(alt, fs, null))
                /\ gs[r] = fs[r] \cup FirstOfSeq(alt, fs, null)
                /\ \A q \in NamesOf(g) : q # r => gs[q] = fs[q]
  BY <1>2, AddFacts
<1>7. ASSUME NoDeadEnd(g), NEW q \in NamesOf(g), NEW t \in gs[q] PROVE \E w \in Of(W, q) : w # <<>> /\ w[1] = t
  <2>1. CASE t \in fs[q]
    BY <1>3, <1>7, <2>1 DEF Backed
  <2>2. CASE q = r /\ t \in FirstOfSeq(alt, fs, null)
    BY <1>4, <1>5, <1>7, <2>2
  <2> QED BY <1>6, <2>1, <2>2
<1>8. SeqVanishes(alt, null) => <<>> \in Of(W, r)
  BY <1>4, <1>5
<1>9. \A q \in null : <<>> \in Of(W, q)
  BY <1>3 DEF Backed
<1> QED BY <1>3, <1>6, <1>7, <1>8, <1>9 DEF Backed

LEMMA SoundPassing ==
    ASSUME NEW g \in Inputs, Sound(g), Backed(first, nullable, g, WordStarts(g, 2)),
           DOMAIN first = NamesOf(g), NEW x \in Places(g), NEW suf, suf = SuffixOf(g, x)
    PROVE  \E B, C \in SUBSET Beginnings(Tokens(g)) :
              /\ B = SeqStarts(suf, WordStarts(g, 2), 2)
              /\ C = Of(Continuations(g), g[x[1]].name) /\ C # {} /\ <<>> \notin C
              /\ Join(B, C, 2) \subseteq Of(Continuations(g), TargetOf(g, x))
              /\ SeqVanishes(suf, nullable) => <<>> \in B
              /\ \A t \in FirstOfSeq(suf, first, nullable) : \E u \in B : u # <<>> /\ u[1] = t
<1>1. WellFormed(g)
  BY InputsAssumption
<1>2. OfElements(suf, g)
  BY <1>1, RefFacts
<1>3. PICK W \in Envs(g) : W = WordStarts(g, 2)
  BY WordFacts
<1>4. PICK B \in SUBSET Beginnings(Tokens(g)) : B = SeqStarts(suf, W, 2)
  BY <1>2, SeqTyped
<1>5. PICK C \in SUBSET Beginnings(Tokens(g)) : C = Of(Continuations(g), g[x[1]].name) /\ <<>> \notin C
  <2>1. Continuations(g) \in Conts(g)
    BY ContinuationFacts
  <2>2. \A w \in Of(Continuations(g), g[x[1]].name) : w \in Beginnings(Tokens(g)) /\ w # <<>>
    BY <2>1, ContFacts
  <2> QED BY <2>2
<1>6. C # {}
  BY <1>5 DEF Sound, NoOrphan
<1>7. Join(B, C, 2) \subseteq Of(Continuations(g), TargetOf(g, x))
  <2>1. PassedAt(g, Continuations(g), WordStarts(g, 2), x) \subseteq Of(Continuations(g), TargetOf(g, x))
    BY ContinuationFacts
  <2> QED BY <1>3, <1>4, <1>5, <2>1 DEF PassedAt
<1>8. /\ SeqVanishes(suf, nullable) => <<>> \in B
      /\ \A t \in FirstOfSeq(suf, first, nullable) : \E u \in B : u # <<>> /\ u[1] = t
  BY <1>2, <1>3, <1>4, ReadsNoMore DEF Sound
<1> QED BY <1>3, <1>4, <1>5, <1>6, <1>7, <1>8

LEMMA FollowBacked ==
    ASSUME NEW g \in Inputs, Sound(g), Backed(first, nullable, g, WordStarts(g, 2)),
           DOMAIN first = NamesOf(g), NEW fw, Followed(fw, g), NEW x \in Places(g),
           NEW t \in NextTokens(SuffixOf(g, x), fw[g[x[1]].name])
    PROVE  \E s \in Of(Continuations(g), TargetOf(g, x)) : s[1] = t
<1>1. PICK suf : suf = SuffixOf(g, x)
  OBVIOUS
<1>2. PICK B, C \in SUBSET Beginnings(Tokens(g)) :
              /\ B = SeqStarts(suf, WordStarts(g, 2), 2)
              /\ C = Of(Continuations(g), g[x[1]].name) /\ C # {} /\ <<>> \notin C
              /\ Join(B, C, 2) \subseteq Of(Continuations(g), TargetOf(g, x))
              /\ SeqVanishes(suf, nullable) => <<>> \in B
              /\ \A n \in FirstOfSeq(suf, first, nullable) : \E u \in B : u # <<>> /\ u[1] = n
  BY <1>1, SoundPassing
<1>3. CASE t \in FirstOfSeq(suf, first, nullable)
  <2>1. PICK u \in B : u # <<>> /\ u[1] = t
    BY <1>2, <1>3
  <2>2. \E w \in Join(B, C, 2) : w # <<>> /\ w[1] = u[1]
    BY <1>2, <2>1, JoinCarries
  <2> QED BY <1>2, <2>1, <2>2
<1>4. CASE SeqVanishes(suf, nullable) /\ t \in fw[g[x[1]].name]
  <2>1. g[x[1]].name \in NamesOf(g)
    BY InputsAssumption, RefFacts
  <2>2. PICK s \in C : s[1] = t
    BY <1>2, <1>4, <2>1 DEF Followed
  <2>3. PICK e \in B : e = <<>>
    BY <1>2, <1>4
  <2>4. C \subseteq Join(B, C, 2)
    BY <2>3, JoinCarries
  <2> QED BY <1>2, <2>2, <2>4
<1> QED BY <1>1, <1>3, <1>4 DEF NextTokens

LEMMA PairsBacked ==
    ASSUME NEW g \in Inputs, Sound(g), Backed(first, nullable, g, WordStarts(g, 2)),
           DOMAIN first = NamesOf(g), Followed(follow, g),
           \A r \in NamesOf(g) : pairs[r] \subseteq Of(Continuations(g), r),
           NEW x \in Places(g), NEW p \in PairsOf(SuffixOf(g, x), g[x[1]].name)
    PROVE  p \in Of(Continuations(g), TargetOf(g, x))
<1>1. PICK suf : suf = SuffixOf(g, x)
  OBVIOUS
<1>2. PICK r \in NamesOf(g) : r = g[x[1]].name
  BY InputsAssumption, RefFacts
<1>3. PICK B, C \in SUBSET Beginnings(Tokens(g)) :
              /\ B = SeqStarts(suf, WordStarts(g, 2), 2)
              /\ C = Of(Continuations(g), r) /\ C # {} /\ <<>> \notin C
              /\ Join(B, C, 2) \subseteq Of(Continuations(g), TargetOf(g, x))
              /\ SeqVanishes(suf, nullable) => <<>> \in B
  BY <1>1, <1>2, SoundPassing
<1>4. CASE SeqVanishes(suf, nullable) /\ p \in pairs[r]
  <2>1. p \in C
    BY <1>3, <1>4
  <2>2. PICK e \in B : e = <<>>
    BY <1>3, <1>4
  <2>3. C \subseteq Join(B, C, 2)
    BY <2>2, JoinCarries
  <2> QED BY <1>3, <2>1, <2>3
<1>5. ASSUME NEW j \in FirstToken(suf),
             p \in {suf[j].name} \X NextTokens(SubSeq(suf, j + 1, Len(suf)), follow[r])
      PROVE  p \in Of(Continuations(g), TargetOf(g, x))
  <2>1. j \in Reached(suf, nullable) /\ ~IsRef(suf[j])
    BY DEF FirstToken
  <2>2. PICK rest : rest = SubSeq(suf, j + 1, Len(suf))
    OBVIOUS
  <2>3. OfElements(suf, g)
    BY <1>1, InputsAssumption, RefFacts
  <2>4. /\ \A t \in FirstOfSeq(rest, first, nullable) : << suf[j].name, t >> \in B
        /\ SeqVanishes(rest, nullable) => << suf[j].name >> \in B
    BY <1>3, <2>1, <2>2, <2>3, ReadsPairs DEF Sound
  <2>5. PICK t \in NextTokens(rest, follow[r]) : p = << suf[j].name, t >>
    BY <1>5, <2>2
  <2>6. CASE t \in FirstOfSeq(rest, first, nullable)
    <3>1. p \in B /\ Len(p) = 2
      BY <2>4, <2>5, <2>6
    <3>2. p \in Join(B, C, 2)
      BY <1>3, <3>1, JoinCarries
    <3> QED BY <1>3, <3>2
  <2>7. CASE SeqVanishes(rest, nullable) /\ t \in follow[r]
    <3>1. PICK s \in C : s[1] = t /\ s # <<>>
      BY <1>3, <2>7 DEF Followed
    <3>2. PICK u \in B : u = << suf[j].name >>
      BY <2>4, <2>7
    <3>3. Len(u) = 1 /\ u[1] = suf[j].name
      BY <3>2
    <3>4. << u[1], s[1] >> \in Join(B, C, 2)
      <4>1. \A v \in C : v # <<>> => << u[1], v[1] >> \in Join(B, C, 2)
        BY <3>3, JoinCarries
      <4> QED BY <3>1, <4>1
    <3> QED BY <1>3, <2>5, <3>1, <3>3, <3>4
  <2> QED BY <2>5, <2>6, <2>7 DEF NextTokens
<1>6. p \in (IF SeqVanishes(suf, nullable) THEN pairs[r] ELSE {})
            \cup UNION { {suf[j].name} \X NextTokens(SubSeq(suf, j + 1, Len(suf)), follow[r]) : j \in FirstToken(suf) }
  BY <1>1, <1>2 DEF PairsOf
<1> QED BY <1>4, <1>5, <1>6

-----------------------------------------------------------------------------
(* Initially, and step by step.                                            *)
LEMMA RuleOf ==
    ASSUME TypeInv
    PROVE  /\ WellFormed(grammar) /\ grammar[1].name \in Rules
           /\ \A x \in OfNoClass(grammar) : RuleAt(x) \in Rules
           /\ \A x \in Places(grammar) : RuleAt(x) \in Rules
           /\ DOMAIN first = Rules /\ DOMAIN follow = Rules /\ DOMAIN pairs = Rules
<1>1. WellFormed(grammar) /\ grammar[1].name \in Rules
  BY InputsAssumption, FirstContinuation DEF TypeInv, Rules
<1>2. \A x \in OfNoClass(grammar) : RuleAt(x) \in Rules
  BY <1>1, AltFacts DEF OfNoClass, RuleAt, Rules
<1>3. \A x \in Places(grammar) : RuleAt(x) \in Rules
  BY <1>1, RefFacts DEF RuleAt, Rules
<1>4. DOMAIN first = Rules /\ DOMAIN follow = Rules /\ DOMAIN pairs = Rules
  BY DomainOf DEF TypeInv
<1> QED BY <1>1, <1>2, <1>3, <1>4

LEMMA InitHolds == Init => AnalysisInv
<1> SUFFICES ASSUME Init PROVE AnalysisInv
  OBVIOUS
<1> USE DEF Init
<1>1. PICK g \in Inputs : g = grammar
  OBVIOUS
<1>2. TypeInv
  BY DEF TypeInv, PlacesOf, EmptySets, Rules
<1>3. FirstInv
  <2>1. \A r \in Rules \cap DOMAIN ClassSets : ClassSets[r] \in first[r]
    OBVIOUS
  <2>2. ASSUME NEW r \in NamesOf(g), NEW t \in first[r]
        PROVE  \E w \in Of(WordStarts(g, 2), r) : w # <<>> /\ w[1] = t
    <3>1. r \in NamesOf(g) \cap DOMAIN ClassSets /\ t = ClassSets[r]
      BY <1>1, <2>2 DEF Rules
    <3>2. << ClassSets[r] >> \in Of(WordStarts(g, 2), r)
      BY <3>1, WordFacts
    <3>3. << ClassSets[r] >> # <<>> /\ << ClassSets[r] >>[1] = ClassSets[r]
      OBVIOUS
    <3> QED BY <3>1, <3>2, <3>3
  <2>3. Backed(first, nullable, grammar, WordStarts(grammar, 2))
    BY <1>1, <2>2 DEF Backed
  <2> QED BY <2>1, <2>3 DEF FirstInv
<1>4. FollowInv
  BY DEF FollowInv, Followed, EmptySets
<1>5. PairsInv
  BY DEF PairsInv, EmptySets, Rules
<1> QED BY <1>2, <1>3, <1>4, <1>5 DEF AnalysisInv

LEMMA FirstStep ==
    ASSUME AnalysisInv, NEW x \in places, FirstOfAlt(x)
    PROVE  AnalysisInv'
<1> USE DEF AnalysisInv
<1>1. PICK g \in Inputs : /\ g = grammar /\ grammar' = g
                          /\ phase = "first" /\ phase' = "first" /\ follow' = follow /\ pairs' = pairs
                          /\ places' = places \ {x}
  BY DEF FirstOfAlt, TypeInv
<1>2. PICK r, alt : r = g[x[1]].name /\ alt = AltAt(g, x)
  OBVIOUS
<1>3. x \in OfNoClass(g)
  BY <1>1 DEF TypeInv, PlacesOf
<1>4. r \in NamesOf(g)
  BY <1>1, <1>2, <1>3, RuleOf DEF RuleAt, Rules
<1>5. /\ first' = Add(first, r, FirstOfSeq(alt, first, nullable))
      /\ nullable' = IF SeqVanishes(alt, nullable) THEN nullable \cup {r} ELSE nullable
      /\ changed' = (changed \/ first' # first \/ nullable' # nullable)
  BY <1>1, <1>2 DEF FirstOfAlt, RuleAt
<1>6. first = [ q \in NamesOf(g) |-> first[q] ]
  BY <1>1 DEF TypeInv, Rules
<1>7. /\ first' = [ q \in NamesOf(g) |-> first'[q] ]
      /\ first'[r] = first[r] \cup FirstOfSeq(alt, first, nullable)
      /\ \A q \in NamesOf(g) : q # r => first'[q] = first[q]
  BY <1>4, <1>5, <1>6, AddFacts
<1>8. TypeInv'
  <2>1. changed' \in BOOLEAN
    BY <1>5 DEF TypeInv
  <2>2. places' \subseteq PlacesOf(phase)'
    BY <1>1 DEF TypeInv, PlacesOf
  <2> QED BY <1>1, <1>7, <2>1, <2>2 DEF TypeInv, Rules
<1>9. FirstInv'
  <2>1. \A q \in NamesOf(g) \cap DOMAIN ClassSets : ClassSets[q] \in first'[q]
    BY <1>1, <1>7 DEF FirstInv, Rules
  <2>2. nullable' \subseteq NamesOf(g)
    BY <1>1, <1>4, <1>5 DEF FirstInv, Rules
  <2>3. Backed(first', nullable', g, WordStarts(g, 2))
    <3>1. Backed(first, nullable, g, WordStarts(g, 2))
      BY <1>1 DEF FirstInv
    <3> QED BY <1>2, <1>3, <1>5, <1>6, <3>1, FirstBacked
  <2>4. ASSUME NEW y \in OfNoClass(g), ~changed', y \notin places' PROVE AltHeld(g, first', nullable', y)
    <3>1. first' = first /\ nullable' = nullable /\ ~changed
      BY <1>5, <2>4 DEF TypeInv
    <3>2. CASE y = x
      <4>1. FirstOfSeq(alt, first, nullable) \subseteq first[r] /\ (SeqVanishes(alt, nullable) => r \in nullable)
        BY <1>5, <1>7, <3>1
      <4> QED BY <1>2, <3>1, <3>2, <4>1 DEF AltHeld
    <3>3. CASE y # x
      <4>1. y \notin places
        BY <1>1, <2>4, <3>3
      <4> QED BY <1>1, <3>1, <4>1 DEF FirstInv
    <3> QED BY <3>2, <3>3
  <2> QED BY <1>1, <2>1, <2>2, <2>3, <2>4 DEF FirstInv, Rules
<1>10. FollowInv'
  BY <1>1 DEF FollowInv
<1>11. PairsInv'
  BY <1>1 DEF PairsInv, Rules
<1> QED BY <1>8, <1>9, <1>10, <1>11

LEMMA FollowStep ==
    ASSUME AnalysisInv, NEW x \in places, FollowOfRef(x)
    PROVE  AnalysisInv'
<1> USE DEF AnalysisInv
<1>1. PICK g \in Inputs : /\ g = grammar /\ grammar' = g
                          /\ phase = "follow" /\ phase' = "follow" /\ first' = first /\ nullable' = nullable
                          /\ pairs' = pairs /\ places' = places \ {x}
  BY DEF FollowOfRef, TypeInv
<1>2. PICK r, n, new : r = g[x[1]].name /\ n = TargetOf(g, x) /\ new = NextTokens(SuffixOf(g, x), follow[r])
  OBVIOUS
<1>3. x \in Places(g)
  BY <1>1 DEF TypeInv, PlacesOf
<1>4. r \in NamesOf(g) /\ DOMAIN follow = NamesOf(g) /\ DOMAIN first = NamesOf(g)
  BY <1>1, <1>2, <1>3, RuleOf DEF RuleAt, Rules
<1>5. /\ follow' = IF n \notin NamesOf(g) THEN follow ELSE Add(follow, n, new)
      /\ changed' = (changed \/ follow' # follow)
  BY <1>1, <1>2, <1>4 DEF FollowOfRef, RuleAt, Named, Rest
<1>6. follow = [ q \in NamesOf(g) |-> follow[q] ]
  BY <1>1 DEF TypeInv, Rules
<1>7. /\ follow' = [ q \in NamesOf(g) |-> follow'[q] ]
      /\ n \in NamesOf(g) => follow'[n] = follow[n] \cup new
      /\ \A q \in NamesOf(g) : q # n => follow'[q] = follow[q]
  <2>1. CASE n \in NamesOf(g)
    BY <1>5, <1>6, <2>1, AddFacts
  <2>2. CASE n \notin NamesOf(g)
    BY <1>5, <1>6, <2>2
  <2> QED BY <2>1, <2>2
<1>8. TypeInv'
  <2>1. changed' \in BOOLEAN
    BY <1>5 DEF TypeInv
  <2>2. places' \subseteq PlacesOf(phase)'
    BY <1>1 DEF TypeInv, PlacesOf
  <2> QED BY <1>1, <1>7, <2>1, <2>2 DEF TypeInv, Rules
<1>9. FirstInv'
  BY <1>1 DEF FirstInv, Rules
<1>10. FollowInv'
  <2>1. End \in follow'[g[1].name]
    <3>1. g[1].name \in NamesOf(g) /\ End \in follow[g[1].name]
      BY <1>1, RuleOf DEF FollowInv, Rules
    <3> QED BY <1>7, <3>1
  <2>2. ASSUME Sound(g) PROVE Followed(follow', g)
    <3>1. Followed(follow, g) /\ Backed(first, nullable, g, WordStarts(g, 2))
      BY <1>1, <2>2 DEF FollowInv, FirstInv
    <3>2. ASSUME NEW q \in NamesOf(g), NEW t \in follow'[q] PROVE \E s \in Of(Continuations(g), q) : s[1] = t
      <4>1. CASE t \in follow[q]
        BY <3>1, <4>1 DEF Followed
      <4>2. CASE q = n /\ t \in new
        BY <1>2, <1>3, <1>4, <2>2, <3>1, <4>2, FollowBacked
      <4> QED BY <1>7, <3>2, <4>1, <4>2
    <3> QED BY <3>2 DEF Followed
  <2>3. ASSUME NEW y \in Places(g), ~changed', y \notin places' PROVE RefHeld(g, first, nullable, follow', y)
    <3>1. follow' = follow /\ ~changed
      BY <1>5, <2>3 DEF TypeInv
    <3>2. CASE y = x
      <4>1. n \in NamesOf(g) => new \subseteq follow[n]
        BY <1>7, <3>1
      <4> QED BY <1>2, <3>1, <3>2, <4>1 DEF RefHeld, NextTokens
    <3>3. CASE y # x
      <4>1. y \notin places
        BY <1>1, <2>3, <3>3
      <4> QED BY <1>1, <3>1, <4>1 DEF FollowInv
    <3> QED BY <3>2, <3>3
  <2> QED BY <1>1, <2>1, <2>2, <2>3 DEF FollowInv
<1>11. PairsInv'
  BY <1>1 DEF PairsInv, Rules
<1> QED BY <1>8, <1>9, <1>10, <1>11

LEMMA PairsStep ==
    ASSUME AnalysisInv, NEW x \in places, PairsOfRef(x)
    PROVE  AnalysisInv'
<1> USE DEF AnalysisInv
<1>1. PICK g \in Inputs : /\ g = grammar /\ grammar' = g
                          /\ phase = "pairs" /\ phase' = "pairs" /\ first' = first /\ nullable' = nullable
                          /\ follow' = follow /\ places' = places \ {x}
  BY DEF PairsOfRef, TypeInv
<1>2. PICK r, n, new : r = g[x[1]].name /\ n = TargetOf(g, x) /\ new = PairsOf(SuffixOf(g, x), r)
  OBVIOUS
<1>3. x \in Places(g)
  BY <1>1 DEF TypeInv, PlacesOf
<1>4. DOMAIN pairs = NamesOf(g) /\ DOMAIN first = NamesOf(g)
  BY <1>1, RuleOf DEF Rules
<1>5. /\ pairs' = IF n \notin NamesOf(g) THEN pairs ELSE Add(pairs, n, new)
      /\ changed' = (changed \/ pairs' # pairs)
  BY <1>1, <1>2, <1>4 DEF PairsOfRef, RuleAt, Named, Rest
<1>6. pairs = [ q \in NamesOf(g) |-> pairs[q] ]
  BY <1>1 DEF TypeInv, Rules
<1>7. /\ pairs' = [ q \in NamesOf(g) |-> pairs'[q] ]
      /\ n \in NamesOf(g) => pairs'[n] = pairs[n] \cup new
      /\ \A q \in NamesOf(g) : q # n => pairs'[q] = pairs[q]
  <2>1. CASE n \in NamesOf(g)
    BY <1>5, <1>6, <2>1, AddFacts
  <2>2. CASE n \notin NamesOf(g)
    BY <1>5, <1>6, <2>2
  <2> QED BY <2>1, <2>2
<1>8. TypeInv'
  <2>1. changed' \in BOOLEAN
    BY <1>5 DEF TypeInv
  <2>2. places' \subseteq PlacesOf(phase)'
    BY <1>1 DEF TypeInv, PlacesOf
  <2> QED BY <1>1, <1>7, <2>1, <2>2 DEF TypeInv, Rules
<1>9. FirstInv'
  BY <1>1 DEF FirstInv, Rules
<1>10. FollowInv'
  BY <1>1 DEF FollowInv
<1>11. PairsInv'
  <2>1. ASSUME Sound(g), NEW q \in NamesOf(g), NEW p \in pairs'[q] PROVE p \in Of(Continuations(g), q)
    <3>1. /\ Followed(follow, g) /\ Backed(first, nullable, g, WordStarts(g, 2))
          /\ \A m \in NamesOf(g) : pairs[m] \subseteq Of(Continuations(g), m)
      BY <1>1, <2>1 DEF FollowInv, FirstInv, PairsInv, Rules
    <3>2. CASE p \in pairs[q]
      BY <3>1, <3>2
    <3>3. CASE q = n /\ p \in new
      BY <1>2, <1>3, <1>4, <2>1, <3>1, <3>3, PairsBacked
    <3> QED BY <1>7, <2>1, <3>2, <3>3
  <2> QED BY <1>1, <2>1 DEF PairsInv, Rules
<1> QED BY <1>8, <1>9, <1>10, <1>11

LEMMA RoundStep ==
    ASSUME AnalysisInv, NextRound
    PROVE  AnalysisInv'
<1> USE DEF AnalysisInv
<1>1. PICK g \in Inputs : /\ g = grammar /\ grammar' = g
                          /\ phase \in {"first", "follow", "pairs"} /\ places = {}
                          /\ first' = first /\ nullable' = nullable /\ pairs' = pairs /\ ~changed'
                          /\ changed' \in BOOLEAN
  BY DEF NextRound, NextPhase, TypeInv
<1>2. /\ g[1].name \in NamesOf(g)
      /\ follow = [ q \in NamesOf(g) |-> follow[q] ]
  BY <1>1, RuleOf DEF TypeInv, Rules
<1>3. CASE changed
  <2>1. phase' = phase /\ follow' = follow /\ places' = PlacesOf(phase)
    BY <1>3 DEF NextRound, Again
  <2>2. TypeInv'
    BY <1>1, <2>1 DEF TypeInv, PlacesOf, Rules
  <2>3. FirstInv'
    BY <1>1, <2>1 DEF FirstInv, PlacesOf, Rules
  <2>4. FollowInv'
    BY <1>1, <2>1 DEF FollowInv, PlacesOf
  <2>5. PairsInv'
    BY <1>1, <2>1 DEF PairsInv, Rules
  <2> QED BY <2>2, <2>3, <2>4, <2>5
<1>4. CASE ~changed
  <2>1. /\ phase' = NextPhase[phase]
        /\ places' = IF phase' = "done" THEN {} ELSE PlacesOf(phase')
        /\ follow' = IF phase = "first" THEN Add(follow, g[1].name, {End}) ELSE follow
    BY <1>1, <1>4 DEF NextRound, Again
  <2>2. /\ phase' \in {"follow", "pairs", "done"}
        /\ phase = "first" <=> phase' = "follow"
    BY <1>1, <2>1 DEF NextPhase
  <2>3. places' = IF phase' = "done" THEN {} ELSE Places(g)
    BY <1>1, <2>1, <2>2 DEF PlacesOf
  <2>4. /\ follow' = [ q \in NamesOf(g) |-> follow'[q] ]
        /\ phase = "first" => follow'[g[1].name] = follow[g[1].name] \cup {End}
        /\ phase # "first" => follow' = follow
        /\ \A q \in NamesOf(g) : q # g[1].name => follow'[q] = follow[q]
    <3>1. CASE phase = "first"
      <4>1. PICK r \in NamesOf(g) : r = g[1].name /\ follow' = Add(follow, r, {End})
        BY <1>2, <2>1, <3>1
      <4>2. /\ follow' = [ q \in NamesOf(g) |-> follow'[q] ]
            /\ follow'[r] = follow[r] \cup {End}
            /\ \A q \in NamesOf(g) : q # r => follow'[q] = follow[q]
        BY <1>2, <4>1, AddFacts
      <4> QED BY <3>1, <4>1, <4>2
    <3>2. CASE phase # "first"
      BY <1>2, <2>1, <3>2
    <3> QED BY <3>1, <3>2
  <2>5. TypeInv'
    <3>1. places' \subseteq PlacesOf(phase)'
      BY <1>1, <2>2, <2>3 DEF PlacesOf
    <3> QED BY <1>1, <2>2, <2>4, <3>1 DEF TypeInv, Rules
  <2>6. FirstInv'
    <3>1. \A x \in OfNoClass(g) : AltHeld(g, first, nullable, x)
      BY <1>1, <1>4 DEF FirstInv
    <3> QED BY <1>1, <3>1 DEF FirstInv, Rules
  <2>7. FollowInv'
    <3>1. End \in follow'[g[1].name]
      BY <1>1, <2>4 DEF FollowInv
    <3>2. ASSUME Sound(g), NEW q \in NamesOf(g), NEW t \in follow'[q]
          PROVE  \E s \in Of(Continuations(g), q) : s[1] = t
      <4>1. CASE t \in follow[q]
        BY <1>1, <3>2, <4>1 DEF FollowInv, Followed
      <4>2. CASE q = g[1].name /\ t = End
        <5>1. << End >> \in Of(Continuations(g), q) /\ << End >>[1] = t
          BY <4>2, ContinuationFacts
        <5> QED BY <5>1
      <4> QED BY <2>4, <3>2, <4>1, <4>2
    <3>3. Sound(g) => Followed(follow', g)
      BY <3>2 DEF Followed
    <3>4. ASSUME NEW x \in Places(g), phase' # "follow" PROVE RefHeld(g, first, nullable, follow', x)
      <4>1. phase # "first" /\ follow' = follow
        BY <2>2, <2>4, <3>4
      <4>2. RefHeld(g, first, nullable, follow, x)
        BY <1>1, <1>4, <4>1 DEF FollowInv
      <4> QED BY <4>1, <4>2
    <3>5. \A x \in Places(g) : phase' = "follow" => x \in places'
      BY <2>3
    <3> QED BY <1>1, <3>1, <3>3, <3>4, <3>5 DEF FollowInv
  <2>8. PairsInv'
    BY <1>1 DEF PairsInv, Rules
  <2> QED BY <2>5, <2>6, <2>7, <2>8
<1> QED BY <1>3, <1>4 DEF TypeInv

LEMMA StepHolds == AnalysisInv /\ [Analysing]_vars => AnalysisInv'
<1> SUFFICES ASSUME AnalysisInv, [Analysing]_vars PROVE AnalysisInv'
  OBVIOUS
<1>1. CASE \E x \in places : FirstOfAlt(x)
  BY <1>1, FirstStep
<1>2. CASE \E x \in places : FollowOfRef(x)
  BY <1>2, FollowStep
<1>3. CASE \E x \in places : PairsOfRef(x)
  BY <1>3, PairsStep
<1>4. CASE NextRound
  BY <1>4, RoundStep
<1>5. CASE UNCHANGED vars
  BY <1>5 DEF vars, AnalysisInv, TypeInv, FirstInv, FollowInv, PairsInv, PlacesOf, Rules
<1> QED BY <1>1, <1>2, <1>3, <1>4, <1>5 DEF Analysing

(* The sets are always the words' and never run ahead of them, and what a  *)
(* finished round leaves out is nowhere left to add                        *)
(* (compute_first_sets, compute_follow_sets, compute_follow_pairs).        *)
THEOREM AnalysisInvariant == Analysis => []AnalysisInv
BY InitHolds, StepHolds, PTL DEF Analysis

-----------------------------------------------------------------------------
(* FIRST and nullable are exactly what the rules' words begin with.        *)
LEMMA FirstFromInv == AnalysisInv => FirstIsExact
<1> SUFFICES ASSUME AnalysisInv, phase = "done" PROVE
      \A r \in Rules : /\ r \in nullable <=> <<>> \in Of(WordStarts(grammar, 2), r)
                       /\ Heads(Of(WordStarts(grammar, 2), r)) \subseteq first[r]
                       /\ NoDeadEnd(grammar) => first[r] = Heads(Of(WordStarts(grammar, 2), r))
  BY DEF FirstIsExact
<1>1. PICK g \in Inputs : g = grammar /\ DOMAIN first = NamesOf(g)
  BY RuleOf DEF AnalysisInv, TypeInv, Rules
<1>2. PICK W : W = WordStarts(g, 2)
  OBVIOUS
<1>3. Backed(first, nullable, g, W)
  BY <1>1, <1>2 DEF AnalysisInv, FirstInv
<1>4. Holds(first, nullable, g, W)
  <2>1. /\ \A x \in OfNoClass(g) : AltHeld(g, first, nullable, x)
        /\ \A r \in NamesOf(g) \cap DOMAIN ClassSets : ClassSets[r] \in first[r]
    BY <1>1 DEF AnalysisInv, FirstInv, Rules
  <2> QED BY <1>1, <1>2, <2>1, WordsHeld
<1>5. ASSUME NEW r \in NamesOf(g)
      PROVE  /\ r \in nullable <=> <<>> \in Of(W, r)
             /\ Heads(Of(W, r)) \subseteq first[r]
             /\ NoDeadEnd(g) => first[r] = Heads(Of(W, r))
  <2>1. r \in nullable <=> <<>> \in Of(W, r)
    BY <1>3, <1>4 DEF Holds, Backed
  <2>2. Heads(Of(W, r)) \subseteq first[r]
    BY <1>4 DEF Holds, Heads
  <2>3. NoDeadEnd(g) => first[r] \subseteq Heads(Of(W, r))
    BY <1>3 DEF Backed, Heads
  <2> QED BY <2>1, <2>2, <2>3
<1> QED BY <1>1, <1>2, <1>5 DEF Rules

(* FIRST and nullable of every rule, in every grammar                      *)
(* (compute_first_sets).                                                   *)
THEOREM FirstExact == Analysis => []FirstIsExact
BY AnalysisInvariant, FirstFromInv, PTL

LEMMA FollowFromInv == AnalysisInv => FollowIsExact
<1> SUFFICES ASSUME AnalysisInv, phase = "done" PROVE
      \A r \in Rules : /\ Heads(Of(Continuations(grammar), r)) \subseteq follow[r]
                       /\ NoDeadEnd(grammar) /\ NoOrphan(grammar) =>
                             follow[r] = Heads(Of(Continuations(grammar), r))
  BY DEF FollowIsExact
<1>1. PICK g \in Inputs : g = grammar /\ DOMAIN first = NamesOf(g)
  BY RuleOf DEF AnalysisInv, TypeInv, Rules
<1>2. Holds(first, nullable, g, WordStarts(g, 2))
  <2>1. /\ \A x \in OfNoClass(g) : AltHeld(g, first, nullable, x)
        /\ \A r \in NamesOf(g) \cap DOMAIN ClassSets : ClassSets[r] \in first[r]
    BY <1>1 DEF AnalysisInv, FirstInv, Rules
  <2> QED BY <1>1, <2>1, WordsHeld
<1>3. \A r \in NamesOf(g) : \A s \in Of(Continuations(g), r) : s[1] \in follow[r]
  <2>1. End \in follow[g[1].name] /\ \A x \in Places(g) : RefHeld(g, first, nullable, follow, x)
    BY <1>1 DEF AnalysisInv, FollowInv
  <2> QED BY <1>1, <1>2, <2>1, ContinuationsHeld
<1>4. ASSUME NEW r \in NamesOf(g)
      PROVE  /\ Heads(Of(Continuations(g), r)) \subseteq follow[r]
             /\ Sound(g) => follow[r] \subseteq Heads(Of(Continuations(g), r))
  <2>1. Heads(Of(Continuations(g), r)) \subseteq follow[r]
    BY <1>3 DEF Heads
  <2>2. ASSUME Sound(g), NEW t \in follow[r] PROVE t \in Heads(Of(Continuations(g), r))
    <3>1. PICK s \in Of(Continuations(g), r) : s[1] = t
      BY <1>1, <2>2 DEF AnalysisInv, FollowInv, Followed
    <3>2. s # <<>>
      BY ContinuationFacts, ContFacts
    <3> QED BY <3>1, <3>2 DEF Heads
  <2> QED BY <2>1, <2>2
<1> QED BY <1>1, <1>4 DEF Rules, Sound

(* FOLLOW of every rule, in every grammar (compute_follow_sets).           *)
THEOREM FollowExact == Analysis => []FollowIsExact
BY AnalysisInvariant, FollowFromInv, PTL

(* Every pair kept is one that can really follow its rule, in every        *)
(* grammar (compute_follow_pairs).                                         *)
THEOREM PairsFollow == Analysis => []PairsReallyFollow
<1>1. AnalysisInv => PairsReallyFollow
  BY DEF AnalysisInv, PairsInv, PairsReallyFollow, Sound
<1> QED BY <1>1, AnalysisInvariant, PTL
=============================================================================
