---------------------------- MODULE Limits_proofs ---------------------------
(***************************************************************************)
(* Proofs about what the emitter may hold and what it remembers.           *)
(*                                                                         *)
(* EmitBudget, for every limit, every depth of walk and every size of      *)
(* charge: the two counts never pass the limit together, what is held      *)
(* covers what is in memory but for second copies, and nothing leaks       *)
(* between decisions.                                                      *)
(*                                                                         *)
(* Contest, for every set of tokens and every limit of the memo: the memo  *)
(* holds what would be answered without it, which is TRUE of every two     *)
(* tokens that can be read of one input and, where the first characters    *)
(* are known, of no others.                                                *)
(***************************************************************************)
EXTENDS EmitBudget, Contest, SequenceTheorems, TLAPS
\* The first half of Covered, for walks ws, h units held and b of them not
\* the walks' own.
Chain(ws, h, b) ==
    \A k \in 1..Len(ws) :
       /\ b <= ws[k].at
       /\ ws[k].copied <= ws[k].spent
       /\ ws[k].at + Once(ws[k]) <= (IF k = Len(ws) THEN h ELSE ws[k + 1].at)

\* What a walk's paths count.
LEMMA OnceTyped ==
    ASSUME NEW w \in Walk
    PROVE  /\ w.at \in Nat /\ w.left \in Nat /\ w.spent \in Nat
           /\ w.next \in Nat /\ w.copied \in Nat
           /\ Once(w) = w.left + (w.spent - w.copied) + w.next
           /\ Once(w) \in Int
           /\ w.copied <= w.spent => Once(w) \in Nat /\ w.left + w.next <= Once(w)
<1>1. PICK l \in Nat, s \in Nat, m \in Nat, c \in Nat :
         l = w.left /\ s = w.spent /\ m = w.next /\ c = w.copied
  BY DEF Walk
<1>2. /\ Once(w) = l + (s - c) + m
      /\ Once(w) \in Int
      /\ c <= s => Once(w) \in Nat /\ l + m <= Once(w)
  BY <1>1 DEF Once
<1> QED BY <1>1, <1>2 DEF Walk

\* What had been written when the step under way began.
StartWritten == start <= written

\* What makes the invariants inductive: a decision's base is what an idle
\* emitter holds, nothing, and walks are open in decisions alone.
AtRest == /\ phase \in {"idle", "using"} => walks = <<>>
          /\ phase \in Kinds \cup {"idle", "using"} => base = 0
          /\ result <= kept

IInv == TypeOK /\ WithinLimit /\ Covered /\ StartWritten /\ NothingLeaks /\ AtRest

(* What is below the top of a stack of walks.                              *)
LEMMA OuterFacts ==
    ASSUME NEW seq \in Seq(Walk), seq # <<>>
    PROVE  /\ Len(seq) \in Nat \ {0}
           /\ seq[Len(seq)] \in Walk
           /\ SubSeq(seq, 1, Len(seq) - 1) \in Seq(Walk)
           /\ Len(SubSeq(seq, 1, Len(seq) - 1)) = Len(seq) - 1
           /\ \A k \in 1..(Len(seq) - 1) : SubSeq(seq, 1, Len(seq) - 1)[k] = seq[k]
<1>1. Len(seq) \in Nat /\ Len(seq) # 0
  BY EmptySeq, LenProperties
<1>2. \A k \in 1..Len(seq) : seq[k] \in Walk
  BY ElementOfSeq
<1>3. \A k \in 1..(Len(seq) - 1) : seq[k] \in Walk
  BY <1>1, <1>2
<1> DEFINE out == SubSeq(seq, 1, Len(seq) - 1)
<1>4. /\ out \in Seq(Walk)
      /\ Len(out) = (IF 1 <= Len(seq) - 1 THEN Len(seq) - 1 - 1 + 1 ELSE 0)
      /\ \A k \in 1..(Len(seq) - 1 - 1 + 1) : out[k] = seq[1 + k - 1]
  <2>1. Len(seq) - 1 \in Int
    BY <1>1
  <2> QED BY <1>3, <2>1, SubSeqProperties
<1> HIDE DEF out
<1>5. Len(out) = Len(seq) - 1
  <2> DEFINE n == Len(seq)
  <2>1. n \in Nat /\ n # 0 /\ Len(out) = (IF 1 <= n - 1 THEN n - 1 - 1 + 1 ELSE 0)
    BY <1>1, <1>4
  <2> HIDE DEF n
  <2>2. Len(out) = n - 1
    BY <2>1
  <2> QED BY <2>2 DEF n
<1>6. ASSUME NEW k \in 1..(Len(seq) - 1)
      PROVE  out[k] = seq[k]
  <2>1. k \in 1..(Len(seq) - 1 - 1 + 1) /\ 1 + k - 1 = k
    BY <1>1
  <2> QED BY <1>4, <2>1
<1>7. Len(seq) \in 1..Len(seq)
  BY <1>1
<1> QED BY <1>1, <1>2, <1>4, <1>5, <1>6, <1>7 DEF out

(* Pushing a walk that begins with what is held keeps the chain.           *)
LEMMA ChainPush ==
    ASSUME NEW ws \in Seq(Walk), NEW h \in Nat, NEW b \in Nat, Chain(ws, h, b), b <= h,
           NEW w \in Walk, NEW g \in Nat,
           w.at = h, w.copied <= w.spent, h + Once(w) <= g
    PROVE  Append(ws, w) \in Seq(Walk) /\ Chain(Append(ws, w), g, b)
<1> DEFINE new == Append(ws, w)
<1>1. /\ new \in Seq(Walk)
      /\ Len(new) = Len(ws) + 1
      /\ \A k \in 1..Len(ws) : new[k] = ws[k]
      /\ new[Len(ws) + 1] = w
  BY AppendProperties
<1>2. Len(ws) \in Nat
  BY LenProperties
<1>3. ASSUME NEW k \in 1..Len(new)
      PROVE  /\ b <= new[k].at
             /\ new[k].copied <= new[k].spent
             /\ new[k].at + Once(new[k]) <= (IF k = Len(new) THEN g ELSE new[k + 1].at)
  <2>1. CASE k = Len(ws) + 1
    BY <1>1, <2>1 DEF Walk
  <2>2. CASE k \in 1..Len(ws)
    <3>1. new[k] = ws[k] /\ k # Len(new) /\ (k = Len(ws) => new[k + 1].at = h)
          /\ (k # Len(ws) => new[k + 1] = ws[k + 1])
      BY <1>1, <1>2, <2>2
    <3> QED BY <3>1, <2>2 DEF Chain
  <2> QED BY <1>1, <1>2, <1>3, <2>1, <2>2
<1> QED BY <1>1, <1>3 DEF Chain

(* Popping a walk keeps the chain of those below it.                       *)
LEMMA ChainPop ==
    ASSUME NEW ws \in Seq(Walk), ws # <<>>, NEW h \in Nat, NEW b \in Nat, Chain(ws, h, b)
    PROVE  /\ SubSeq(ws, 1, Len(ws) - 1) \in Seq(Walk)
           /\ Chain(SubSeq(ws, 1, Len(ws) - 1), ws[Len(ws)].at, b)
           /\ ws[Len(ws)] \in Walk
           /\ b <= ws[Len(ws)].at
           /\ ws[Len(ws)].copied <= ws[Len(ws)].spent
           /\ ws[Len(ws)].at + Once(ws[Len(ws)]) <= h
<1> DEFINE out == SubSeq(ws, 1, Len(ws) - 1)
<1>1. /\ Len(ws) \in Nat \ {0}
      /\ ws[Len(ws)] \in Walk
      /\ out \in Seq(Walk)
      /\ Len(out) = Len(ws) - 1
      /\ \A k \in 1..(Len(ws) - 1) : out[k] = ws[k]
  BY OuterFacts
<1>2. ASSUME NEW k \in 1..Len(out)
      PROVE  /\ b <= out[k].at
             /\ out[k].copied <= out[k].spent
             /\ out[k].at + Once(out[k]) <=
                   (IF k = Len(out) THEN ws[Len(ws)].at ELSE out[k + 1].at)
  <2>1. k \in 1..Len(ws) /\ k # Len(ws) /\ out[k] = ws[k]
    BY <1>1
  <2>2. k # Len(out) => out[k + 1] = ws[k + 1]
    BY <1>1
  <2>3. k = Len(out) => k + 1 = Len(ws)
    BY <1>1
  <2> QED BY <2>1, <2>2, <2>3 DEF Chain
<1>3. Len(ws) \in 1..Len(ws)
  BY <1>1
<1> QED BY <1>1, <1>2, <1>3 DEF Chain

(* A chain says nothing of the room above it.                              *)
LEMMA ChainGrows ==
    ASSUME NEW ws \in Seq(Walk), NEW h \in Nat, NEW g \in Nat, h <= g,
           NEW b \in Nat, Chain(ws, h, b)
    PROVE  Chain(ws, g, b)
<1>1. Len(ws) \in Nat /\ \A k \in 1..Len(ws) : ws[k] \in Walk
  BY LenProperties, ElementOfSeq
<1>2. ASSUME NEW k \in 1..Len(ws)
      PROVE  /\ b <= ws[k].at
             /\ ws[k].copied <= ws[k].spent
             /\ ws[k].at + Once(ws[k]) <= (IF k = Len(ws) THEN g ELSE ws[k + 1].at)
  <2> DEFINE sum == ws[k].at + Once(ws[k])
  <2>1. sum \in Int
    <3>1. ws[k] \in Walk
      BY <1>1
    <3>2. ws[k].at \in Nat /\ Once(ws[k]) \in Int
      BY <3>1, OnceTyped
    <3> QED BY <3>2
  <2>2. /\ b <= ws[k].at /\ ws[k].copied <= ws[k].spent
        /\ sum <= (IF k = Len(ws) THEN h ELSE ws[k + 1].at)
    BY DEF Chain
  <2> HIDE DEF sum
  <2>3. sum <= h => sum <= g
    BY <2>1
  <2>4. sum <= (IF k = Len(ws) THEN g ELSE ws[k + 1].at)
    BY <2>2, <2>3
  <2> QED BY <2>2, <2>4 DEF sum
<1> QED BY <1>2 DEF Chain

-----------------------------------------------------------------------------
(* Covered, in terms of Chain.                                             *)
LEMMA CoveredChain ==
    Covered <=> /\ Chain(walks, held, base + kept)
                /\ phase \in Kinds \cup {"using"} => base + kept <= held
BY DEF Covered, Chain, Depths

(* In an open walk, there is room for what it has.                         *)
LEMMA InnerFacts ==
    ASSUME IInv, Walking
    PROVE  /\ Inner \in Walk
           /\ Inner.at \in Nat /\ Inner.left \in Nat /\ Inner.spent \in Nat
           /\ Inner.next \in Nat /\ Inner.copied \in Nat
           /\ Outer \in Seq(Walk)
           /\ Chain(Outer, Inner.at, base + kept)
           /\ base + kept <= Inner.at
           /\ Inner.copied <= Inner.spent
           /\ Inner.at + Inner.left + (Inner.spent - Inner.copied) + Inner.next <= held
           /\ Inner.at + Inner.left + Inner.next <= held
<1>1. walks \in Seq(Walk) /\ walks # <<>> /\ held \in Nat /\ base + kept \in Nat
  BY DEF IInv, TypeOK, Walking
<1>2. Chain(walks, held, base + kept)
  BY CoveredChain DEF IInv
<1>3. /\ Outer \in Seq(Walk) /\ Inner \in Walk
      /\ Chain(Outer, Inner.at, base + kept)
      /\ base + kept <= Inner.at
      /\ Inner.copied <= Inner.spent
      /\ Inner.at + Once(Inner) <= held
  BY <1>1, <1>2, ChainPop DEF Outer, Inner
<1>4. PICK at \in Nat, left \in Nat, s \in Nat, next \in Nat, c \in Nat :
         /\ at = Inner.at /\ left = Inner.left /\ s = Inner.spent
         /\ next = Inner.next /\ c = Inner.copied
         /\ Once(Inner) = left + (s - c) + next
  BY <1>3, OnceTyped
<1>5. PICK h \in Nat : h = held
  BY <1>1
<1>6. c <= s /\ at + (left + (s - c) + next) <= h
  BY <1>3, <1>4, <1>5
<1>7. /\ at + left + (s - c) + next <= h
      /\ at + left + next <= h
  BY <1>6
<1> QED BY <1>3, <1>4, <1>5, <1>7

(* A step on the paths of the innermost walk keeps the chain.              *)
LEMMA InnerChain ==
    ASSUME IInv, Walking, NEW l \in Nat, NEW s \in Nat, NEW m \in Nat, NEW c \in Nat,
           c <= s, NEW g \in Nat,
           Inner.at + l + (s - c) + m <= g, InnerBecomes(l, s, m, c)
    PROVE  walks' \in Seq(Walk) /\ Chain(walks', g, base + kept)
<1> DEFINE w == [at |-> Inner.at, left |-> l, spent |-> s, next |-> m, copied |-> c]
<1>1. /\ Outer \in Seq(Walk) /\ Inner.at \in Nat
      /\ Chain(Outer, Inner.at, base + kept) /\ base + kept <= Inner.at
  BY InnerFacts
<1>2. base + kept \in Nat
  BY DEF IInv, TypeOK
<1>3. w \in Walk /\ w.at = Inner.at /\ w.copied <= w.spent /\ Inner.at + Once(w) <= g
  <2>1. w \in Walk /\ w.at = Inner.at /\ w.copied <= w.spent
    BY <1>1 DEF Walk
  <2>2. Once(w) = l + (s - c) + m
    BY DEF Once
  <2>3. Inner.at + (l + (s - c) + m) <= g
    BY <1>1
  <2> QED BY <2>1, <2>2, <2>3
<1>4. Append(Outer, w) \in Seq(Walk) /\ Chain(Append(Outer, w), g, base + kept)
  <2> HIDE DEF w
  <2> QED BY <1>1, <1>2, <1>3, ChainPush
<1> QED BY <1>4 DEF InnerBecomes

(* No walk, no chain to keep.                                              *)
LEMMA ChainEmpty ==
    ASSUME NEW h, NEW b
    PROVE  <<>> \in Seq(Walk) /\ Chain(<<>>, h, b)
<1>1. <<>> \in Seq(Walk) /\ Len(<<>>) = 0
  BY EmptySeq
<1> QED BY <1>1 DEF Chain

(* What a charge or a hold that fits leaves within the limit.              *)
LEMMA RoomBound ==
    ASSUME TypeOK, WithinLimit, NEW n \in Nat, n <= Room
    PROVE  written + held + n <= Max
BY ConstantsAssumption DEF TypeOK, WithinLimit, Room

-----------------------------------------------------------------------------
(* What a step has to show: IInv, with Covered by its chain.               *)
LEMMA NextIInv ==
    ASSUME TypeOK', WithinLimit', StartWritten', NothingLeaks', AtRest',
           Chain(walks', held', base' + kept'),
           phase' \in Kinds \cup {"using"} => base' + kept' <= held'
    PROVE  IInv'
<1>1. Covered'
  BY DEF Covered, Chain, Depths
<1> QED BY <1>1 DEF IInv

(* A refusal changes neither count, and ends the compile.                  *)
LEMMA RefuseKeeps ==
    ASSUME IInv, NEW holding \in BOOLEAN, NEW n \in Nat, Refuse(holding, n)
    PROVE  IInv'
<1> USE DEF IInv, Refuse
<1>1. TypeOK'
  <2>1. refused' \in [holding : BOOLEAN, asked : Nat]
    OBVIOUS
  <2> QED BY <2>1 DEF TypeOK, Phases
<1>2. WithinLimit' /\ StartWritten' /\ NothingLeaks' /\ AtRest'
  BY DEF WithinLimit, StartWritten, NothingLeaks, AtRest, Kinds
<1>3. Chain(walks', held', base' + kept')
  BY CoveredChain
<1>4. phase' \notin Kinds \cup {"using"}
  BY DEF Kinds
<1> QED BY <1>1, <1>2, <1>3, <1>4, NextIInv

(* A step inside the innermost walk: what is held only grows.              *)
LEMMA InnerKeeps ==
    ASSUME IInv, Walking, NEW l \in Nat, NEW s \in Nat, NEW m \in Nat, NEW c \in Nat,
           c <= s, held' \in Nat, held <= held', written + held' <= Max,
           Inner.at + l + (s - c) + m <= held', InnerBecomes(l, s, m, c),
           UNCHANGED <<written, start, phase, base, kept, result, refused>>
    PROVE  IInv'
<1> USE DEF IInv
<1>1. walks' \in Seq(Walk) /\ Chain(walks', held', base + kept)
  BY InnerChain
<1>2. TypeOK'
  BY <1>1 DEF TypeOK
<1>3. phase' \in Kinds /\ phase' \notin {"idle", "using"} /\ base' = 0
  BY DEF Walking, AtRest, Kinds
<1>4. WithinLimit' /\ StartWritten' /\ NothingLeaks' /\ AtRest'
  BY <1>3 DEF WithinLimit, StartWritten, NothingLeaks, AtRest
<1>5. base' + kept' <= held'
  BY <1>3 DEF TypeOK, Covered, Walking
<1> QED BY <1>1, <1>2, <1>4, <1>5, NextIInv

(* A step that leaves no walk open, and its emitter in phase p.            *)
LEMMA ClosedKeeps ==
    ASSUME IInv, NEW p \in Kinds \cup {"idle", "using"}, phase' = p,
           walks' = <<>>, base' = 0, kept' \in Nat, result' \in Nat, result' <= kept',
           held' \in Nat, p # "idle" => kept' <= held',
           written' \in Nat, start' \in Nat, start' <= written',
           written' + held' <= Max, p = "idle" => held' = 0,
           UNCHANGED refused
    PROVE  IInv'
<1> USE DEF IInv
<1>1. walks' \in Seq(Walk) /\ Chain(walks', held', base' + kept')
  BY ChainEmpty
<1>2. TypeOK'
  BY <1>1 DEF TypeOK, Phases
<1>3. WithinLimit' /\ StartWritten' /\ NothingLeaks' /\ AtRest'
  BY DEF WithinLimit, StartWritten, NothingLeaks, AtRest
<1>4. phase' \in Kinds \cup {"using"} => base' + kept' <= held'
  <2>1. \A b, k \in Nat : b = 0 => b + k = k
    OBVIOUS
  <2>2. base' \in Nat
    OBVIOUS
  <2>3. base' + kept' = kept'
    BY <2>1, <2>2
  <2> QED BY <2>3 DEF Kinds
<1> QED BY <1>1, <1>2, <1>3, <1>4, NextIInv

-----------------------------------------------------------------------------
(* The compile begins with nothing written and nothing held.               *)
LEMMA InitIInv == Init => IInv
<1> SUFFICES ASSUME Init PROVE IInv
  OBVIOUS
<1> USE DEF Init
<1>1. Chain(walks, held, base + kept) /\ walks \in Seq(Walk)
  BY ChainEmpty
<1>2. TypeOK
  BY <1>1 DEF TypeOK, Phases, NoRefusal
<1>3. Covered
  BY <1>1, CoveredChain DEF Kinds
<1>4. WithinLimit /\ StartWritten /\ NothingLeaks /\ AtRest
  BY ConstantsAssumption DEF WithinLimit, StartWritten, NothingLeaks, AtRest
<1> QED BY <1>2, <1>3, <1>4 DEF IInv

(* The steps of a walk: entering, extending, leaving.                      *)
LEMMA EnterKeeps == IInv /\ Enter => IInv'
<1> SUFFICES ASSUME IInv, Enter PROVE IInv'
  OBVIOUS
<1> DEFINE w == [at |-> held, left |-> 0, spent |-> 0, next |-> 1, copied |-> 0]
<1>1. /\ TypeOK /\ WithinLimit /\ Covered /\ StartWritten /\ AtRest
      /\ phase \in Kinds /\ 1 <= Room
  BY DEF IInv, Enter
<1>2. /\ walks' = Append(walks, w) /\ held' = held + 1
      /\ UNCHANGED <<written, start, phase, base, kept, result, refused>>
  BY DEF Enter
<1>3. w \in Walk /\ w.at = held /\ w.copied <= w.spent /\ held + Once(w) <= held'
  BY <1>1, <1>2 DEF Walk, TypeOK, Once
<1>4. base = 0 /\ kept <= held /\ base + kept = kept /\ kept \in Nat /\ held \in Nat
  BY <1>1 DEF AtRest, Covered, TypeOK
<1>5. Chain(walks, held, kept)
  BY <1>1, <1>4, CoveredChain
<1>6. Append(walks, w) \in Seq(Walk) /\ Chain(Append(walks, w), held', kept)
  <2>1. walks \in Seq(Walk) /\ held' \in Nat
    BY <1>1, <1>2, <1>4 DEF TypeOK
  <2> HIDE DEF w
  <2> QED BY <1>3, <1>4, <1>5, <2>1, ChainPush
<1>7. TypeOK'
  BY <1>1, <1>2, <1>4, <1>6 DEF TypeOK
<1>8. WithinLimit'
  BY <1>1, <1>2, RoomBound DEF WithinLimit, TypeOK
<1>9. StartWritten' /\ NothingLeaks' /\ AtRest'
  BY <1>1, <1>2 DEF StartWritten, NothingLeaks, AtRest, Kinds
<1>10. base' + kept' = kept /\ kept <= held'
  BY <1>2, <1>4
<1> QED BY <1>2, <1>6, <1>7, <1>8, <1>9, <1>10, NextIInv

(* A walk goes on to its next element: the paths so far are its prefixes.  *)
LEMMA NextElementKeeps == IInv /\ NextElement => IInv'
<1> SUFFICES ASSUME IInv, NextElement PROVE IInv'
  OBVIOUS
<1> USE DEF NextElement
<1>1. Walking /\ Inner.left = 0 /\ InnerBecomes(Inner.next, 0, 0, 0)
  OBVIOUS
<1>2. held \in Nat /\ written \in Nat /\ written + held <= Max
  BY DEF IInv, TypeOK, WithinLimit
<1>3. Inner.next \in Nat /\ Inner.at + Inner.next + (0 - 0) + 0 <= held
  BY <1>1, InnerFacts
<1> QED BY <1>1, <1>2, <1>3, InnerKeeps

(* A path that is carried over as it is is not held again.                 *)
LEMMA CarryKeeps == IInv /\ (\E u \in Units : Carry(u)) => IInv'
<1> SUFFICES ASSUME IInv, NEW u \in Units, Carry(u) PROVE IInv'
  OBVIOUS
<1> USE DEF Carry
<1>1. /\ Walking /\ u <= Inner.left
      /\ InnerBecomes(Inner.left - u, Inner.spent + u, Inner.next + u, Inner.copied + u)
  OBVIOUS
<1>2. held \in Nat /\ written \in Nat /\ written + held <= Max /\ u \in Nat
  BY ConstantsAssumption DEF IInv, TypeOK, WithinLimit
<1>3. PICK at \in Nat, left \in Nat, s \in Nat, next \in Nat, c \in Nat :
         /\ at = Inner.at /\ left = Inner.left /\ s = Inner.spent
         /\ next = Inner.next /\ c = Inner.copied
         /\ c <= s /\ at + left + (s - c) + next <= held
  BY <1>1, InnerFacts
<1>4. PICK h \in Nat, n \in Nat : h = held /\ n = u
  BY <1>2
<1>5. n <= left /\ c <= s /\ at + left + (s - c) + next <= h
  BY <1>1, <1>3, <1>4
<1>6. /\ left - n \in Nat /\ s + n \in Nat /\ next + n \in Nat /\ c + n \in Nat
      /\ c + n <= s + n
      /\ at + (left - n) + ((s + n) - (c + n)) + (next + n) <= h
  BY <1>5
<1>7. InnerBecomes(left - n, s + n, next + n, c + n)
  BY <1>1, <1>3, <1>4
<1>8. Inner.at + (left - n) + ((s + n) - (c + n)) + (next + n) <= held'
  BY <1>3, <1>4, <1>6
<1> QED BY <1>1, <1>2, <1>6, <1>7, <1>8, InnerKeeps

(* An extended path is held before it is kept.                             *)
LEMMA PutKeeps == IInv /\ (\E n \in Units : Put(n)) => IInv'
<1> SUFFICES ASSUME IInv, NEW n \in Units, Put(n) PROVE IInv'
  OBVIOUS
<1> USE DEF Put
<1>1. /\ Walking /\ n <= Room /\ held' = held + n
      /\ InnerBecomes(Inner.left, Inner.spent, Inner.next + n, Inner.copied)
  OBVIOUS
<1>2. held \in Nat /\ written \in Nat /\ n \in Nat
  BY ConstantsAssumption DEF IInv, TypeOK
<1>3. written + held + n <= Max
  BY <1>1, <1>2, RoomBound DEF IInv
<1>4. /\ Inner.left \in Nat /\ Inner.spent \in Nat /\ Inner.next + n \in Nat
      /\ Inner.copied \in Nat /\ Inner.copied <= Inner.spent
      /\ Inner.at + Inner.left + (Inner.spent - Inner.copied) + (Inner.next + n) <= held'
  <2>1. PICK at \in Nat, left \in Nat, s \in Nat, next \in Nat, c \in Nat, h \in Nat :
           /\ at = Inner.at /\ left = Inner.left /\ s = Inner.spent
           /\ next = Inner.next /\ c = Inner.copied /\ h = held
           /\ c <= s /\ at + left + (s - c) + next <= h
    BY <1>1, <1>2, InnerFacts
  <2>2. next + n \in Nat /\ at + left + (s - c) + (next + n) <= h + n
    BY <1>2, <2>1
  <2> QED BY <1>1, <2>1, <2>2
<1>5. held' \in Nat /\ held <= held' /\ written + held' <= Max
  BY <1>1, <1>2, <1>3
<1> QED BY <1>1, <1>4, <1>5, InnerKeeps

(* A path that is dropped stays held.                                      *)
LEMMA DropKeeps == IInv /\ (\E u \in Units : Drop(u)) => IInv'
<1> SUFFICES ASSUME IInv, NEW u \in Units, Drop(u) PROVE IInv'
  OBVIOUS
<1> USE DEF Drop
<1>1. /\ Walking /\ u <= Inner.left
      /\ InnerBecomes(Inner.left - u, Inner.spent + u, Inner.next, Inner.copied)
  OBVIOUS
<1>2. held \in Nat /\ written \in Nat /\ written + held <= Max /\ u \in Nat
  BY ConstantsAssumption DEF IInv, TypeOK, WithinLimit
<1>3. /\ Inner.left - u \in Nat /\ Inner.spent + u \in Nat /\ Inner.next \in Nat
      /\ Inner.copied \in Nat /\ Inner.copied <= Inner.spent + u
      /\ Inner.at + (Inner.left - u) + ((Inner.spent + u) - Inner.copied) + Inner.next <= held
  <2>1. PICK at \in Nat, left \in Nat, s \in Nat, next \in Nat, c \in Nat, h \in Nat :
           /\ at = Inner.at /\ left = Inner.left /\ s = Inner.spent
           /\ next = Inner.next /\ c = Inner.copied /\ h = held
           /\ c <= s /\ at + left + (s - c) + next <= h
    BY <1>1, <1>2, InnerFacts
  <2>2. u <= left
    BY <1>1, <2>1
  <2>3. /\ left - u \in Nat /\ s + u \in Nat /\ c <= s + u
        /\ at + (left - u) + ((s + u) - c) + next <= h
    BY <1>2, <2>1, <2>2
  <2> QED BY <2>1, <2>3
<1> QED BY <1>1, <1>2, <1>3, InnerKeeps

(* A nested walk returns; what it held stays held, and is what its paths   *)
(* count for in the walk they are returned to.                             *)
LEMMA LeaveKeeps == IInv /\ Leave => IInv'
<1> SUFFICES ASSUME IInv, Leave PROVE IInv'
  OBVIOUS
<1> DEFINE n == Len(Outer)  t == Outer[n]
           w == [at |-> t.at, left |-> t.left, spent |-> t.spent + Inner.next,
                 next |-> t.next, copied |-> t.copied]
<1>1. /\ Walking /\ walks' = [Outer EXCEPT ![n].spent = @ + Inner.next]
      /\ Len(walks) > 1
      /\ UNCHANGED <<written, held, start, phase, base, kept, result, refused>>
  BY DEF Leave
<1>2. TypeOK /\ WithinLimit /\ Covered /\ StartWritten /\ AtRest
  BY DEF IInv
<1>3. /\ Outer \in Seq(Walk) /\ Chain(Outer, Inner.at, base + kept)
      /\ Inner.at \in Nat /\ Inner.next \in Nat /\ Inner.at + Inner.next <= held
      /\ held \in Nat /\ base + kept \in Nat
  <2>1. /\ Outer \in Seq(Walk) /\ Chain(Outer, Inner.at, base + kept)
        /\ held \in Nat /\ base + kept \in Nat
    <3>1. held \in Nat /\ base \in Nat /\ kept \in Nat
      BY <1>2 DEF TypeOK
    <3>2. base + kept \in Nat
      BY <3>1
    <3>3. Outer \in Seq(Walk) /\ Chain(Outer, Inner.at, base + kept)
      BY <1>1, InnerFacts
    <3> QED BY <3>1, <3>2, <3>3
  <2>2. PICK at \in Nat, left \in Nat, next \in Nat, h \in Nat :
           /\ at = Inner.at /\ left = Inner.left /\ next = Inner.next /\ h = held
           /\ at + left + next <= h
    BY <1>1, <2>1, InnerFacts
  <2>3. at + next <= h
    BY <2>2
  <2> QED BY <2>1, <2>2, <2>3
<1>4. n \in Nat \ {0} /\ n = Len(walks) - 1 /\ Outer # <<>>
  <2>1. walks \in Seq(Walk) /\ walks # <<>>
    BY <1>1, <1>2 DEF TypeOK, Walking
  <2>2. n = Len(walks) - 1 /\ Len(walks) \in Nat
    BY <2>1, OuterFacts DEF Outer
  <2>3. n \in Nat \ {0}
    BY <1>1, <2>2
  <2> QED BY <2>2, <2>3, EmptySeq
<1> DEFINE rest == SubSeq(Outer, 1, n - 1)
<1>5. /\ rest \in Seq(Walk) /\ Chain(rest, t.at, base + kept) /\ t \in Walk
      /\ base + kept <= t.at /\ t.copied <= t.spent /\ t.at + Once(t) <= Inner.at
  BY <1>3, <1>4, ChainPop
<1>6. /\ w \in Walk /\ w.at = t.at /\ w.copied <= w.spent /\ t.at + Once(w) <= held
  <2>1. PICK at \in Nat, left \in Nat, s \in Nat, next \in Nat, c \in Nat :
           /\ at = t.at /\ left = t.left /\ s = t.spent /\ next = t.next /\ c = t.copied
           /\ Once(t) = left + (s - c) + next
    BY <1>5, OnceTyped
  <2>2. PICK m \in Nat, h \in Nat, g \in Nat : m = Inner.next /\ h = held /\ g = Inner.at
    BY <1>3
  <2>3. w = [at |-> at, left |-> left, spent |-> s + m, next |-> next, copied |-> c]
    BY <2>1, <2>2
  <2>4. s + m \in Nat
    BY <2>2
  <2>5. w \in Walk /\ w.at = at /\ w.copied = c /\ w.spent = s + m
    BY <2>1, <2>3, <2>4 DEF Walk
  <2>6. Once(w) = left + ((s + m) - c) + next
    BY <2>3 DEF Once
  <2>7. c <= s /\ at + (left + (s - c) + next) <= g /\ g + m <= h
    BY <1>3, <1>5, <2>1, <2>2
  <2>8. c <= s + m /\ at + (left + ((s + m) - c) + next) <= h
    BY <2>7
  <2>9. w \in Walk /\ w.at = t.at /\ w.copied <= w.spent
    <3> HIDE DEF w, t
    <3> QED BY <2>1, <2>5, <2>8
  <2>10. t.at + Once(w) <= held
    <3> HIDE DEF w, t
    <3>1. t.at + Once(w) = at + (left + ((s + m) - c) + next)
      BY <2>1, <2>6
    <3> QED BY <2>2, <2>8, <3>1
  <2> QED BY <2>9, <2>10
<1>7. walks' = Append(rest, w)
  <2>1. /\ Len(rest) = n - 1 /\ \A k \in 1..(n - 1) : rest[k] = Outer[k]
    BY <1>3, <1>4, OuterFacts
  <2>2. [Outer EXCEPT ![n].spent = @ + Inner.next] = [Outer EXCEPT ![n] = w]
    <3>1. [t EXCEPT !.spent = @ + Inner.next] = w
      BY <1>5 DEF Walk
    <3> HIDE DEF w
    <3> QED BY <3>1
  <2> HIDE DEF w, n, rest
  <2>3. DOMAIN Outer = 1..n /\ n \in Nat \ {0}
    BY <1>3, <1>4 DEF n
  <2>4. Append(rest, w) = [k \in 1..n |-> IF k = n THEN w ELSE Outer[k]]
    <3>1. /\ Append(rest, w) \in Seq(Walk) /\ Len(Append(rest, w)) = n
          /\ \A k \in 1..(n - 1) : Append(rest, w)[k] = Outer[k]
          /\ Append(rest, w)[n] = w
      BY <1>5, <1>6, <2>1, <2>3, AppendProperties
    <3>2. PICK app \in Seq(Walk) : app = Append(rest, w)
      BY <3>1
    <3>3. /\ Len(app) = n /\ app[n] = w
          /\ \A k \in 1..n : k # n => app[k] = Outer[k]
      BY <2>3, <3>1, <3>2
    <3>4. app = [k \in 1..n |-> app[k]]
      <4>1. app \in [1..Len(app) -> Walk]
        BY LenProperties
      <4> QED BY <3>3, <4>1
    <3> QED BY <3>2, <3>3, <3>4
  <2>5. [Outer EXCEPT ![n] = w] = [k \in 1..n |-> IF k = n THEN w ELSE Outer[k]]
    BY <2>3
  <2> QED BY <1>1, <2>2, <2>4, <2>5
<1>8. walks' \in Seq(Walk) /\ Chain(walks', held, base + kept)
  <2> HIDE DEF w, rest, t
  <2>1. t.at \in Nat
    BY <1>5, OnceTyped
  <2> QED BY <1>3, <1>5, <1>6, <1>7, <2>1, ChainPush
<1>9. TypeOK'
  BY <1>1, <1>2, <1>8 DEF TypeOK
<1>10. WithinLimit' /\ StartWritten' /\ NothingLeaks' /\ AtRest'
  BY <1>1, <1>2 DEF WithinLimit, StartWritten, NothingLeaks, AtRest, Walking, Kinds
<1>11. base' + kept' <= held'
  BY <1>1, <1>2 DEF Covered, Walking
<1> QED BY <1>1, <1>8, <1>9, <1>10, <1>11, NextIInv

-----------------------------------------------------------------------------
(* The steps that end a walk, or are made with none open.                  *)
LEMMA SettleKeeps == IInv /\ Settle => IInv'
<1> SUFFICES ASSUME IInv, Settle PROVE IInv'
  OBVIOUS
<1>1. /\ phase = "dispatch" /\ walks' = <<>> /\ held' = Inner.at + Inner.next
      /\ kept' = kept + Inner.next
      /\ UNCHANGED <<written, start, phase, base, result, refused>>
  BY DEF Settle, SettleAt
<1>2. Walking
  <2>1. Len(walks) = 1
    BY DEF Settle, SettleAt
  <2> QED BY <1>1, <2>1, EmptySeq DEF Walking, Kinds
<1>3. base = 0 /\ TypeOK /\ WithinLimit /\ StartWritten /\ result <= kept
  BY <1>1 DEF IInv, AtRest, Kinds
<1>4. /\ kept' <= held' /\ held' <= held /\ held' \in Nat
      /\ kept' \in Nat /\ result' \in Nat /\ result' <= kept'
  <2>1. /\ Inner.at \in Nat /\ Inner.left \in Nat /\ Inner.next \in Nat
        /\ base + kept <= Inner.at /\ Inner.at + Inner.left + Inner.next <= held
    BY <1>2, InnerFacts
  <2>2. PICK at \in Nat, left \in Nat, next \in Nat : at = Inner.at /\ left = Inner.left /\ next = Inner.next
    BY <2>1
  <2>3. held \in Nat /\ kept \in Nat /\ result \in Nat /\ kept <= at /\ at + left + next <= held
    BY <1>3, <2>1, <2>2 DEF TypeOK
  <2>4. held' = at + next /\ kept' = kept + next /\ result' = result /\ result <= kept
    BY <1>1, <1>3, <2>2
  <2> QED BY <2>3, <2>4
<1>5. written + held' <= Max
  <2>1. written \in Nat /\ held \in Nat /\ written + held <= Max
    BY <1>3 DEF TypeOK, WithinLimit
  <2>2. held' <= held /\ held' \in Nat
    BY <1>4
  <2>3. \A w, h, g \in Nat : w + h <= Max /\ g <= h => w + g <= Max
    BY ConstantsAssumption
  <2> QED BY <2>1, <2>2, <2>3
<1> QED BY <1>1, <1>3, <1>4, <1>5, ClosedKeeps DEF TypeOK, StartWritten, Kinds

(* A prefix is held when it is made.                                       *)
LEMMA PrefixKeeps == IInv /\ (\E n \in Units : Prefix(n)) => IInv'
<1> SUFFICES ASSUME IInv, NEW n \in Units, Prefix(n) PROVE IInv'
  OBVIOUS
<1>1. /\ phase = "dispatch" /\ walks = <<>>
      /\ n <= Room /\ held' = held + n /\ kept' = kept + n /\ result' = result + n
      /\ UNCHANGED <<written, start, phase, base, walks, refused>>
  BY DEF Prefix, Kept
<1>2. /\ base = 0 /\ TypeOK /\ WithinLimit /\ StartWritten /\ n \in Nat
      /\ result <= kept /\ base + kept <= held
  BY <1>1, ConstantsAssumption DEF IInv, AtRest, Kinds, Covered
<1>3. /\ held' \in Nat /\ kept' \in Nat /\ kept' <= held'
      /\ result' \in Nat /\ result' <= kept'
  BY <1>1, <1>2 DEF TypeOK
<1>4. written + held' <= Max
  BY <1>1, <1>2, RoomBound DEF TypeOK
<1> QED BY <1>1, <1>2, <1>3, <1>4, ClosedKeeps DEF TypeOK, StartWritten, Kinds

(* Keeping the prefixes gives the settled paths back.                      *)
LEMMA KeepPrefixesKeeps == IInv /\ KeepPrefixes => IInv'
<1> SUFFICES ASSUME IInv, KeepPrefixes PROVE IInv'
  OBVIOUS
<1>1. /\ phase = "dispatch" /\ walks = <<>> /\ held' = base + result /\ phase' = "using"
      /\ kept' = result
      /\ UNCHANGED <<written, start, base, result, walks, refused>>
  BY DEF KeepPrefixes
<1>2. /\ base = 0 /\ TypeOK /\ WithinLimit /\ StartWritten
      /\ base + kept <= held /\ result <= kept
  BY <1>1 DEF IInv, AtRest, Kinds, Covered
<1>3. held' = result /\ held' \in Nat /\ held' <= held /\ kept' \in Nat /\ result' <= kept'
  BY <1>1, <1>2 DEF TypeOK
<1>4. written + held' <= Max /\ kept' <= held'
  BY <1>1, <1>2, <1>3, ConstantsAssumption DEF TypeOK, WithinLimit
<1> QED BY <1>1, <1>2, <1>3, <1>4, ClosedKeeps DEF TypeOK, StartWritten, Kinds

(* Keeping distinct paths gives the repeated ones back.                    *)
LEMMA KeepDistinctKeeps == IInv /\ (\E n \in Units : KeepDistinct(n)) => IInv'
<1> SUFFICES ASSUME IInv, NEW n \in Units, KeepDistinct(n) PROVE IInv'
  OBVIOUS
<1>1. /\ phase = "peek" /\ n <= Inner.next /\ held' = base + n
      /\ kept' = n /\ result' = n
      /\ walks' = <<>> /\ phase' = "using"
      /\ UNCHANGED <<written, start, base, refused>>
  BY DEF KeepDistinct
<1>2. Walking
  <2>1. Len(walks) = 1
    BY DEF KeepDistinct
  <2> QED BY <1>1, <2>1, EmptySeq DEF Walking, Kinds
<1>3. base = 0 /\ TypeOK /\ WithinLimit /\ StartWritten /\ n \in Nat
  BY <1>1, ConstantsAssumption DEF IInv, AtRest, Kinds
<1>4. held' = n /\ held' <= held
  BY <1>1, <1>2, <1>3, InnerFacts DEF TypeOK
<1>5. written + held' <= Max /\ kept' <= held'
  BY <1>1, <1>3, <1>4, ConstantsAssumption DEF TypeOK, WithinLimit
<1> QED BY <1>1, <1>3, <1>4, <1>5, ClosedKeeps DEF TypeOK, StartWritten, Kinds

(* What ends a decision gives back all it held.                            *)
LEMMA GiveBackKeeps == IInv /\ (ReadSeconds \/ Restore) => IInv'
<1> SUFFICES ASSUME IInv, ReadSeconds \/ Restore PROVE IInv'
  OBVIOUS
<1>1. /\ phase \in Kinds \cup {"idle", "using"} /\ phase' = "idle"
      /\ walks' = <<>> /\ held' = base
      /\ UNCHANGED <<written, start, base, refused>>
  BY DEF ReadSeconds, ReadSecondsTo, Restore, Kinds, IInv, AtRest
<1>2. base = 0 /\ TypeOK /\ WithinLimit /\ StartWritten
  BY <1>1 DEF IInv, AtRest
<1>3. /\ kept' \in Nat /\ result' \in Nat /\ result' <= kept'
      /\ held' = 0 /\ written + held' <= Max
  <2>1. /\ written \in Nat /\ held \in Nat /\ kept \in Nat /\ result \in Nat
        /\ written + held <= Max /\ result <= kept
    BY <1>2 DEF IInv, AtRest, TypeOK, WithinLimit
  <2>2. kept' = kept /\ result' = result
    BY DEF ReadSeconds, ReadSecondsTo, Restore
  <2> QED BY <1>1, <1>2, <2>1, <2>2, ConstantsAssumption
<1> QED BY <1>1, <1>2, <1>3, ClosedKeeps DEF TypeOK, StartWritten

(* The steps of the emitter outside a decision.                            *)
LEMMA WriteKeeps == IInv /\ (Begin \/ \E n \in Units : Charge(n)) => IInv'
<1> SUFFICES ASSUME IInv, Begin \/ \E n \in Units : Charge(n) PROVE IInv'
  OBVIOUS
<1>1. PICK n \in Nat :
        /\ n <= Room \/ n = 0
        /\ written' = written + n
        /\ start' = start \/ start' = written
        /\ phase \in {"idle", "using"}
        /\ UNCHANGED <<held, phase, base, kept, result, walks, refused>>
  <2>1. CASE Begin
    <3>1. written' = written + 0
      BY <2>1 DEF Begin, IInv, TypeOK
    <3> QED BY <2>1, <3>1 DEF Begin
  <2>2. CASE \E n \in Units : Charge(n)
    BY <2>2, ConstantsAssumption DEF Charge, CanCharge
  <2> QED BY <2>1, <2>2
<1>2. TypeOK /\ WithinLimit /\ Covered /\ StartWritten /\ NothingLeaks
  BY DEF IInv
<1>3. walks = <<>> /\ base = 0 /\ result <= kept
  BY <1>1 DEF IInv, AtRest
<1>4. /\ held' \in Nat /\ kept' \in Nat /\ written' \in Nat
      /\ start' \in Nat /\ start' <= written'
      /\ result' \in Nat /\ result' <= kept'
  BY <1>1, <1>2, <1>3 DEF TypeOK, StartWritten
<1>5. written' + held' <= Max
  <2>1. written + held + n <= Max
    <3>1. CASE n <= Room
      BY <1>2, <3>1, RoomBound
    <3>2. CASE n = 0
      BY <1>2, <3>2 DEF WithinLimit, TypeOK
    <3> QED BY <1>1, <3>1, <3>2
  <2>2. \A w, h \in Nat : w + h + n <= Max => w + n + h <= Max
    BY ConstantsAssumption
  <2> QED BY <1>1, <1>2, <2>1, <2>2 DEF TypeOK
<1>6. phase' # "idle" => kept' <= held'
  <2>1. phase = "using" => base + kept <= held
    BY <1>2 DEF Covered
  <2>2. base + kept = kept
    BY <1>2, <1>3 DEF TypeOK
  <2> QED BY <1>1, <2>1, <2>2
<1>7. phase' = "idle" => held' = 0
  BY <1>1, <1>2 DEF NothingLeaks
<1>8. phase' \in Kinds \cup {"idle", "using"} /\ walks' = <<>> /\ base' = 0 /\ UNCHANGED refused
  BY <1>1, <1>3
<1> QED BY <1>4, <1>5, <1>6, <1>7, <1>8, ClosedKeeps

(* A decision notes what was held when it began.                           *)
LEMMA DecideKeeps == IInv /\ (\E kind \in Kinds : Decide(kind)) => IInv'
<1> SUFFICES ASSUME IInv, NEW kind \in Kinds, Decide(kind) PROVE IInv'
  OBVIOUS
<1>1. /\ phase = "idle" /\ phase' = kind /\ base' = held /\ kept' = 0 /\ result' = 0
      /\ UNCHANGED <<written, held, start, walks, refused>>
  BY DEF Decide
<1>2. /\ TypeOK /\ WithinLimit /\ StartWritten
      /\ walks = <<>> /\ held = 0 /\ kind # "idle"
  BY <1>1 DEF IInv, AtRest, NothingLeaks, Kinds
<1> QED BY <1>1, <1>2, ClosedKeeps DEF TypeOK, WithinLimit, StartWritten

(* IInv is inductive.                                                      *)
LEMMA StepIInv == IInv /\ [Next]_vars => IInv'
<1> SUFFICES ASSUME IInv, [Next]_vars PROVE IInv'
  OBVIOUS
<1>1. ASSUME NEW n \in Units, RefuseCharge(n) \/ RefusePut(n) \/ RefusePrefix(n)
      PROVE  IInv'
  BY <1>1, ConstantsAssumption, RefuseKeeps DEF RefuseCharge, RefusePut, RefusePrefix
<1>2. CASE RefuseEnter
  BY <1>2, RefuseKeeps DEF RefuseEnter
<1>3. CASE UNCHANGED vars
  BY <1>3 DEF vars, IInv, TypeOK, WithinLimit, Covered, StartWritten, NothingLeaks, AtRest, Depths
<1>4. CASE Returned
  BY <1>3, <1>4 DEF Returned
<1> QED BY <1>1, <1>2, <1>3, <1>4, WriteKeeps, DecideKeeps, EnterKeeps, NextElementKeeps,
           CarryKeeps, PutKeeps, DropKeeps, LeaveKeeps, SettleKeeps, PrefixKeeps,
           KeepPrefixesKeeps, KeepDistinctKeeps, GiveBackKeeps DEF Next

(* The invariant holds throughout a compile.                               *)
LEMMA Inductive == Spec => []IInv
<1>1. Init => IInv
  BY InitIInv
<1>2. IInv /\ [Next]_vars => IInv'
  BY StepIInv
<1> QED BY <1>1, <1>2, PTL DEF Spec

-----------------------------------------------------------------------------
(* The counts are natural numbers, and a walk's are: every subtraction of  *)
(* budget.rs is of a number no greater.                                    *)
THEOREM TypeCorrect == Spec => []TypeOK
<1>1. IInv => TypeOK
  BY DEF IInv
<1> QED BY <1>1, Inductive, PTL

(* EmitBudget::charge and EmitBudget::hold: what is written and what is    *)
(* held never pass the limit together, whatever is charged and however     *)
(* deep the walks.                                                         *)
THEOREM NeverPastLimit == Spec => []WithinLimit
<1>1. IInv => WithinLimit
  BY DEF IInv
<1> QED BY <1>1, Inductive, PTL

(* EmitBudget::settle and EmitBudget::keep give back no more than what was *)
(* dropped: every path and every kept prefix in memory is held, a path and *)
(* its clone once.                                                         *)
THEOREM HeldCovers == Spec => []Covered
<1>1. IInv => Covered
  BY DEF IInv
<1> QED BY <1>1, Inductive, PTL

(* EmitBudget::restore leaves an emitter between decisions holding nothing.*)
THEOREM GivenBack == Spec => []NothingLeaks
<1>1. IInv => NothingLeaks
  BY DEF IInv
<1> QED BY <1>1, Inductive, PTL

(* MAX_EMIT_UNITS - step.start in EmitBudget::refusal does not underflow.  *)
THEOREM RoomIsNatural == Spec => [](StartWritten /\ Max - start \in Nat)
<1>1. IInv => StartWritten /\ Max - start \in Nat
  <2> SUFFICES ASSUME IInv PROVE StartWritten /\ Max - start \in Nat
    OBVIOUS
  <2>1. /\ start \in Nat /\ written \in Nat /\ held \in Nat /\ Max \in Nat
        /\ start <= written /\ written + held <= Max
    BY ConstantsAssumption DEF IInv, TypeOK, StartWritten, WithinLimit
  <2>2. \A s, w, h \in Nat : s <= w /\ w + h <= Max => Max - s \in Nat
    BY <2>1
  <2> QED BY <2>1, <2>2 DEF StartWritten
<1> QED BY <1>1, Inductive, PTL

(* Only what charge or hold let through brings the limit nearer: what      *)
(* settle, keep and restore set held to is never more than was held        *)
(* ("Each of them was held as it was made, so this never holds more").     *)
LEMMA StepLetThrough ==
    ASSUME IInv, [Next]_vars
    PROVE  written' + held' - (written + held) <= Room
<1>1. /\ written \in Nat /\ held \in Nat /\ base \in Nat /\ kept \in Nat /\ result \in Nat
      /\ Room \in Nat /\ Units \subseteq Nat
  BY ConstantsAssumption DEF IInv, TypeOK, Room
<1>2. ASSUME NEW n \in Nat, n <= Room \/ n = 0,
             \/ written' = written + n /\ held' = held
             \/ written' = written /\ held' = held + n
      PROVE  written' + held' - (written + held) <= Room
  BY <1>1, <1>2
<1>3. ASSUME written' = written, held' \in Nat, held' <= held
      PROVE  written' + held' - (written + held) <= Room
  <2>1. \A w, h, g \in Nat : g <= h => w + g - (w + h) <= 0
    OBVIOUS
  <2>2. written' + held' - (written + held) <= 0
    BY <1>1, <1>3, <2>1
  <2>3. \A d \in Int : d <= 0 => d <= Room
    BY <1>1
  <2>4. written' + held' - (written + held) \in Int
    BY <1>1, <1>3
  <2> QED BY <2>2, <2>3, <2>4
<1>4. CASE UNCHANGED <<written, held>>
  BY <1>1, <1>3, <1>4
<1>5. ASSUME NEW n \in Units, Charge(n) \/ Put(n) \/ Prefix(n)
      PROVE  written' + held' - (written + held) <= Room
  BY <1>1, <1>2, <1>5 DEF Charge, Put, Prefix
<1>6. CASE Enter
  BY <1>1, <1>2, <1>6 DEF Enter
<1>7. CASE Settle
  <2>1. Walking
    <3>1. Len(walks) = 1 /\ phase \in Kinds
      BY <1>7 DEF Settle, SettleAt, Kinds
    <3> QED BY <3>1, EmptySeq DEF Walking
  <2>2. held' \in Nat /\ held' <= held
    <3>1. held' = Inner.at + Inner.next
      BY <1>7 DEF Settle, SettleAt
    <3> QED BY <1>1, <2>1, <3>1, InnerFacts
  <2> QED BY <1>3, <1>7, <2>2 DEF Settle, SettleAt
<1>8. ASSUME NEW n \in Units, KeepDistinct(n)
      PROVE  written' + held' - (written + held) <= Room
  <2>1. Walking
    <3>1. Len(walks) = 1 /\ phase \in Kinds
      BY <1>8 DEF KeepDistinct, Kinds
    <3> QED BY <3>1, EmptySeq DEF Walking
  <2>2. held' \in Nat /\ held' <= held
    <3>1. held' = base + n /\ n <= Inner.next /\ n \in Nat
      BY <1>1, <1>8 DEF KeepDistinct
    <3> QED BY <1>1, <2>1, <3>1, InnerFacts
  <2> QED BY <1>3, <1>8, <2>2 DEF KeepDistinct
<1>9. CASE KeepPrefixes
  <2>1. base + kept <= held /\ result <= kept
    BY <1>9 DEF KeepPrefixes, IInv, Covered, AtRest, Kinds
  <2> QED BY <1>1, <1>3, <1>9, <2>1 DEF KeepPrefixes
<1>10. CASE ReadSeconds \/ Restore
  <2>1. base <= held
    <3>1. phase \in Kinds \cup {"using"}
      BY <1>10 DEF ReadSeconds, ReadSecondsTo, Restore, Kinds
    <3> QED BY <1>1, <3>1 DEF IInv, AtRest
  <2> QED BY <1>1, <1>3, <1>10, <2>1 DEF ReadSeconds, ReadSecondsTo, Restore
<1>11. CASE Begin \/ RefuseEnter \/ NextElement \/ Leave \/ Returned \/ \E kind \in Kinds : Decide(kind)
  BY <1>4, <1>11 DEF Begin, RefuseEnter, Refuse, NextElement, Leave, Returned, vars, Decide
<1>12. ASSUME NEW n \in Units,
              RefuseCharge(n) \/ Carry(n) \/ RefusePut(n) \/ Drop(n) \/ RefusePrefix(n)
       PROVE  written' + held' - (written + held) <= Room
  BY <1>4, <1>12 DEF RefuseCharge, Carry, RefusePut, Drop, RefusePrefix, Refuse
<1>13. CASE UNCHANGED vars
  BY <1>4, <1>13 DEF vars
<1> QED BY <1>5, <1>6, <1>7, <1>8, <1>9, <1>10, <1>11, <1>12, <1>13 DEF Next

(* EmitBudget::settle, keep and restore give back; charge and hold alone   *)
(* take, and take what there is room for.                                  *)
THEOREM OnlyTakesWhatFits == Spec => OnlyLetThrough
<1>1. IInv /\ [Next]_vars => [written' + held' - (written + held) <= Room]_vars
  BY StepLetThrough
<1> QED BY <1>1, Inductive, PTL DEF Spec, OnlyLetThrough

-----------------------------------------------------------------------------
(* Literals and what is read of a text.                                    *)

\* What the assumption says of a token, by its kind.
LEMMA TokenKinds ==
    ASSUME NEW t \in Tokens
    PROVE  /\ TokenOf[t].kind \in {"literal", "class", "engine", "text", "unread", "any", "set"}
           /\ IsA("literal", t) =>
                /\ TokenOf[t].sensitive \in BOOLEAN
                /\ TokenOf[t].text \in Seq(Chars)
                /\ Len(TokenOf[t].text) \in Nat \ {0}
           /\ IsA("class", t) =>
                /\ TokenOf[t].covers \subseteq Chars
                /\ TokenOf[t].sensitive \in BOOLEAN /\ TokenOf[t].exact \in BOOLEAN
           /\ IsA("engine", t) => TokenOf[t].starts \subseteq Chars
           /\ IsA("set", t) => TokenOf[t].members \in Seq(Plain)
<1>1. ASSUME IsA("literal", t)
      PROVE  /\ TokenOf[t].sensitive \in BOOLEAN
             /\ TokenOf[t].text \in Seq(Chars)
             /\ Len(TokenOf[t].text) \in Nat \ {0}
  <2>1. /\ TokenOf[t].sensitive \in BOOLEAN
        /\ TokenOf[t].text \in Seq(Chars) /\ TokenOf[t].text # <<>>
    BY <1>1, TokensAssumption DEF IsA
  <2>2. PICK s \in Seq(Chars) : s = TokenOf[t].text
    BY <2>1
  <2>3. Len(s) \in Nat \ {0}
    BY <2>1, <2>2
  <2> QED BY <2>1, <2>2, <2>3
<1> QED BY <1>1, TokensAssumption DEF IsA

\* What a matcher takes for an ASCII character is the other case of it.
LEMMA AsciiCases ==
    ASSUME NEW c \in Ascii, NEW d \in Chars
    PROVE  /\ c \in Chars
           /\ Folded[c] = Folded[d] <=> d \in Ascii /\ Lower[c] = Lower[d]
BY CaseAssumption

\* Both cases of a character are word characters, or neither.
LEMMA WordCases ==
    ASSUME NEW c \in Chars, NEW d \in Chars, Folded[c] = Folded[d]
    PROVE  c \in Letters <=> d \in Letters
<1>1. CASE c \in Ascii \/ d \in Ascii
  BY <1>1, CaseAssumption
<1>2. CASE c \notin Ascii /\ d \notin Ascii
  BY <1>2, CaseAssumption
<1> QED BY <1>1, <1>2

\* Texts and their cases, character by character.
LEMMA CasedIs ==
    ASSUME NEW s \in Seq(Chars), NEW case
    PROVE  /\ Len(Cased(s, case)) = Len(s) /\ DOMAIN Cased(s, case) = 1..Len(s)
           /\ \A k \in 1..Len(s) : Cased(s, case)[k] = case[s[k]]
BY DEF Cased

LEMMA CasedPrefix ==
    ASSUME NEW s \in Seq(Chars), NEW t \in Seq(Chars), NEW case
    PROVE  IsPrefixOf(Cased(s, case), Cased(t, case))
             <=> Len(s) <= Len(t) /\ \A k \in 1..Len(s) : case[s[k]] = case[t[k]]
<1>1. /\ Len(Cased(s, case)) = Len(s) /\ DOMAIN Cased(s, case) = 1..Len(s)
      /\ Len(Cased(t, case)) = Len(t)
      /\ \A k \in 1..Len(s) : Cased(s, case)[k] = case[s[k]]
      /\ \A k \in 1..Len(t) : Cased(t, case)[k] = case[t[k]]
  BY CasedIs
<1>2. IsPrefixOf(Cased(s, case), Cased(t, case))
        <=> Len(s) <= Len(t) /\ \A k \in 1..Len(s) : Cased(s, case)[k] = Cased(t, case)[k]
  BY <1>1 DEF IsPrefixOf
<1>3. Len(s) <= Len(t) => \A k \in 1..Len(s) : k \in 1..Len(t)
  OBVIOUS
<1>4. Len(s) <= Len(t) =>
        \A k \in 1..Len(s) : Cased(s, case)[k] = case[s[k]] /\ Cased(t, case)[k] = case[t[k]]
  BY <1>1, <1>3
<1> QED BY <1>2, <1>4

\* What is read of a text by a literal agrees with it, to the case.
LEMMA ReadLiteral ==
    ASSUME NEW t \in Tokens, IsA("literal", t), NEW w \in Texts, Reads(t, w)
    PROVE  /\ Len(TokenOf[t].text) <= Len(w)
           /\ \A k \in 1..Len(TokenOf[t].text) :
                /\ Folded[TokenOf[t].text[k]] = Folded[w[k]]
                /\ TokenOf[t].sensitive => TokenOf[t].text[k] = w[k]
           /\ (IsWord(TokenOf[t].text) /\ Len(TokenOf[t].text) < Len(w))
                => w[Len(TokenOf[t].text) + 1] \notin Letters
<1>1. PICK s \in Seq(Chars) : s = TokenOf[t].text
  BY TokenKinds
<1>2. PICK v \in Seq(Chars) : v = w
  BY TextsAssumption
<1>3. /\ IF TokenOf[t].sensitive THEN IsPrefixOf(s, v)
         ELSE IsPrefixOf(Cased(s, Folded), Cased(v, Folded))
      /\ (IsWord(s) /\ Len(s) < Len(v)) => v[Len(s) + 1] \notin Letters
  BY <1>1, <1>2 DEF Reads, ReadsLiteral, IsA
<1>5. CASE TokenOf[t].sensitive
  BY <1>1, <1>2, <1>3, <1>5 DEF IsPrefixOf
<1>6. CASE ~TokenOf[t].sensitive
  <2>1. Len(s) <= Len(v) /\ \A k \in 1..Len(s) : Folded[s[k]] = Folded[v[k]]
    BY <1>3, <1>6, CasedPrefix
  <2> QED BY <1>1, <1>2, <1>3, <1>6, <2>1
<1> QED BY <1>5, <1>6

\* The shorter and the longer of two literals are the two of them.
LEMMA ShorterAndLonger ==
    ASSUME NEW x \in Tokens, NEW y \in Tokens, IsA("literal", x), IsA("literal", y)
    PROVE  \E s \in {x, y}, l \in {x, y} :
             /\ {s, l} = {x, y}
             /\ TokenOf[s] = Shorter(TokenOf[x], TokenOf[y])
             /\ TokenOf[l] = Longer(TokenOf[x], TokenOf[y])
             /\ Len(TokenOf[s].text) <= Len(TokenOf[l].text)
<1>1. Len(TokenOf[x].text) \in Nat /\ Len(TokenOf[y].text) \in Nat
  BY TokenKinds
<1>2. CASE Len(TokenOf[x].text) <= Len(TokenOf[y].text)
  <2> WITNESS x \in {x, y}, y \in {x, y}
  <2> QED BY <1>2 DEF Shorter, Longer
<1>3. CASE ~(Len(TokenOf[x].text) <= Len(TokenOf[y].text))
  <2>1. Len(TokenOf[y].text) <= Len(TokenOf[x].text)
    BY <1>1, <1>3
  <2> WITNESS y \in {x, y}, x \in {x, y}
  <2> QED BY <1>3, <2>1 DEF Shorter, Longer
<1> QED BY <1>2, <1>3

\* Two literals of one text meet: the longer goes on as the text does, so no
\* keyword's boundary keeps the shorter off it.
LEMMA LiteralsReadAlikeMeet ==
    ASSUME NEW x \in Tokens, NEW y \in Tokens, IsA("literal", x), IsA("literal", y),
           NEW w \in Texts, Reads(x, w), Reads(y, w)
    PROVE  LiteralsMeet(TokenOf[x], TokenOf[y])
<1>1. PICK s \in {x, y}, l \in {x, y} :
             /\ TokenOf[s] = Shorter(TokenOf[x], TokenOf[y])
             /\ TokenOf[l] = Longer(TokenOf[x], TokenOf[y])
             /\ Len(TokenOf[s].text) <= Len(TokenOf[l].text)
  BY ShorterAndLonger
<1> DEFINE S == TokenOf[s]  L == TokenOf[l]
<1>2. /\ IsA("literal", s) /\ IsA("literal", l) /\ Reads(s, w) /\ Reads(l, w)
      /\ s \in Tokens /\ l \in Tokens
  OBVIOUS
<1>3. /\ S.text \in Seq(Chars) /\ L.text \in Seq(Chars) /\ w \in Seq(Chars)
  BY <1>2, TokenKinds, TextsAssumption
<1>4. \A k \in 1..Len(S.text) : /\ Folded[S.text[k]] = Folded[w[k]]
                                /\ S.sensitive => S.text[k] = w[k]
  BY <1>2, ReadLiteral
<1>5. /\ Len(L.text) <= Len(w)
      /\ \A k \in 1..Len(L.text) : /\ Folded[L.text[k]] = Folded[w[k]]
                                   /\ L.sensitive => L.text[k] = w[k]
  BY <1>2, ReadLiteral
<1>6. (IsWord(S.text) /\ Len(S.text) < Len(w)) => w[Len(S.text) + 1] \notin Letters
  BY <1>2, ReadLiteral
<1>7. PICK a \in Seq(Chars), b \in Seq(Chars), v \in Seq(Chars) :
             a = S.text /\ b = L.text /\ v = w
  BY <1>3
<1>8. \A k \in 1..Len(a) : /\ Folded[a[k]] = Folded[b[k]]
                           /\ S.sensitive /\ L.sensitive => a[k] = b[k]
  <2> TAKE k \in 1..Len(a)
  <2>1. k \in 1..Len(b)
    BY <1>1, <1>7
  <2> QED BY <2>1, <1>4, <1>5, <1>7
<1>9. Begins(S, L)
  <2>1. CASE S.sensitive /\ L.sensitive
    BY <2>1, <1>1, <1>7, <1>8 DEF Begins, IsPrefixOf
  <2>2. CASE ~(S.sensitive /\ L.sensitive)
    <3>1. \/ \A k \in 1..Len(a) : Lower[a[k]] = Lower[b[k]]
          \/ \A k \in 1..Len(a) : Upper[a[k]] = Upper[b[k]]
      <4>1. \A k \in 1..Len(a) : a[k] \in Chars /\ k \in 1..Len(b)
        BY <1>1, <1>7
      <4>2. \A k \in 1..Len(a) : b[k] \in Chars
        BY <4>1
      <4>3. CASE \A c, d \in Chars : Folded[c] = Folded[d] => Lower[c] = Lower[d]
        BY <4>1, <4>2, <4>3, <1>8
      <4>4. CASE \A c, d \in Chars : Folded[c] = Folded[d] => Upper[c] = Upper[d]
        BY <4>1, <4>2, <4>4, <1>8
      <4> QED BY <4>3, <4>4, CaseAssumption
    <3>2. FoldedPrefix(a, b)
      <4>1. Len(a) <= Len(b)
        BY <1>1, <1>7
      <4>2. CASE \A k \in 1..Len(a) : Lower[a[k]] = Lower[b[k]]
        BY <4>1, <4>2, CasedPrefix DEF FoldedPrefix
      <4>3. CASE \A k \in 1..Len(a) : Upper[a[k]] = Upper[b[k]]
        BY <4>1, <4>3, CasedPrefix DEF FoldedPrefix
      <4> QED BY <3>1, <4>2, <4>3
    <3> QED BY <2>2, <3>2, <1>7 DEF Begins
  <2> QED BY <2>1, <2>2
<1>10. ~GoesOn(S, L)
  <2> SUFFICES ASSUME GoesOn(S, L) PROVE FALSE
    OBVIOUS
  <2>1. IsWord(a) /\ Len(a) < Len(b) /\ b[Len(a) + 1] \in Letters
    BY <1>7 DEF GoesOn
  <2>2. v[Len(a) + 1] \notin Letters /\ Len(b) <= Len(v)
    BY <2>1, <1>5, <1>6, <1>7
  <2>3. Len(a) + 1 \in 1..Len(b) /\ Len(a) + 1 \in 1..Len(v)
    BY <2>1, <2>2
  <2>4. Folded[b[Len(a) + 1]] = Folded[v[Len(a) + 1]]
    BY <2>3, <1>5, <1>7
  <2>5. b[Len(a) + 1] \in Chars /\ v[Len(a) + 1] \in Chars
    BY <2>3
  <2> QED BY <2>1, <2>2, <2>4, <2>5, WordCases
<1> QED BY <1>1, <1>9, <1>10 DEF LiteralsMeet

\* A text's first character is in the coverage of the pattern it is read
\* by, or the pattern is not exact.
LEMMA FirstIsCovered ==
    ASSUME NEW t \in Tokens, NEW w \in Texts, Reads(t, w),
           IsPattern(TokenOf[t]), HeadIsExact(TokenOf[t])
    PROVE  w[1] \in CoverOf(TokenOf[t])
<1>1. w \in Seq(Chars) /\ w # <<>>
  BY TextsAssumption
<1>2. w[1] \in Chars
  <2>1. PICK v \in Seq(Chars) : v = w /\ v # <<>>
    BY <1>1
  <2>2. 1 \in 1..Len(v)
    BY <2>1
  <2> QED BY <2>1, <2>2
<1>3. IsA("literal", t) \/ IsA("class", t)
  BY DEF IsPattern, IsA
<1>4. TokenOf[t].sensitive \in BOOLEAN /\ HeadsOf(TokenOf[t]) \subseteq Chars
  <2>1. CASE IsA("literal", t)
    <3>1. PICK s \in Seq(Chars) : s = TokenOf[t].text /\ Len(s) \in Nat \ {0}
      BY <2>1, TokenKinds
    <3>2. 1 \in 1..Len(s)
      BY <3>1
    <3>3. s[1] \in Chars
      BY <3>2
    <3> QED BY <2>1, <3>1, <3>3, TokenKinds DEF HeadsOf, IsA
  <2>2. CASE IsA("class", t)
    BY <2>2, TokenKinds DEF HeadsOf, IsA
  <2> QED BY <1>3, <2>1, <2>2
<1>5. PICK c \in HeadsOf(TokenOf[t]) :
         w[1] = c \/ (~TokenOf[t].sensitive /\ Folded[w[1]] = Folded[c])
  <2>1. CASE IsA("literal", t)
    <3>1. 1 \in 1..Len(TokenOf[t].text)
      BY <2>1, TokenKinds
    <3>2. /\ Folded[TokenOf[t].text[1]] = Folded[w[1]]
          /\ TokenOf[t].sensitive => TokenOf[t].text[1] = w[1]
      BY <2>1, <3>1, ReadLiteral
    <3> QED BY <1>4, <2>1, <3>2 DEF HeadsOf, IsA
  <2>2. CASE IsA("class", t)
    BY <2>2 DEF Reads, ReadsClass, HeadsOf, IsA
  <2> QED BY <1>3, <2>1, <2>2
<1>6. CASE TokenOf[t].sensitive
  BY <1>5, <1>6 DEF CoverOf
<1>7. CASE ~TokenOf[t].sensitive
  <2>1. /\ CoverOf(TokenOf[t]) = AsciiFolded(HeadsOf(TokenOf[t]))
        /\ CoverOf(TokenOf[t]) \subseteq Ascii
    BY <1>7 DEF CoverOf, HeadIsExact
  <2>2. c \in Ascii
    BY <2>1 DEF AsciiFolded
  <2>3. w[1] \in Ascii /\ Lower[w[1]] = Lower[c]
    <3>1. Folded[c] = Folded[w[1]]
      BY <1>5
    <3> QED BY <1>2, <2>2, <3>1, AsciiCases
  <2> QED BY <2>1, <2>2, <2>3 DEF AsciiFolded
<1> QED BY <1>4, <1>6, <1>7

\* Text meets numbers, strings and whatever is no fixed token, and nothing
\* else.
LEMMA TextMeets ==
    ASSUME NEW x \in Plain, NEW y \in Plain, IsA("text", x), x # y, ~IsA("any", y),
           NEW w \in Texts, Reads(x, w), Reads(y, w)
    PROVE  EngineMeets(TokenOf[x], TokenOf[y])
<1>1. x \in Tokens /\ y \in Tokens /\ ~IsA("set", y)
  BY DEF Plain
<1>2. ~IsA("text", y)
  BY <1>1, EngineAssumption
<1>3. ~(IsA("literal", y) /\ ~IsMatch(TokenOf[y]))
  <2> SUFFICES ASSUME IsA("literal", y), ~IsMatch(TokenOf[y]) PROVE FALSE
    OBVIOUS
  <2>1. IsFixed(TokenOf[y]) /\ ReadsLiteral(TokenOf[y], w)
    BY DEF IsFixed, Reads, IsA
  <2>2. ~\E u \in Tokens : IsFixed(TokenOf[u]) /\ ReadsLiteral(TokenOf[u], w)
    BY DEF Reads, IsA
  <2> QED BY <1>1, <2>1, <2>2
<1>4. ~IsA("unread", y)
  BY DEF Reads, IsA
<1>5. CASE IsA("engine", y)
  BY <1>5 DEF EngineMeets, IsA
<1>6. CASE IsA("class", y)
  BY <1>6 DEF EngineMeets, IsMatch, IsA
<1>7. CASE IsA("literal", y)
  BY <1>3, <1>7 DEF EngineMeets, IsA
<1> QED BY <1>1, <1>2, <1>4, <1>5, <1>6, <1>7, TokenKinds DEF IsA

\* A number or a string, and a pattern that is exact.
LEMMA StartMeets ==
    ASSUME NEW x \in Tokens, NEW y \in Tokens, IsA("engine", x),
           IsPattern(TokenOf[y]), HeadIsExact(TokenOf[y]),
           NEW w \in Texts, Reads(x, w), Reads(y, w)
    PROVE  EngineMeets(TokenOf[x], TokenOf[y])
<1>1. w[1] \in TokenOf[x].starts
  BY DEF Reads, IsA
<1>2. w[1] \in CoverOf(TokenOf[y])
  BY FirstIsCovered
<1> QED BY <1>1, <1>2 DEF EngineMeets, IsA

\* Two tokens that are read of one text are taken to contest.
LEMMA MeetingContest ==
    ASSUME NEW x \in Plain, NEW y \in Plain, Meet(x, y)
    PROVE  Contests(x, y)
<1>1. CASE x = y \/ IsA("any", x) \/ IsA("any", y)
  BY <1>1 DEF Contests, AtOnce
<1>2. CASE ~(x = y \/ IsA("any", x) \/ IsA("any", y))
  <2>1. PICK w \in Texts : Reads(x, w) /\ Reads(y, w)
    BY <1>2 DEF Meet, ReadAlike
  <2>2. x \in Tokens /\ y \in Tokens /\ ~IsA("set", x) /\ ~IsA("set", y)
    BY DEF Plain
  <2>3. CASE IsA("literal", x) /\ IsA("literal", y)
    <3>1. LiteralsMeet(TokenOf[x], TokenOf[y])
      BY <2>1, <2>2, <2>3, LiteralsReadAlikeMeet
    <3> QED BY <2>3, <3>1 DEF Contests, Direct, IsA
  <2>4. CASE ~(IsA("literal", x) /\ IsA("literal", y))
    <3> SUFFICES ASSUME HeadIsExact(TokenOf[x]), HeadIsExact(TokenOf[y])
                 PROVE  \/ TokensOverlap(TokenOf[x], TokenOf[y])
                        \/ EngineMeets(TokenOf[x], TokenOf[y])
                        \/ EngineMeets(TokenOf[y], TokenOf[x])
      BY <2>4 DEF Contests, Direct, IsA
    <3>1. CASE IsA("text", x) \/ IsA("text", y)
      BY <3>1, <1>2, <2>1, TextMeets
    <3>2. ~IsA("unread", x) /\ ~IsA("unread", y)
      BY <2>1 DEF Reads, IsA
    <3>3. CASE IsA("engine", x) /\ IsA("engine", y)
      <4>1. w[1] \in TokenOf[x].starts /\ w[1] \in TokenOf[y].starts
        BY <3>3, <2>1 DEF Reads, IsA
      <4> QED BY <3>3, <4>1, <1>2, <2>2, EngineAssumption
    <3>4. CASE IsA("engine", x) /\ IsPattern(TokenOf[y])
      BY <3>4, <2>1, <2>2, StartMeets
    <3>5. CASE IsPattern(TokenOf[x]) /\ IsA("engine", y)
      BY <3>5, <2>1, <2>2, StartMeets
    <3>6. CASE IsPattern(TokenOf[x]) /\ IsPattern(TokenOf[y])
      <4>1. w[1] \in CoverOf(TokenOf[x]) /\ w[1] \in CoverOf(TokenOf[y])
        BY <3>6, <2>1, <2>2, FirstIsCovered
      <4> QED BY <4>1 DEF TokensOverlap
    <3>7. ASSUME NEW t \in {x, y}
          PROVE  IsA("text", t) \/ IsA("engine", t) \/ IsPattern(TokenOf[t])
      BY <1>2, <2>2, <3>2, TokenKinds DEF IsA, IsPattern
    <3>8. /\ IsA("text", x) \/ IsA("engine", x) \/ IsPattern(TokenOf[x])
          /\ IsA("text", y) \/ IsA("engine", y) \/ IsPattern(TokenOf[y])
      BY <3>7
    <3> QED BY <3>1, <3>3, <3>4, <3>5, <3>6, <3>8
  <2> QED BY <2>3, <2>4
<1> QED BY <1>1, <1>2

-----------------------------------------------------------------------------
(* The converse, where the first characters are known: a text for both.    *)

\* A literal is read of a text of its own length that is it, to the case.
LEMMA LiteralReads ==
    ASSUME NEW t \in Tokens, IsA("literal", t), NEW w \in Seq(Chars),
           Len(w) = Len(TokenOf[t].text),
           \A k \in 1..Len(w) : /\ Folded[w[k]] = Folded[TokenOf[t].text[k]]
                                /\ TokenOf[t].sensitive => w[k] = TokenOf[t].text[k]
    PROVE  w \in Texts /\ Reads(t, w)
<1>1. PICK s \in Seq(Chars) : s = TokenOf[t].text
  BY TokenKinds
<1>2. /\ Len(Cased(s, Folded)) = Len(s) /\ DOMAIN Cased(s, Folded) = 1..Len(s)
      /\ Len(Cased(w, Folded)) = Len(w) /\ DOMAIN Cased(w, Folded) = 1..Len(w)
      /\ \A k \in 1..Len(s) : Cased(s, Folded)[k] = Folded[s[k]]
      /\ \A k \in 1..Len(w) : Cased(w, Folded)[k] = Folded[w[k]]
  BY DEF Cased
<1>3. Cased(w, Folded) = Cased(s, Folded)
  BY <1>1 DEF Cased
<1>4. w \in [DOMAIN s -> Chars]
  BY <1>1
<1>5. w \in Texts
  BY <1>1, <1>3, <1>4, TextsAssumption
<1>6. IF TokenOf[t].sensitive THEN IsPrefixOf(s, w)
      ELSE IsPrefixOf(Cased(s, Folded), Cased(w, Folded))
  <2>1. CASE TokenOf[t].sensitive
    BY <2>1, <1>1 DEF IsPrefixOf
  <2>2. CASE ~TokenOf[t].sensitive
    BY <2>2, <1>1, <1>2 DEF IsPrefixOf
  <2> QED BY <2>1, <2>2
<1>7. ~(Len(s) < Len(w))
  BY <1>1
<1> QED BY <1>1, <1>5, <1>6, <1>7 DEF Reads, ReadsLiteral, IsA

\* A literal is read of a longer text that begins with it and does not go on
\* as its boundary forbids.
LEMMA LiteralReadsMore ==
    ASSUME NEW t \in Tokens, IsA("literal", t), NEW w \in Seq(Chars),
           Len(TokenOf[t].text) <= Len(w),
           \A k \in 1..Len(TokenOf[t].text) :
              /\ Folded[w[k]] = Folded[TokenOf[t].text[k]]
              /\ TokenOf[t].sensitive => w[k] = TokenOf[t].text[k],
           (IsWord(TokenOf[t].text) /\ Len(TokenOf[t].text) < Len(w))
              => w[Len(TokenOf[t].text) + 1] \notin Letters
    PROVE  Reads(t, w)
<1>1. PICK s \in Seq(Chars) : s = TokenOf[t].text
  BY TokenKinds
<1>2. /\ Len(Cased(s, Folded)) = Len(s) /\ DOMAIN Cased(s, Folded) = 1..Len(s)
      /\ Len(Cased(w, Folded)) = Len(w) /\ DOMAIN Cased(w, Folded) = 1..Len(w)
      /\ \A k \in 1..Len(s) : Cased(s, Folded)[k] = Folded[s[k]]
      /\ \A k \in 1..Len(w) : Cased(w, Folded)[k] = Folded[w[k]]
  BY DEF Cased
<1>3. IF TokenOf[t].sensitive THEN IsPrefixOf(s, w)
      ELSE IsPrefixOf(Cased(s, Folded), Cased(w, Folded))
  <2>1. CASE TokenOf[t].sensitive
    BY <2>1, <1>1 DEF IsPrefixOf
  <2>2. CASE ~TokenOf[t].sensitive
    BY <2>2, <1>1, <1>2 DEF IsPrefixOf
  <2> QED BY <2>1, <2>2
<1> QED BY <1>1, <1>3 DEF Reads, ReadsLiteral, IsA

\* Two literals that meet are read of one text: the longer one's, in the
\* shorter one's case where the longer does not mind.
LEMMA LiteralsThatMeetReadAlike ==
    ASSUME NEW x \in Tokens, NEW y \in Tokens, IsA("literal", x), IsA("literal", y),
           LiteralsMeet(TokenOf[x], TokenOf[y]), Told(x, y), ~Overtaken(x, y)
    PROVE  ReadAlike(x, y)
<1>1. PICK s \in {x, y}, l \in {x, y} :
             /\ {s, l} = {x, y}
             /\ TokenOf[s] = Shorter(TokenOf[x], TokenOf[y])
             /\ TokenOf[l] = Longer(TokenOf[x], TokenOf[y])
             /\ Len(TokenOf[s].text) <= Len(TokenOf[l].text)
  BY ShorterAndLonger
<1> DEFINE S == TokenOf[s]  L == TokenOf[l]
<1>2. /\ IsA("literal", s) /\ IsA("literal", l) /\ s \in Tokens /\ l \in Tokens
  OBVIOUS
<1>3. PICK a \in Seq(Chars), b \in Seq(Chars) : a = S.text /\ b = L.text
  BY <1>2, TokenKinds
<1>4. Begins(S, L) /\ ~GoesOn(S, L)
  BY <1>1 DEF LiteralsMeet, Overtaken
<1>5. /\ Len(a) <= Len(b)
      /\ \A k \in 1..Len(a) : /\ Folded[a[k]] = Folded[b[k]]
                              /\ S.sensitive /\ L.sensitive => a[k] = b[k]
  <2>1. CASE S.sensitive /\ L.sensitive
    BY <2>1, <1>3, <1>4 DEF Begins, IsPrefixOf
  <2>2. CASE ~(S.sensitive /\ L.sensitive)
    <3>1. (\A k \in 1..Len(a) : a[k] \in Ascii) /\ (\A k \in 1..Len(b) : b[k] \in Ascii)
      <4>1. InAscii(S) /\ InAscii(L)
        BY <1>1, <2>2 DEF Told
      <4> QED BY <4>1, <1>3 DEF InAscii
    <3>2. FoldedPrefix(a, b)
      BY <2>2, <1>3, <1>4 DEF Begins
    <3>3. /\ Len(a) <= Len(b)
          /\ \/ \A k \in 1..Len(a) : Lower[a[k]] = Lower[b[k]]
             \/ \A k \in 1..Len(a) : Upper[a[k]] = Upper[b[k]]
      BY <3>2, CasedPrefix DEF FoldedPrefix
    <3>4. \A k \in 1..Len(a) : k \in 1..Len(b)
      BY <3>3
    <3>5. \A k \in 1..Len(a) : Folded[a[k]] = Folded[b[k]]
      <4> TAKE k \in 1..Len(a)
      <4>1. a[k] \in Ascii /\ b[k] \in Ascii
        BY <3>1, <3>4
      <4>2. Lower[a[k]] = Lower[b[k]]
        BY <3>3, <4>1, CaseAssumption
      <4> QED BY <4>1, <4>2, CaseAssumption
    <3> QED BY <2>2, <3>3, <3>5
  <2> QED BY <2>1, <2>2
<1> DEFINE w == [k \in 1..Len(b) |-> IF ~L.sensitive /\ k <= Len(a) THEN a[k] ELSE b[k]]
<1>6. w \in Seq(Chars) /\ Len(w) = Len(b)
  <2>1. \A k \in 1..Len(b) : (k <= Len(a) => a[k] \in Chars) /\ b[k] \in Chars
    OBVIOUS
  <2> QED BY <2>1
<1>7. \A k \in 1..Len(b) : /\ Folded[w[k]] = Folded[b[k]]
                           /\ L.sensitive => w[k] = b[k]
  BY <1>5
<1>8. \A k \in 1..Len(a) : /\ Folded[w[k]] = Folded[a[k]]
                           /\ S.sensitive => w[k] = a[k]
  <2> TAKE k \in 1..Len(a)
  <2>1. k \in 1..Len(b)
    BY <1>5
  <2>2. w[k] = IF ~L.sensitive THEN a[k] ELSE b[k]
    BY <2>1
  <2> QED BY <2>2, <1>5
<1>9. (IsWord(a) /\ Len(a) < Len(w)) => w[Len(a) + 1] \notin Letters
  <2> SUFFICES ASSUME IsWord(a), Len(a) < Len(b) PROVE w[Len(a) + 1] \notin Letters
    BY <1>6
  <2>1. w[Len(a) + 1] = b[Len(a) + 1]
    OBVIOUS
  <2>2. b[Len(a) + 1] \notin Letters
    BY <1>3, <1>4 DEF GoesOn
  <2> QED BY <2>1, <2>2
<1> HIDE DEF w
<1>10. w \in Texts /\ Reads(l, w)
  BY <1>2, <1>3, <1>6, <1>7, LiteralReads
<1>11. Reads(s, w)
  BY <1>2, <1>3, <1>5, <1>6, <1>8, <1>9, LiteralReadsMore
<1> QED BY <1>1, <1>10, <1>11 DEF ReadAlike

\* A head in the coverage of an exact pattern is one of its own, or its
\* other case.
LEMMA HeadOfCover ==
    ASSUME NEW t \in Tokens, IsPattern(TokenOf[t]), HeadIsExact(TokenOf[t]),
           HeadsOf(TokenOf[t]) \subseteq Chars, TokenOf[t].sensitive \in BOOLEAN,
           NEW c \in CoverOf(TokenOf[t])
    PROVE  /\ c \in Chars
           /\ \E d \in HeadsOf(TokenOf[t]) :
                c = d \/ (~TokenOf[t].sensitive /\ Folded[c] = Folded[d])
<1>1. CASE TokenOf[t].sensitive
  BY <1>1 DEF CoverOf
<1>2. CASE ~TokenOf[t].sensitive
  <2>1. c \in AsciiFolded(HeadsOf(TokenOf[t])) /\ c \in Ascii
    BY <1>2 DEF CoverOf, HeadIsExact
  <2>2. CASE c \in HeadsOf(TokenOf[t])
    BY <2>2
  <2>3. CASE c \notin HeadsOf(TokenOf[t])
    <3>1. PICK d \in HeadsOf(TokenOf[t]) \cap Ascii : Lower[c] = Lower[d]
      BY <2>1, <2>3 DEF AsciiFolded
    <3>2. c \in Chars /\ Folded[c] = Folded[d]
      BY <2>1, <3>1, AsciiCases
    <3> QED BY <1>2, <3>1, <3>2
  <2> QED BY <2>2, <2>3
<1> QED BY <1>1, <1>2

\* A literal is read of a text with any first character it covers.
LEMMA LiteralFirst ==
    ASSUME NEW t \in Tokens, IsA("literal", t), HeadIsExact(TokenOf[t]),
           NEW c \in CoverOf(TokenOf[t])
    PROVE  \E w \in Texts : Reads(t, w) /\ w[1] = c
<1>1. /\ TokenOf[t].sensitive \in BOOLEAN /\ TokenOf[t].text \in Seq(Chars)
      /\ Len(TokenOf[t].text) \in Nat \ {0}
  BY TokenKinds
<1>2. PICK s \in Seq(Chars) : s = TokenOf[t].text
  BY <1>1
<1>3. 1 \in 1..Len(s) /\ s[1] \in Chars
  <2>1. 1 \in 1..Len(s)
    BY <1>1, <1>2
  <2> QED BY <2>1
<1>4. /\ c \in Chars /\ Folded[c] = Folded[s[1]]
      /\ TokenOf[t].sensitive => c = s[1]
  <2>1. HeadsOf(TokenOf[t]) = {s[1]} /\ IsPattern(TokenOf[t])
    BY <1>2 DEF HeadsOf, IsPattern, IsA
  <2> QED BY <1>1, <1>3, <2>1, HeadOfCover
<1> DEFINE w == [k \in 1..Len(s) |-> IF k = 1 THEN c ELSE s[k]]
<1>5. w \in Seq(Chars) /\ Len(w) = Len(s) /\ w[1] = c
  BY <1>3, <1>4
<1>6. \A k \in 1..Len(w) : /\ Folded[w[k]] = Folded[s[k]]
                           /\ TokenOf[t].sensitive => w[k] = s[k]
  BY <1>4, <1>5
<1> HIDE DEF w
<1>7. w \in Texts /\ Reads(t, w)
  BY <1>2, <1>5, <1>6, LiteralReads
<1> QED BY <1>5, <1>7

\* A class is read of any text whose first character it covers.
LEMMA ClassFirst ==
    ASSUME NEW t \in Tokens, IsA("class", t), HeadIsExact(TokenOf[t]),
           NEW w, w[1] \in CoverOf(TokenOf[t])
    PROVE  Reads(t, w)
<1>1. /\ HeadsOf(TokenOf[t]) = TokenOf[t].covers /\ IsPattern(TokenOf[t])
      /\ TokenOf[t].covers \subseteq Chars /\ TokenOf[t].sensitive \in BOOLEAN
  BY TokenKinds DEF HeadsOf, IsPattern, IsA
<1>2. \E d \in TokenOf[t].covers :
         w[1] = d \/ (~TokenOf[t].sensitive /\ Folded[w[1]] = Folded[d])
  BY <1>1, HeadOfCover
<1> QED BY <1>2 DEF Reads, ReadsClass, IsA

\* The first characters of a token whose first characters are told.
FirstsOf(t) == IF IsA("engine", t) THEN TokenOf[t].starts ELSE CoverOf(TokenOf[t])

\* It is read of a text with any of them, and of any such text unless it is
\* a literal.
LEMMA ReadFirst ==
    ASSUME NEW t \in Plain, ~IsA("any", t), ~IsA("text", t), HeadIsExact(TokenOf[t]),
           NEW c \in FirstsOf(t)
    PROVE  /\ \E w \in Texts : Reads(t, w) /\ w[1] = c
           /\ ~IsA("literal", t) => \A w : w[1] = c => Reads(t, w)
<1>1. t \in Tokens /\ ~IsA("set", t)
  BY DEF Plain
<1>2. ~IsA("unread", t)
  BY DEF FirstsOf, CoverOf, IsPattern, IsA
<1>3. CASE IsA("literal", t)
  BY <1>1, <1>3, LiteralFirst DEF FirstsOf, IsA
<1>4. CASE IsA("class", t) \/ IsA("engine", t)
  <2>1. ASSUME NEW w, w[1] = c PROVE Reads(t, w)
    <3>1. CASE IsA("class", t)
      BY <1>1, <2>1, <3>1, ClassFirst DEF FirstsOf, IsA
    <3>2. CASE IsA("engine", t)
      BY <2>1, <3>2 DEF FirstsOf, Reads
    <3> QED BY <1>4, <3>1, <3>2
  <2>2. c \in Chars
    <3>1. CASE IsA("class", t)
      <4>1. /\ HeadsOf(TokenOf[t]) \subseteq Chars /\ TokenOf[t].sensitive \in BOOLEAN
            /\ IsPattern(TokenOf[t]) /\ c \in CoverOf(TokenOf[t])
        BY <1>1, <3>1, TokenKinds DEF HeadsOf, IsPattern, FirstsOf, IsA
      <4> QED BY <1>1, <4>1, HeadOfCover
    <3>2. CASE IsA("engine", t)
      BY <1>1, <3>2, TokenKinds DEF FirstsOf
    <3> QED BY <1>4, <3>1, <3>2
  <2>3. <<c>> \in Texts /\ <<c>>[1] = c
    BY <2>2, TextsAssumption
  <2>4. Reads(t, <<c>>)
    BY <2>1, <2>3
  <2>5. ~IsA("literal", t)
    BY <1>4 DEF IsA
  <2> QED BY <2>1, <2>3, <2>4, <2>5
<1> QED BY <1>1, <1>2, <1>3, <1>4, TokenKinds DEF IsA

\* Two tokens whose first characters are told contest only for a text both
\* are read of, but for a keyword and a literal that is none.
LEMMA ContestIsWarranted ==
    ASSUME NEW x \in Plain, NEW y \in Plain, Contests(x, y)
    PROVE  Warranted(x, y)
<1> SUFFICES ASSUME Told(x, y), x # y, ~Overtaken(x, y)
             PROVE  ReadAlike(x, y)
  BY DEF Warranted, Meet
<1>1. x \in Tokens /\ y \in Tokens
  BY DEF Plain
<1>2. CASE IsA("literal", x) /\ IsA("literal", y)
  <2>1. LiteralsMeet(TokenOf[x], TokenOf[y])
    BY <1>2 DEF Contests, AtOnce, Direct, IsA
  <2> QED BY <1>1, <1>2, <2>1, LiteralsThatMeetReadAlike
<1>3. CASE ~(IsA("literal", x) /\ IsA("literal", y))
  <2>1. /\ ~IsA("any", x) /\ ~IsA("text", x) /\ HeadIsExact(TokenOf[x])
        /\ ~IsA("any", y) /\ ~IsA("text", y) /\ HeadIsExact(TokenOf[y])
    BY <1>3 DEF Told
  <2>2. \/ TokensOverlap(TokenOf[x], TokenOf[y])
        \/ EngineMeets(TokenOf[x], TokenOf[y]) \/ EngineMeets(TokenOf[y], TokenOf[x])
    BY <1>3, <2>1 DEF Contests, AtOnce, Direct, IsA
  <2>3. PICK c \in FirstsOf(x) : c \in FirstsOf(y)
    <3>1. CASE TokensOverlap(TokenOf[x], TokenOf[y])
      BY <3>1 DEF TokensOverlap, FirstsOf, CoverOf, IsPattern, IsA
    <3>2. CASE EngineMeets(TokenOf[x], TokenOf[y])
      BY <3>2, <2>1 DEF EngineMeets, FirstsOf, CoverOf, IsPattern, IsA
    <3>3. CASE EngineMeets(TokenOf[y], TokenOf[x])
      BY <3>3, <2>1 DEF EngineMeets, FirstsOf, CoverOf, IsPattern, IsA
    <3> QED BY <2>2, <3>1, <3>2, <3>3
  <2>4. CASE ~IsA("literal", x)
    <3>1. PICK w \in Texts : Reads(y, w) /\ w[1] = c
      BY <2>1, <2>3, ReadFirst
    <3>2. Reads(x, w)
      BY <2>1, <2>3, <2>4, <3>1, ReadFirst
    <3> QED BY <3>1, <3>2 DEF ReadAlike
  <2>5. CASE ~IsA("literal", y)
    <3>1. PICK w \in Texts : Reads(x, w) /\ w[1] = c
      BY <2>1, <2>3, ReadFirst
    <3>2. Reads(y, w)
      BY <2>1, <2>3, <2>5, <3>1, ReadFirst
    <3> QED BY <3>1, <3>2 DEF ReadAlike
  <2> QED BY <1>3, <2>4, <2>5
<1> QED BY <1>2, <1>3

-----------------------------------------------------------------------------
(* The answer without a memo does not depend on the order of the tokens.   *)

\* Two literals meet, whichever is named first.
LEMMA LiteralsMeetEitherWay ==
    ASSUME NEW x \in Tokens, NEW y \in Tokens, IsA("literal", x), IsA("literal", y),
           LiteralsMeet(TokenOf[x], TokenOf[y])
    PROVE  LiteralsMeet(TokenOf[y], TokenOf[x])
<1>1. PICK a \in Seq(Chars), b \in Seq(Chars) : a = TokenOf[x].text /\ b = TokenOf[y].text
  BY TokenKinds
<1>2. CASE Len(a) = Len(b)
  <2>1. /\ Shorter(TokenOf[x], TokenOf[y]) = TokenOf[x]
        /\ Longer(TokenOf[x], TokenOf[y]) = TokenOf[y]
        /\ Shorter(TokenOf[y], TokenOf[x]) = TokenOf[y]
        /\ Longer(TokenOf[y], TokenOf[x]) = TokenOf[x]
    BY <1>1, <1>2 DEF Shorter, Longer
  <2>2. Begins(TokenOf[x], TokenOf[y])
    BY <2>1 DEF LiteralsMeet
  <2>3. Begins(TokenOf[y], TokenOf[x])
    <3>1. CASE TokenOf[x].sensitive /\ TokenOf[y].sensitive
      BY <3>1, <2>2, <1>1, <1>2 DEF Begins, IsPrefixOf
    <3>2. CASE ~(TokenOf[x].sensitive /\ TokenOf[y].sensitive)
      <4>1. FoldedPrefix(a, b)
        BY <3>2, <2>2, <1>1 DEF Begins
      <4>2. \/ \A k \in 1..Len(a) : Lower[a[k]] = Lower[b[k]]
            \/ \A k \in 1..Len(a) : Upper[a[k]] = Upper[b[k]]
        BY <4>1, CasedPrefix DEF FoldedPrefix
      <4>3. FoldedPrefix(b, a)
        BY <4>2, <1>2, CasedPrefix DEF FoldedPrefix
      <4> QED BY <3>2, <4>3, <1>1 DEF Begins
    <3> QED BY <3>1, <3>2
  <2>4. ~GoesOn(TokenOf[y], TokenOf[x])
    BY <1>1, <1>2 DEF GoesOn
  <2> QED BY <2>1, <2>3, <2>4 DEF LiteralsMeet
<1>3. CASE Len(a) # Len(b)
  <2>1. /\ Shorter(TokenOf[x], TokenOf[y]) = Shorter(TokenOf[y], TokenOf[x])
        /\ Longer(TokenOf[x], TokenOf[y]) = Longer(TokenOf[y], TokenOf[x])
    BY <1>1, <1>3 DEF Shorter, Longer
  <2> QED BY <2>1 DEF LiteralsMeet
<1> QED BY <1>2, <1>3

LEMMA ContestEitherWay ==
    ASSUME NEW x \in Plain, NEW y \in Plain, Contests(x, y)
    PROVE  Contests(y, x)
<1>1. x \in Tokens /\ y \in Tokens
  BY DEF Plain
<1>2. CASE AtOnce(x, y)
  BY <1>2 DEF AtOnce, Contests
<1>3. CASE ~AtOnce(x, y) /\ IsA("literal", x) /\ IsA("literal", y)
  <2>1. LiteralsMeet(TokenOf[x], TokenOf[y])
    BY <1>3 DEF Contests, Direct, IsA
  <2>2. LiteralsMeet(TokenOf[y], TokenOf[x])
    BY <1>1, <1>3, <2>1, LiteralsMeetEitherWay
  <2> QED BY <1>3, <2>2 DEF Contests, Direct, IsA
<1>4. CASE ~AtOnce(x, y) /\ ~(IsA("literal", x) /\ IsA("literal", y))
  <2>1. TokensOverlap(TokenOf[x], TokenOf[y]) => TokensOverlap(TokenOf[y], TokenOf[x])
    BY DEF TokensOverlap
  <2> QED BY <1>4, <2>1 DEF Contests, Direct, IsA
<1> QED BY <1>2, <1>3, <1>4

LEMMA MembersArePlain ==
    ASSUME NEW t \in Tokens
    PROVE  /\ MembersOf(t) \in Seq(Plain)
           /\ ~IsA("set", t) => t \in Plain /\ MembersOf(t) = <<t>>
<1>1. CASE IsA("set", t)
  BY <1>1, TokenKinds DEF MembersOf
<1>2. CASE ~IsA("set", t)
  <2>1. t \in Plain
    BY <1>2 DEF Plain
  <2> QED BY <1>2, <2>1 DEF MembersOf
<1> QED BY <1>1, <1>2

\* What is said of a pair with a set is said of the members.
LEMMA MembersAnswer ==
    ASSUME NEW a \in Tokens, NEW b \in Tokens
    PROVE  <<a, b>> \in Contesting
             <=> \E k \in 1..Len(MembersOf(a)), m \in 1..Len(MembersOf(b)) :
                    Contests(MembersOf(a)[k], MembersOf(b)[m])
<1>1. PICK xs \in Seq(Plain), ys \in Seq(Plain) : xs = MembersOf(a) /\ ys = MembersOf(b)
  BY MembersArePlain
<1>2. <<a, b>> \in Questions
  BY DEF Questions
<1>3. Pairs(<<a, b>>) = { <<xs[k], ys[m]>> : k \in 1..Len(xs), m \in 1..Len(ys) }
  BY <1>1 DEF Pairs
<1>4. <<a, b>> \in Contesting
        <=> \E q \in { <<xs[k], ys[m]>> : k \in 1..Len(xs), m \in 1..Len(ys) } :
              Contests(q[1], q[2])
  BY <1>2, <1>3 DEF Contesting
<1>5. ASSUME NEW k \in 1..Len(xs), NEW m \in 1..Len(ys), Contests(xs[k], ys[m])
      PROVE  \E q \in { <<xs[kk], ys[mm]>> : kk \in 1..Len(xs), mm \in 1..Len(ys) } :
                Contests(q[1], q[2])
  <2> DEFINE q == <<xs[k], ys[m]>>
  <2>1. q \in { <<xs[kk], ys[mm]>> : kk \in 1..Len(xs), mm \in 1..Len(ys) }
    OBVIOUS
  <2>2. q[1] = xs[k] /\ q[2] = ys[m]
    OBVIOUS
  <2>3. Contests(q[1], q[2])
    BY <1>5, <2>2
  <2> HIDE DEF q
  <2> QED BY <2>1, <2>3
<1> QED BY <1>1, <1>4, <1>5

LEMMA ContestingEitherWay ==
    ASSUME NEW a \in Tokens, NEW b \in Tokens, <<a, b>> \in Contesting
    PROVE  <<b, a>> \in Contesting
<1>1. PICK xs \in Seq(Plain), ys \in Seq(Plain) : xs = MembersOf(a) /\ ys = MembersOf(b)
  BY MembersArePlain
<1>2. PICK k \in 1..Len(xs), m \in 1..Len(ys) : Contests(xs[k], ys[m])
  BY <1>1, MembersAnswer
<1>3. xs[k] \in Plain /\ ys[m] \in Plain
  OBVIOUS
<1>4. Contests(ys[m], xs[k])
  BY <1>2, <1>3, ContestEitherWay
<1> QED BY <1>1, <1>4, MembersAnswer

\* Of two tokens that are not sets there is one pair.
LEMMA PlainAnswer ==
    ASSUME NEW a \in Plain, NEW b \in Plain
    PROVE  <<a, b>> \in Contesting <=> Contests(a, b)
<1>1. a \in Tokens /\ b \in Tokens /\ ~IsA("set", a) /\ ~IsA("set", b)
  BY DEF Plain
<1>2. MembersOf(a) = <<a>> /\ MembersOf(b) = <<b>>
  BY <1>1, MembersArePlain
<1>3. /\ Len(<<a>>) = 1 /\ Len(<<b>>) = 1 /\ <<a>>[1] = a /\ <<b>>[1] = b
  OBVIOUS
<1>4. <<a, b>> \in Contesting
        <=> \E k \in 1..1, m \in 1..1 : Contests(<<a>>[k], <<b>>[m])
  BY <1>1, <1>2, <1>3, MembersAnswer
<1>5. ASSUME NEW k \in 1..1 PROVE <<a>>[k] = a /\ <<b>>[k] = b
  BY <1>3
<1>6. 1 \in 1..1
  OBVIOUS
<1> QED BY <1>3, <1>4, <1>5, <1>6

\* The verdicts of the members carry over to sets.
LEMMA MeetingContests ==
    ASSUME NEW p \in Meeting
    PROVE  p \in Contesting
<1>1. PICK a \in Tokens, b \in Tokens : p = <<a, b>>
  BY DEF Meeting, Questions
<1>2. PICK xs \in Seq(Plain), ys \in Seq(Plain) : xs = MembersOf(a) /\ ys = MembersOf(b)
  BY MembersArePlain
<1>3. PICK q \in Pairs(p) : Meet(q[1], q[2])
  BY DEF Meeting
<1>4. PICK k \in 1..Len(xs), m \in 1..Len(ys) : q = <<xs[k], ys[m]>>
  BY <1>1, <1>2, <1>3 DEF Pairs
<1>5. q[1] \in Plain /\ q[2] \in Plain
  BY <1>4
<1> QED BY <1>3, <1>5, MeetingContest DEF Meeting, Contesting

LEMMA ContestingIsWarranted ==
    ASSUME NEW p \in Contesting
    PROVE  p \in Warranting
<1>1. PICK a \in Tokens, b \in Tokens : p = <<a, b>>
  BY DEF Contesting, Questions
<1>2. PICK xs \in Seq(Plain), ys \in Seq(Plain) : xs = MembersOf(a) /\ ys = MembersOf(b)
  BY MembersArePlain
<1>3. PICK q \in Pairs(p) : Contests(q[1], q[2])
  BY DEF Contesting
<1>4. PICK k \in 1..Len(xs), m \in 1..Len(ys) : q = <<xs[k], ys[m]>>
  BY <1>1, <1>2, <1>3 DEF Pairs
<1>5. q[1] \in Plain /\ q[2] \in Plain
  BY <1>4
<1> QED BY <1>3, <1>5, ContestIsWarranted DEF Warranting, Contesting

-----------------------------------------------------------------------------
(* The inductive invariant.                                                *)

TypeInv ==
    /\ memo \in [DOMAIN memo -> BOOLEAN]
    /\ DOMAIN memo \subseteq { {q[1], q[2]} : q \in Questions }
    /\ asked = <<>> \/ asked \in Questions
    /\ keep \in BOOLEAN /\ yes \in BOOLEAN
    /\ i \in Nat \ {0} /\ j \in Nat \ {0}

\* An answer kept is the answer without a memo.
KeptIsTrue ==
    \A a \in Tokens, b \in Tokens :
       a # b /\ {a, b} \in DOMAIN memo \ InQuestion
         => (memo[{a, b}] <=> <<a, b>> \in Contesting)

\* The members asked so far, in the order of the two lists, do not contest,
\* or the last of them does.
Before(k, m) == k < i \/ (k = i /\ m < j)
Asking ==
    /\ IsPair(asked[1], asked[2]) /\ asked[1] # asked[2]
    /\ Ys # <<>> => j <= Len(Ys)
    /\ yes => <<asked[1], asked[2]>> \in Contesting
    /\ ~yes => \A k \in 1..Len(Xs), m \in 1..Len(Ys) :
                  Before(k, m) => ~Contests(Xs[k], Ys[m])
AskedInOrder == IF asked = <<>> THEN NoQuestion ELSE Asking

ContestInv == TypeInv /\ KeptIsTrue /\ AskedInOrder

LEMMA KeepTyped ==
    ASSUME NEW key, NEW room \in BOOLEAN, NEW answer \in BOOLEAN, TypeInv
    PROVE  Keep(key, room, answer) \in [DOMAIN Keep(key, room, answer) -> BOOLEAN]
<1>1. CASE room
  BY <1>1 DEF Keep, With, TypeInv
<1>2. CASE ~room
  BY <1>2 DEF Keep, Without, TypeInv
<1> QED BY <1>1, <1>2

\* The pair in question has a set in it, so no two members are that pair.
LEMMA MembersNotInQuestion ==
    ASSUME TypeInv, AskedInOrder, NEW x \in Plain, NEW y \in Plain
    PROVE  {x, y} \notin InQuestion
<1>1. CASE asked = <<>>
  BY <1>1 DEF InQuestion
<1>2. CASE asked # <<>>
  <2>1. IsPair(asked[1], asked[2])
    BY <1>2 DEF AskedInOrder, Asking
  <2>2. ~IsA("set", x) /\ ~IsA("set", y)
    BY DEF Plain
  <2>3. {x, y} # {asked[1], asked[2]}
    BY <2>1, <2>2 DEF IsPair
  <2> QED BY <1>2, <2>3 DEF InQuestion
<1> QED BY <1>1, <1>2

\* Asked of two tokens that are not sets, the memo answers as a comparison
\* would.
LEMMA AnswerIsTrue ==
    ASSUME ContestInv, NEW x \in Plain, NEW y \in Plain
    PROVE  /\ Answer(x, y) <=> Contests(x, y)
           /\ Answer(x, y) \in BOOLEAN
<1>1. x \in Tokens /\ y \in Tokens
  BY DEF Plain
<1>2. {x, y} \notin InQuestion
  BY MembersNotInQuestion DEF ContestInv
<1>3. CASE AtOnce(x, y)
  BY <1>3 DEF Answer, Contests
<1>4. CASE ~AtOnce(x, y) /\ Known(x, y)
  <2>1. memo[{x, y}] <=> <<x, y>> \in Contesting
    BY <1>1, <1>2, <1>4 DEF ContestInv, KeptIsTrue, Known, AtOnce
  <2>2. memo[{x, y}] <=> Contests(x, y)
    BY <2>1, PlainAnswer
  <2> QED BY <1>4, <2>2 DEF Answer
<1>5. CASE ~AtOnce(x, y) /\ ~Known(x, y)
  BY <1>5 DEF Answer, Contests
<1> QED BY <1>3, <1>4, <1>5

\* So does the memo it leaves.
LEMMA AnsweredIsTrue ==
    ASSUME ContestInv, NEW x \in Plain, NEW y \in Plain,
           memo' = Answered(x, y), InQuestion' = InQuestion
    PROVE  /\ memo' \in [DOMAIN memo' -> BOOLEAN]
           /\ DOMAIN memo' \subseteq { {q[1], q[2]} : q \in Questions }
           /\ KeptIsTrue'
<1>1. x \in Tokens /\ y \in Tokens
  BY DEF Plain
<1>2. CASE AtOnce(x, y) \/ Known(x, y)
  <2>1. memo' = memo
    BY <1>2 DEF Answered
  <2> QED BY <2>1 DEF ContestInv, TypeInv, KeptIsTrue
<1>3. CASE ~(AtOnce(x, y) \/ Known(x, y))
  <2>1. memo' = Keep({x, y}, HasRoom, Direct(x, y))
    BY <1>3 DEF Answered
  <2>2. PICK room \in BOOLEAN, answer \in BOOLEAN : room = HasRoom /\ answer = Direct(x, y)
    <3>1. HasRoom \in BOOLEAN
      BY DEF HasRoom
    <3>2. CASE IsA("literal", x) /\ IsA("literal", y)
      <4>1. Direct(x, y) = LiteralsMeet(TokenOf[x], TokenOf[y])
        BY <3>2 DEF Direct, IsA
      <4>2. LiteralsMeet(TokenOf[x], TokenOf[y]) \in BOOLEAN
        BY DEF LiteralsMeet
      <4> QED BY <3>1, <4>1, <4>2
    <3>3. CASE ~(IsA("literal", x) /\ IsA("literal", y))
      <4>1. Direct(x, y) \in BOOLEAN
        BY <3>3 DEF Direct, IsA
      <4> QED BY <3>1, <4>1
    <3> QED BY <3>2, <3>3
  <2>9. memo' = Keep({x, y}, room, answer)
    BY <2>1, <2>2
  <2>3. /\ DOMAIN memo' = IF room THEN DOMAIN memo \cup {{x, y}} ELSE DOMAIN memo \ {{x, y}}
        /\ room => memo'[{x, y}] = answer
        /\ \A k \in DOMAIN memo : k # {x, y} => memo'[k] = memo[k]
    BY <2>9 DEF Keep, With, Without
  <2>4. memo' \in [DOMAIN memo' -> BOOLEAN]
    BY <2>9, KeepTyped DEF ContestInv
  <2>5. {x, y} \in { {q[1], q[2]} : q \in Questions }
    <3>1. <<x, y>> \in Questions /\ <<x, y>>[1] = x /\ <<x, y>>[2] = y
      BY <1>1 DEF Questions
    <3> QED BY <3>1
  <2>6. DOMAIN memo' \subseteq { {q[1], q[2]} : q \in Questions }
    BY <2>3, <2>5 DEF ContestInv, TypeInv
  <2>7. ASSUME NEW a \in Tokens, NEW b \in Tokens, a # b, {a, b} \in DOMAIN memo' \ InQuestion
        PROVE  memo'[{a, b}] <=> <<a, b>> \in Contesting
    <3>1. CASE {a, b} # {x, y}
      <4>1. {a, b} \in DOMAIN memo /\ memo'[{a, b}] = memo[{a, b}]
        BY <2>3, <2>7, <3>1
      <4> QED BY <2>7, <4>1 DEF ContestInv, KeptIsTrue
    <3>2. CASE {a, b} = {x, y}
      <4>1. memo'[{a, b}] = answer
        BY <2>3, <2>7, <3>2
      <4>2. memo'[{a, b}] <=> Contests(x, y)
        BY <1>3, <2>2, <4>1 DEF Contests
      <4>3. (a = x /\ b = y) \/ (a = y /\ b = x)
        BY <2>7, <3>2
      <4>4. Contests(x, y) <=> Contests(a, b)
        BY <4>3, ContestEitherWay
      <4>5. a \in Plain /\ b \in Plain
        BY <4>3
      <4> QED BY <4>2, <4>4, <4>5, PlainAnswer
    <3> QED BY <3>1, <3>2
  <2>8. KeptIsTrue'
    BY <2>7 DEF KeptIsTrue, Contesting, Contests, Direct, Questions
  <2> QED BY <2>4, <2>6, <2>8
<1> QED BY <1>2, <1>3

LEMMA StepAsk ==
    ASSUME ContestInv, NEW a \in Tokens, NEW b \in Tokens, Ask(a, b)
    PROVE  ContestInv'
<1>1. /\ a \in Plain /\ b \in Plain /\ memo' = Answered(a, b)
      /\ asked' = asked /\ keep' = keep /\ i' = i /\ j' = j /\ yes' = yes
      /\ asked = <<>>
  BY DEF Ask, IsPair, Plain, question
<1>2. InQuestion' = InQuestion
  BY <1>1 DEF InQuestion
<1>3. /\ memo' \in [DOMAIN memo' -> BOOLEAN]
      /\ DOMAIN memo' \subseteq { {q[1], q[2]} : q \in Questions }
      /\ KeptIsTrue'
  BY <1>1, <1>2, AnsweredIsTrue
<1>4. TypeInv'
  BY <1>1, <1>3 DEF ContestInv, TypeInv, Questions
<1>5. AskedInOrder'
  BY <1>1 DEF ContestInv, AskedInOrder, NoQuestion
<1> QED BY <1>3, <1>4, <1>5 DEF ContestInv

LEMMA StepAskSets ==
    ASSUME ContestInv, NEW a \in Tokens, NEW b \in Tokens, AskSets(a, b)
    PROVE  ContestInv'
<1>1. /\ asked = <<>> /\ IsPair(a, b) /\ a # b /\ {a, b} \notin DOMAIN memo
      /\ asked' = <<a, b>> /\ keep' = HasRoom /\ memo' = With({a, b}, TRUE)
      /\ i' = 1 /\ j' = 1 /\ yes' = FALSE
  BY DEF AskSets, AtOnce, Known, ContestInv, AskedInOrder, NoQuestion
<1>2. /\ DOMAIN memo' = DOMAIN memo \cup {{a, b}}
      /\ \A k \in DOMAIN memo : memo'[k] = memo[k]
      /\ memo'[{a, b}] = TRUE
      /\ memo' = [k \in DOMAIN memo' |-> memo'[k]]
  BY <1>1 DEF With
<1>3. <<a, b>> \in Questions /\ <<a, b>>[1] = a /\ <<a, b>>[2] = b
  BY DEF Questions
<1>4. TypeInv'
  <2>1. memo' \in [DOMAIN memo' -> BOOLEAN]
    BY <1>2 DEF ContestInv, TypeInv
  <2>2. DOMAIN memo' \subseteq { {q[1], q[2]} : q \in Questions }
    BY <1>2, <1>3 DEF ContestInv, TypeInv
  <2>3. keep' \in BOOLEAN
    BY <1>1 DEF HasRoom
  <2>4. Questions' = Questions /\ asked' \in Questions
    BY <1>1, <1>3 DEF Questions
  <2>5. yes' \in BOOLEAN
    BY <1>1, Zenon
  <2>6. i' \in Nat \ {0} /\ j' \in Nat \ {0}
    BY <1>1
  <2> QED BY <2>1, <2>2, <2>3, <2>4, <2>5, <2>6 DEF TypeInv
<1>5. KeptIsTrue'
  <2>1. InQuestion = {} /\ InQuestion' = {{a, b}}
    BY <1>1 DEF InQuestion
  <2>2. ASSUME NEW c \in Tokens, NEW d \in Tokens, c # d, {c, d} \in DOMAIN memo' \ InQuestion'
        PROVE  memo'[{c, d}] <=> <<c, d>> \in Contesting
    <3>1. {c, d} \in DOMAIN memo \ InQuestion /\ memo'[{c, d}] = memo[{c, d}]
      BY <1>2, <2>1, <2>2
    <3> QED BY <2>2, <3>1 DEF ContestInv, KeptIsTrue
  <2> QED BY <2>2 DEF KeptIsTrue, Contesting, Questions
<1>6. Asking'
  <2>1. asked'[1] = a /\ asked'[2] = b
    BY <1>1
  <2>2. PICK xs \in Seq(Plain), ys \in Seq(Plain) : xs = MembersOf(a) /\ ys = MembersOf(b)
    BY MembersArePlain
  <2>3. Xs' = xs /\ Ys' = ys
    BY <2>1, <2>2 DEF Xs, Ys
  <2>4. Ys' # <<>> => j' <= Len(Ys')
    BY <1>1, <2>2, <2>3
  <2>5. \A k \in 1..Len(Xs'), m \in 1..Len(Ys') : ~Before(k, m)'
    BY <1>1, <2>2, <2>3 DEF Before
  <2>6. IsPair(asked'[1], asked'[2]) /\ asked'[1] # asked'[2]
    BY <1>1, <2>1
  <2> QED BY <1>1, <2>4, <2>5, <2>6 DEF Asking, IsPair
<1> QED BY <1>1, <1>4, <1>5, <1>6 DEF ContestInv, AskedInOrder

\* The members that are asked next, the pair they are members of.
LEMMA AskedPair ==
    ASSUME ContestInv, asked # <<>>
    PROVE  /\ asked \in Questions /\ asked[1] \in Tokens /\ asked[2] \in Tokens
           /\ asked = <<asked[1], asked[2]>>
           /\ InQuestion = {{asked[1], asked[2]}}
           /\ Xs \in Seq(Plain) /\ Ys \in Seq(Plain)
           /\ Asking
<1>1. PICK a \in Tokens, b \in Tokens : asked = <<a, b>>
  BY DEF ContestInv, TypeInv, Questions
<1>2. MembersOf(a) \in Seq(Plain) /\ MembersOf(b) \in Seq(Plain)
  BY MembersArePlain
<1>3. asked[1] = a /\ asked[2] = b
  BY <1>1
<1> QED BY <1>1, <1>2, <1>3 DEF ContestInv, TypeInv, InQuestion, Xs, Ys, AskedInOrder

LEMMA StepAskMembers ==
    ASSUME ContestInv, AskMembers
    PROVE  ContestInv'
<1>1. /\ asked # <<>> /\ ~yes /\ i <= Len(Xs) /\ j <= Len(Ys)
      /\ yes' = Answer(Xs[i], Ys[j]) /\ memo' = Answered(Xs[i], Ys[j])
      /\ IF j < Len(Ys) THEN i' = i /\ j' = j + 1 ELSE i' = i + 1 /\ j' = 1
      /\ asked' = asked /\ keep' = keep
  BY DEF AskMembers, MembersLeft
<1>2. /\ asked[1] \in Tokens /\ asked[2] \in Tokens /\ Asking
      /\ asked = <<asked[1], asked[2]>>
      /\ Xs \in Seq(Plain) /\ Ys \in Seq(Plain)
  BY <1>1, AskedPair
<1>3. PICK xs \in Seq(Plain), ys \in Seq(Plain) : xs = Xs /\ ys = Ys
  BY <1>2
<1>4. i \in 1..Len(xs) /\ j \in 1..Len(ys) /\ i \in Nat /\ j \in Nat
  BY <1>1, <1>3 DEF ContestInv, TypeInv
<1>5. PICK x \in Plain, y \in Plain : x = xs[i] /\ y = ys[j]
  BY <1>4
<1>6. yes' = Answer(x, y) /\ memo' = Answered(x, y)
  BY <1>1, <1>3, <1>5
<1>7. (yes' <=> Contests(x, y)) /\ yes' \in BOOLEAN
  BY <1>6, AnswerIsTrue
<1>8. InQuestion' = InQuestion /\ Xs' = xs /\ Ys' = ys
  BY <1>1, <1>3 DEF InQuestion, Xs, Ys
<1>9. /\ memo' \in [DOMAIN memo' -> BOOLEAN]
      /\ DOMAIN memo' \subseteq { {q[1], q[2]} : q \in Questions }
      /\ KeptIsTrue'
  BY <1>6, <1>8, AnsweredIsTrue
<1>10. TypeInv'
  <2>1. Questions' = Questions
    BY DEF Questions
  <2>2. asked' = <<>> \/ asked' \in Questions
    BY <1>1 DEF ContestInv, TypeInv
  <2>3. keep' \in BOOLEAN
    BY <1>1 DEF ContestInv, TypeInv
  <2>4. i' \in Nat \ {0} /\ j' \in Nat \ {0}
    BY <1>1, <1>4
  <2> QED BY <1>7, <1>9, <2>1, <2>2, <2>3, <2>4 DEF TypeInv
<1>11. Asking'
  <2>1. /\ IsPair(asked'[1], asked'[2]) /\ asked'[1] # asked'[2]
    BY <1>1, <1>2 DEF Asking
  <2>2. ys # <<>> => j' <= Len(ys)
    BY <1>1, <1>3, <1>4
  <2>3. ASSUME yes' PROVE <<asked[1], asked[2]>> \in Contesting
    <3>1. xs = MembersOf(asked[1]) /\ ys = MembersOf(asked[2])
      BY <1>3 DEF Xs, Ys
    <3> QED BY <1>2, <1>4, <1>5, <1>7, <2>3, <3>1, MembersAnswer
  <2>4. ASSUME ~yes', NEW k \in 1..Len(xs), NEW m \in 1..Len(ys), Before(k, m)'
        PROVE  ~Contests(xs[k], ys[m])
    <3>1. k < i' \/ (k = i' /\ m < j')
      BY <2>4 DEF Before
    <3>2. Before(k, m) \/ (k = i /\ m = j)
      <4>1. CASE j < Len(ys)
        BY <3>1, <4>1, <1>1, <1>3, <1>4 DEF Before
      <4>2. CASE ~(j < Len(ys))
        BY <3>1, <4>2, <1>1, <1>3, <1>4 DEF Before
      <4> QED BY <4>1, <4>2
    <3>3. CASE Before(k, m)
      BY <1>1, <1>2, <1>3, <3>3 DEF Asking
    <3>4. CASE k = i /\ m = j
      BY <1>5, <1>7, <2>4, <3>4
    <3> QED BY <3>2, <3>3, <3>4
  <2>5. (IsPair(asked[1], asked[2]))' /\ (asked[1] # asked[2])'
    BY <2>1 DEF IsPair, IsA
  <2>6. (<<asked[1], asked[2]>> \in Contesting)' <=> <<asked[1], asked[2]>> \in Contesting
    BY <1>1
  <2>7. (~yes => \A k \in 1..Len(Xs), m \in 1..Len(Ys) :
                  Before(k, m) => ~Contests(Xs[k], Ys[m]))'
    BY <1>8, <2>4
  <2> QED BY <1>8, <2>2, <2>3, <2>5, <2>6, <2>7 DEF Asking
<1> QED BY <1>1, <1>9, <1>10, <1>11 DEF ContestInv, AskedInOrder

LEMMA StepAnswerSets ==
    ASSUME ContestInv, AnswerSets
    PROVE  ContestInv'
<1>1. /\ asked # <<>> /\ ~MembersLeft
      /\ memo' = Keep({asked[1], asked[2]}, keep, yes)
      /\ asked' = <<>> /\ keep' = FALSE /\ i' = 1 /\ j' = 1 /\ yes' = FALSE
  BY DEF AnswerSets
<1>2. PICK a \in Tokens, b \in Tokens :
        /\ a = asked[1] /\ b = asked[2] /\ asked = <<a, b>> /\ <<a, b>> \in Questions
        /\ InQuestion = {{a, b}} /\ Asking
        /\ Xs \in Seq(Plain) /\ Ys \in Seq(Plain)
  BY <1>1, AskedPair
<1>3. yes <=> <<a, b>> \in Contesting
  <2>1. yes => <<a, b>> \in Contesting
    BY <1>2 DEF Asking
  <2>2. ASSUME ~yes, <<a, b>> \in Contesting PROVE FALSE
    <3>1. PICK xs \in Seq(Plain), ys \in Seq(Plain) : xs = Xs /\ ys = Ys
      BY <1>2
    <3>2. xs = MembersOf(a) /\ ys = MembersOf(b)
      BY <1>2, <3>1 DEF Xs, Ys
    <3>3. PICK k \in 1..Len(xs), m \in 1..Len(ys) : Contests(xs[k], ys[m])
      BY <2>2, <3>2, MembersAnswer
    <3>4. ys # <<>>
      OBVIOUS
    <3>5. j <= Len(ys) /\ i > Len(xs)
      <4>1. j <= Len(ys)
        BY <1>2, <3>1, <3>4 DEF Asking
      <4>2. i \in Nat
        BY DEF ContestInv, TypeInv
      <4> QED BY <1>1, <2>2, <3>1, <4>1, <4>2 DEF MembersLeft
    <3>6. Before(k, m)
      BY <3>5 DEF Before, ContestInv, TypeInv
    <3> QED BY <1>2, <2>2, <3>1, <3>3, <3>6 DEF Asking
  <2> QED BY <2>1, <2>2
<1>4. /\ DOMAIN memo' = IF keep THEN DOMAIN memo \cup {{a, b}} ELSE DOMAIN memo \ {{a, b}}
      /\ keep => memo'[{a, b}] = yes
      /\ \A k \in DOMAIN memo : k # {a, b} => memo'[k] = memo[k]
  BY <1>1, <1>2 DEF Keep, With, Without
<1>5. TypeInv'
  <2>1. memo' \in [DOMAIN memo' -> BOOLEAN]
    <3>1. keep \in BOOLEAN /\ yes \in BOOLEAN
      BY DEF ContestInv, TypeInv
    <3> QED BY <1>1, <3>1, KeepTyped DEF ContestInv
  <2>2. {a, b} \in { {q[1], q[2]} : q \in Questions }
    <3>1. <<a, b>> \in Questions /\ <<a, b>>[1] = a /\ <<a, b>>[2] = b
      BY <1>2
    <3> QED BY <3>1
  <2>3. DOMAIN memo' \subseteq { {q[1], q[2]} : q \in Questions }
    BY <1>4, <2>2 DEF ContestInv, TypeInv
  <2>4. Questions' = Questions
    BY DEF Questions
  <2>5. keep' \in BOOLEAN /\ yes' \in BOOLEAN
    BY <1>1, Zenon
  <2>6. asked' = <<>> /\ i' \in Nat \ {0} /\ j' \in Nat \ {0}
    BY <1>1
  <2> QED BY <2>1, <2>3, <2>4, <2>5, <2>6 DEF TypeInv
<1>6. KeptIsTrue'
  <2>1. InQuestion' = {}
    BY <1>1 DEF InQuestion
  <2>2. ASSUME NEW c \in Tokens, NEW d \in Tokens, c # d, {c, d} \in DOMAIN memo'
        PROVE  memo'[{c, d}] <=> <<c, d>> \in Contesting
    <3>1. CASE {c, d} # {a, b}
      <4>1. {c, d} \in DOMAIN memo \ InQuestion /\ memo'[{c, d}] = memo[{c, d}]
        BY <1>2, <1>4, <2>2, <3>1
      <4> QED BY <2>2, <4>1 DEF ContestInv, KeptIsTrue
    <3>2. CASE {c, d} = {a, b}
      <4>1. memo'[{c, d}] = yes
        BY <1>4, <2>2, <3>2
      <4>2. (c = a /\ d = b) \/ (c = b /\ d = a)
        BY <2>2, <3>2
      <4>3. <<a, b>> \in Contesting <=> <<c, d>> \in Contesting
        BY <4>2, ContestingEitherWay
      <4> QED BY <1>3, <4>1, <4>3
    <3> QED BY <3>1, <3>2
  <2> QED BY <2>1, <2>2 DEF KeptIsTrue
<1>7. AskedInOrder'
  BY <1>1 DEF AskedInOrder, NoQuestion
<1> QED BY <1>5, <1>6, <1>7 DEF ContestInv

\* However the questions are ordered and however full the memo is.
THEOREM ContestInvariant == ContestSpec => []ContestInv
<1>1. ContestInit => ContestInv
  <2> SUFFICES ASSUME ContestInit PROVE ContestInv
    OBVIOUS
  <2>1. memo = [k \in {} |-> FALSE] /\ NoQuestion
    BY DEF ContestInit
  <2>2. keep \in BOOLEAN /\ yes \in BOOLEAN
    BY <2>1, Zenon DEF NoQuestion
  <2>3. i \in Nat \ {0} /\ j \in Nat \ {0} /\ asked = <<>>
    BY <2>1 DEF NoQuestion
  <2>4. DOMAIN memo = {} /\ memo \in [DOMAIN memo -> BOOLEAN]
    BY <2>1
  <2>5. TypeInv
    BY <2>2, <2>3, <2>4 DEF TypeInv
  <2>6. KeptIsTrue
    BY <2>4 DEF KeptIsTrue
  <2> QED BY <2>1, <2>3, <2>5, <2>6 DEF ContestInv, AskedInOrder
<1>2. ContestInv /\ [ContestNext]_contestVars => ContestInv'
  <2> SUFFICES ASSUME ContestInv, [ContestNext]_contestVars PROVE ContestInv'
    OBVIOUS
  <2>1. ASSUME NEW a \in Tokens, NEW b \in Tokens, Ask(a, b) PROVE ContestInv'
    BY <2>1, StepAsk
  <2>2. ASSUME NEW a \in Tokens, NEW b \in Tokens, AskSets(a, b) PROVE ContestInv'
    BY <2>2, StepAskSets
  <2>3. CASE AskMembers
    BY <2>3, StepAskMembers
  <2>4. CASE AnswerSets
    BY <2>4, StepAnswerSets
  <2>5. CASE UNCHANGED contestVars
    BY <2>5 DEF contestVars, question, ContestInv, TypeInv, KeptIsTrue, AskedInOrder, NoQuestion, Asking,
                Before, InQuestion, Xs, Ys
  <2> QED BY <2>1, <2>2, <2>3, <2>4, <2>5 DEF ContestNext
<1> QED BY <1>1, <1>2, PTL DEF ContestSpec

\* heads_contest, asked anything in any order: an answer kept is the answer
\* without a memo, holds of two tokens read of one input, and, where the
\* first characters are known, of no others.
THEOREM MemoIsAlwaysTrue == ContestSpec => []MemoIsTrue
<1>1. ContestInv => MemoIsTrue
  <2> SUFFICES ASSUME ContestInv,
                      NEW key \in DOMAIN memo \ InQuestion, NEW a \in key, NEW b \in key \ {a}
               PROVE  /\ memo[key] <=> <<a, b>> \in Contesting
                      /\ <<a, b>> \in Meeting => memo[key]
                      /\ memo[key] => <<a, b>> \in Warranting
    BY DEF MemoIsTrue
  <2>1. PICK c \in Tokens, d \in Tokens : key = {c, d}
    BY DEF ContestInv, TypeInv, Questions
  <2>2. a \in Tokens /\ b \in Tokens /\ a # b /\ key = {a, b}
    BY <2>1
  <2>3. memo[key] <=> <<a, b>> \in Contesting
    BY <2>2 DEF ContestInv, KeptIsTrue
  <2> QED BY <2>3, MeetingContests, ContestingIsWarranted
<1> QED BY <1>1, ContestInvariant, PTL
=============================================================================
