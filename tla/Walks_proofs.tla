---------------------------- MODULE Walks_proofs ----------------------------
(***************************************************************************)
(* Proofs about the two walks over the leading references, for every set   *)
(* of rules and every graph over them: PaullOrder orders each rule once,   *)
(* after every rule it begins with that cannot begin with it; Tarjan's     *)
(* scan, as LeadCycles carries it on frames of its own, keeps exactly the  *)
(* rules that can begin with themselves.                                   *)
(***************************************************************************)
EXTENDS PaullOrder, LeadCycles, SequenceTheorems, TLAPS

-----------------------------------------------------------------------------
(***************************************************************************)
(* The order of the rules.                                                 *)
(***************************************************************************)
(* The rules in progress are the Exit entries, each once: the explicit     *)
(* stack holds what the recursive walk would have on the call stack.       *)
ExitsInProgress ==
    /\ \A n \in Names : colour[n] = 1 <=> \E i \in 1..Len(steps) : steps[i] = Exit(n)
    /\ \A i, k \in 1..Len(steps) : steps[i].op = "Exit" /\ steps[i] = steps[k] => i = k

(* Nothing is forgotten: a rule not yet seen is still to be entered.       *)
Waiting ==
    \A n \in Names : \/ colour[n] # 0
                     \/ \E i \in 1..Len(todo) : todo[i] = n
                     \/ \E i \in 1..Len(steps) : steps[i] = Enter(n)

(* A rule in progress begins, in so many steps, with all that is above it. *)
StackReaches ==
    \A i, k \in 1..Len(steps) :
       i < k /\ steps[i].op = "Exit" => CanReach(lead, steps[i].name, steps[k].name)

(* A rule in progress has the unseen rules it begins with above it.        *)
TargetsAbove ==
    \A i \in 1..Len(steps) : steps[i].op = "Exit" =>
       \A m \in LeadSet(lead, steps[i].name) :
          colour[m] # 0 \/ \E k \in (i + 1)..Len(steps) : steps[k] = Enter(m)

OrderedOnce ==
    /\ \A n \in Names : colour[n] = 2 <=> Ordered(n)
    /\ \A i, k \in 1..Len(order) : order[i] = order[k] => i = k

SortInv == /\ TypeOK
           /\ ExitsInProgress /\ Waiting /\ StackReaches /\ TargetsAbove
           /\ OrderedOnce /\ SortedButForCycles

-----------------------------------------------------------------------------
(* The graph.                                                              *)

(* What a rule begins with are rules.                                      *)
LEMMA LeadTypes ==
    ASSUME NEW g \in LeadGraphs, NEW n \in Names
    PROVE  /\ g[n] \in Seq(Names)
           /\ LeadSet(g, n) \subseteq Names
<1>1. g[n] \in Seq(Names)
  BY DEF LeadGraphs
<1>2. \A i \in 1..Len(g[n]) : g[n][i] \in Names
  BY <1>1, ElementOfSeq
<1> QED BY <1>1, <1>2 DEF LeadSet

(* A rule can begin with what it begins with.                              *)
LEMMA ReachTarget ==
    ASSUME NEW g, NEW n \in Names, NEW m \in LeadSet(g, n)
    PROVE  CanReach(g, n, m)
  BY DEF CanReach

(* And with what that begins with.                                         *)
LEMMA ReachOn ==
    ASSUME NEW g, NEW l, NEW n \in Names, CanReach(g, l, n), NEW m \in LeadSet(g, n)
    PROVE  CanReach(g, l, m)
  BY DEF CanReach, Closed

-----------------------------------------------------------------------------
(* The stack.                                                              *)

(* An entry is its kind and its rule.                                      *)
LEMMA Entries ==
    /\ \A n \in Names : Enter(n) \in Entry /\ Exit(n) \in Entry
    /\ \A n \in Names : /\ Enter(n).op = "Enter" /\ Enter(n).name = n
                        /\ Exit(n).op = "Exit" /\ Exit(n).name = n
    /\ \A e \in Entry : /\ e.name \in Names
                        /\ e.op = "Enter" => e = Enter(e.name)
                        /\ e.op = "Exit" => e = Exit(e.name)
                        /\ e.op \in {"Enter", "Exit"}
  BY DEF Entry, Enter, Exit

(* What is below the top.                                                  *)
LEMMA BelowFacts ==
    ASSUME NEW seq \in Seq(Entry), seq # <<>>
    PROVE  /\ Len(seq) \in Nat \ {0}
           /\ seq[Len(seq)] \in Entry
           /\ SubSeq(seq, 1, Len(seq) - 1) \in Seq(Entry)
           /\ Len(SubSeq(seq, 1, Len(seq) - 1)) = Len(seq) - 1
           /\ \A k \in 1..(Len(seq) - 1) : SubSeq(seq, 1, Len(seq) - 1)[k] = seq[k]
<1> DEFINE L == Len(seq)
           out == SubSeq(seq, 1, L - 1)
<1>1. L \in Nat \ {0} /\ \A k \in 1..L : seq[k] \in Entry
  BY EmptySeq, LenProperties, ElementOfSeq
<1> HIDE DEF L
<1>2. \A k \in 1..(L - 1) : seq[k] \in Entry
  BY <1>1
<1>3. L - 1 \in Int
  BY <1>1
<1>4. /\ out \in Seq(Entry)
      /\ Len(out) = (IF 1 <= L - 1 THEN L - 1 - 1 + 1 ELSE 0)
      /\ \A k \in 1..(L - 1 - 1 + 1) : out[k] = seq[1 + k - 1]
  BY <1>2, <1>3, SubSeqProperties
<1> HIDE DEF out
<1>5. Len(out) = L - 1
  BY <1>1, <1>4
<1>6. ASSUME NEW k \in 1..(L - 1) PROVE out[k] = seq[k]
  <2>1. k \in 1..(L - 1 - 1 + 1) /\ 1 + k - 1 = k
    BY <1>1
  <2> QED BY <1>4, <2>1
<1>7. seq[L] \in Entry
  BY <1>1
<1> QED BY <1>1, <1>4, <1>5, <1>6, <1>7 DEF L, out

(* The entries of a rule's targets are its targets.                        *)
LEMMA EnterAllFacts ==
    ASSUME NEW targets \in Seq(Names)
    PROVE  /\ Len(targets) \in Nat
           /\ EnterAll(targets) \in Seq(Entry)
           /\ Len(EnterAll(targets)) = Len(targets)
           /\ \A k \in 1..Len(targets) :
                 \E t \in 1..Len(targets) : EnterAll(targets)[k] = Enter(targets[t])
           /\ \A t \in 1..Len(targets) :
                 \E k \in 1..Len(targets) : EnterAll(targets)[k] = Enter(targets[t])
<1> DEFINE L == Len(targets)
           E(k) == Enter(targets[L + 1 - k])
           new == [k \in 1..L |-> E(k)]
<1>1. L \in Nat /\ \A t \in 1..L : targets[t] \in Names
  BY LenProperties, ElementOfSeq
<1> HIDE DEF L
<1>2. \A k \in 1..L : L + 1 - k \in 1..L /\ L + 1 - (L + 1 - k) = k
  BY <1>1
<1>3. \A k \in 1..L : E(k) \in Entry
  BY <1>1, <1>2, Entries
<1> HIDE DEF E
<1>4. new \in Seq(Entry)
  BY <1>1, <1>3, IsASeq
<1>5. Len(new) = L /\ \A k \in 1..L : new[k] = E(k)
  <2>1. DOMAIN new = 1..Len(new) /\ Len(new) \in Nat
    BY <1>4, LenProperties
  <2>2. DOMAIN new = 1..L
    OBVIOUS
  <2>3. \A k, m \in Nat : 1..k = 1..m => k = m
    OBVIOUS
  <2> QED BY <1>1, <2>1, <2>2, <2>3
<1>6. new = EnterAll(targets)
  BY DEF EnterAll, E, L
<1> HIDE DEF new
<1>7. \A k \in 1..L : \E t \in 1..L : new[k] = Enter(targets[t])
  BY <1>2, <1>5 DEF E
<1>8. ASSUME NEW t \in 1..L PROVE \E k \in 1..L : new[k] = Enter(targets[t])
  <2>1. L + 1 - t \in 1..L /\ new[L + 1 - t] = Enter(targets[t])
    BY <1>2, <1>5 DEF E
  <2> QED BY <2>1
<1> QED BY <1>1, <1>4, <1>5, <1>6, <1>7, <1>8 DEF L

(* new is seq with its top replaced by n's Exit entry and the targets.     *)
Pushed(seq, n, targets, new) ==
    /\ Len(seq) \in Nat \ {0}
    /\ new \in Seq(Entry)
    /\ Len(new) \in Nat
    /\ Len(seq) \in 1..Len(new)
    /\ \A k \in 1..(Len(seq) - 1) : new[k] = seq[k]
    /\ new[Len(seq)] = Exit(n)
    /\ \A k \in (Len(seq) + 1)..Len(new) :
          \E t \in 1..Len(targets) : new[k] = Enter(targets[t])
    /\ \A t \in 1..Len(targets) :
          \E k \in (Len(seq) + 1)..Len(new) : new[k] = Enter(targets[t])

(* The stack after a rule is entered: what was below, the rule's Exit      *)
(* entry, its targets.                                                     *)
LEMMA PushFacts ==
    ASSUME NEW seq \in Seq(Entry), seq # <<>>, NEW n \in Names, NEW targets \in Seq(Names)
    PROVE  Pushed(seq, n, targets,
                  Append(SubSeq(seq, 1, Len(seq) - 1), Exit(n)) \o EnterAll(targets))
<1> DEFINE L == Len(seq)
           T == Len(targets)
           out == SubSeq(seq, 1, L - 1)
           left == Append(out, Exit(n))
           right == EnterAll(targets)
           new == left \o right
<1>1. /\ L \in Nat \ {0} /\ out \in Seq(Entry) /\ Len(out) = L - 1
      /\ \A k \in 1..(L - 1) : out[k] = seq[k]
  BY BelowFacts
<1>2. /\ T \in Nat /\ right \in Seq(Entry) /\ Len(right) = T
      /\ \A k \in 1..T : \E t \in 1..T : right[k] = Enter(targets[t])
      /\ \A t \in 1..T : \E k \in 1..T : right[k] = Enter(targets[t])
  BY EnterAllFacts
<1> HIDE DEF L, T, out, right
<1>3. /\ left \in Seq(Entry) /\ Len(left) = Len(out) + 1
      /\ \A k \in 1..Len(out) : left[k] = out[k]
      /\ left[Len(out) + 1] = Exit(n)
  <2>1. Exit(n) \in Entry
    BY Entries
  <2> QED BY <1>1, <2>1, AppendProperties
<1> HIDE DEF left
<1>4. /\ Len(left) = L /\ left[L] = Exit(n)
      /\ \A k \in 1..(L - 1) : left[k] = seq[k]
  <2>1. Len(out) + 1 = L
    BY <1>1
  <2> QED BY <1>1, <1>3, <2>1
<1>5. /\ new \in Seq(Entry) /\ Len(new) = L + T
      /\ \A k \in 1..(L + T) : new[k] = IF k <= L THEN left[k] ELSE right[k - L]
  <2>1. /\ left \o right \in Seq(Entry) /\ Len(left \o right) = Len(left) + Len(right)
        /\ \A k \in 1..(Len(left) + Len(right)) :
              (left \o right)[k] = IF k <= Len(left) THEN left[k] ELSE right[k - Len(left)]
    <3>1. left \in Seq(Entry) /\ right \in Seq(Entry)
      BY <1>2, <1>3
    <3> QED BY <3>1, ConcatProperties, Zenon
  <2>2. Len(left) = L /\ Len(right) = T
    BY <1>2, <1>4
  <2>3. /\ new \in Seq(Entry) /\ Len(new) = L + T
        /\ \A k \in 1..(L + T) : new[k] = IF k <= L THEN left[k] ELSE right[k - L]
    BY <2>1, <2>2
  <2> QED BY <2>3
<1> HIDE DEF new
<1>6. \A k \in 1..(L - 1) : new[k] = seq[k]
  BY <1>1, <1>2, <1>4, <1>5
<1>7. new[L] = Exit(n)
  <2>1. L \in 1..(L + T) /\ L <= L
    BY <1>1, <1>2
  <2>2. new[L] = left[L]
    BY <1>5, <2>1
  <2> QED BY <1>4, <2>2
<1>8. \A k \in (L + 1)..(L + T) : k \in 1..(L + T) /\ ~(k <= L) /\ k - L \in 1..T
  BY <1>1, <1>2
<1>9. \A k \in (L + 1)..(L + T) : new[k] = right[k - L]
  BY <1>5, <1>8
<1>10. \A k \in (L + 1)..(L + T) : \E t \in 1..T : new[k] = Enter(targets[t])
  <2> SUFFICES ASSUME NEW k \in (L + 1)..(L + T)
               PROVE  \E t \in 1..T : new[k] = Enter(targets[t])
    OBVIOUS
  <2>1. k - L \in 1..T /\ new[k] = right[k - L]
    BY <1>8, <1>9
  <2> DEFINE m == k - L
  <2>2. m \in 1..T /\ new[k] = right[m]
    BY <2>1
  <2> HIDE DEF m
  <2>3. PICK t \in 1..T : right[m] = Enter(targets[t])
    BY <1>2, <2>2
  <2> QED BY <2>2, <2>3
<1>11. ASSUME NEW t \in 1..T
       PROVE  \E k \in (L + 1)..(L + T) : new[k] = Enter(targets[t])
  <2>1. PICK k \in 1..T : right[k] = Enter(targets[t])
    BY <1>2
  <2>2. L + k \in (L + 1)..(L + T) /\ (L + k) - L = k
    BY <1>1, <1>2
  <2>3. new[L + k] = right[k]
    BY <1>9, <2>2
  <2> QED BY <2>1, <2>2, <2>3
<1>12. L + T \in Nat /\ L \in 1..(L + T)
  BY <1>1, <1>2
<1>13. Pushed(seq, n, targets, new)
  BY <1>1, <1>5, <1>6, <1>7, <1>10, <1>11, <1>12 DEF L, T, Pushed
<1> QED BY <1>13 DEF new, left, right, out, L

-----------------------------------------------------------------------------
(* The beginning.                                                          *)

(* topo_order_for_paull begins with nothing seen and every rule a root.    *)
LEMMA InitIInv == SortInit => SortInv
<1> SUFFICES ASSUME NEW g \in LeadGraphs, NEW seq \in Seq(Names),
                    \A n \in Names : \E i \in 1..Len(seq) : seq[i] = n,
                    StartSort(g, seq)
             PROVE  SortInv
  BY DEF SortInit
<1>1. Len(steps) = 0 /\ Len(order) = 0 /\ 1..0 = {}
  BY EmptySeq DEF StartSort
<1>2. TypeOK
  <2>1. steps \in Seq(Entry) /\ order \in Seq(Names)
    BY EmptySeq DEF StartSort
  <2> QED BY <2>1 DEF TypeOK, StartSort
<1>3. ExitsInProgress /\ StackReaches /\ TargetsAbove /\ SortedButForCycles
  BY <1>1 DEF ExitsInProgress, StackReaches, TargetsAbove, SortedButForCycles, StartSort
<1>4. OrderedOnce
  BY <1>1 DEF OrderedOnce, Ordered, StartSort
<1>5. Waiting
  BY DEF Waiting, StartSort
<1> QED BY <1>2, <1>3, <1>4, <1>5 DEF SortInv

-----------------------------------------------------------------------------
(* The steps.  Each begins from an invariant state.                        *)

(* Visiting the next root puts its Enter entry on the empty stack.         *)
LEMMA RootKeeps == SortInv /\ NextRoot => SortInv'
<1> SUFFICES ASSUME SortInv, NextRoot PROVE SortInv'
  OBVIOUS
<1> DEFINE r == Head(todo)
<1>1. /\ r \in Names /\ Tail(todo) \in Seq(Names) /\ Len(Tail(todo)) = Len(todo) - 1
      /\ \A i \in 1..Len(Tail(todo)) : Tail(todo)[i] = todo[i + 1]
      /\ Len(todo) \in Nat \ {0} /\ todo[1] = r
  <2>1. todo \in Seq(Names) /\ todo # <<>>
    BY DEF SortInv, TypeOK, NextRoot
  <2>2. Len(todo) \in Nat \ {0}
    BY <2>1, EmptySeq
  <2>3. Head(todo) = todo[1]
    BY <2>1
  <2> QED BY <2>1, <2>2, <2>3, HeadTailProperties
<1>2. steps' = <<Enter(r)>> /\ Len(steps') = 1 /\ steps'[1] = Enter(r) /\ Len(steps) = 0
  BY EmptySeq DEF NextRoot
<1> HIDE DEF r
<1>3. TypeOK'
  <2>1. steps' \in Seq(Entry)
    BY <1>1, <1>2, Entries
  <2> QED BY <1>1, <2>1 DEF SortInv, TypeOK, NextRoot
<1>4. \A i \in 1..Len(steps') : i = 1 /\ steps'[i].op = "Enter" /\ steps'[i] # Exit(r)
                                /\ \A n \in Names : steps'[i] # Exit(n)
  <2>1. \A n \in Names : Enter(r) # Exit(n) /\ Enter(r).op # "Exit" /\ Enter(r).op = "Enter"
    BY <1>1, Entries
  <2> QED BY <1>1, <1>2, <2>1
<1>5. ExitsInProgress'
  <2>1. \A n \in Names : colour[n] # 1
    BY <1>2 DEF SortInv, ExitsInProgress
  <2> QED BY <1>4, <2>1 DEF ExitsInProgress, NextRoot
<1>6. StackReaches' /\ TargetsAbove'
  BY <1>4 DEF StackReaches, TargetsAbove
<1>7. Waiting'
  <2> SUFFICES ASSUME NEW n \in Names, colour'[n] = 0
               PROVE  \/ \E i \in 1..Len(todo') : todo'[i] = n
                      \/ \E i \in 1..Len(steps') : steps'[i] = Enter(n)
    BY DEF Waiting
  <2>1. PICK i \in 1..Len(todo) : todo[i] = n
    BY <1>2 DEF SortInv, Waiting, NextRoot
  <2>2. CASE i = 1
    BY <1>1, <1>2, <2>1, <2>2
  <2>3. CASE i # 1
    <3>1. i - 1 \in 1..Len(Tail(todo)) /\ (i - 1) + 1 = i
      BY <1>1, <2>3
    <3>2. todo' = Tail(todo) /\ Tail(todo)[i - 1] = n
      BY <1>1, <2>1, <3>1 DEF NextRoot
    <3> QED BY <3>1, <3>2
  <2> QED BY <2>2, <2>3
<1>8. OrderedOnce' /\ SortedButForCycles'
  BY DEF SortInv, OrderedOnce, Ordered, SortedButForCycles, NextRoot
<1> QED BY <1>3, <1>5, <1>6, <1>7, <1>8 DEF SortInv

(* The top of the stack and what is below it.                              *)
LEMMA TopFacts ==
    ASSUME TypeOK, steps # <<>>
    PROVE  /\ Len(steps) \in Nat \ {0} /\ Top = steps[Len(steps)] /\ Top \in Entry
           /\ Top.name \in Names
           /\ Below \in Seq(Entry) /\ Len(Below) = Len(steps) - 1
           /\ \A k \in 1..Len(Below) : /\ Below[k] = steps[k] /\ k \in 1..Len(steps)
                                        /\ k # Len(steps)
           /\ \A k \in 1..Len(steps) : k # Len(steps) => k \in 1..Len(Below)
<1>1. steps \in Seq(Entry)
  BY DEF TypeOK
<1>2. /\ Len(steps) \in Nat \ {0} /\ Top \in Entry
      /\ Below \in Seq(Entry) /\ Len(Below) = Len(steps) - 1
      /\ \A k \in 1..(Len(steps) - 1) : Below[k] = steps[k]
  BY <1>1, BelowFacts DEF Top, Below
<1>3. Top.name \in Names
  BY <1>2, Entries
<1> DEFINE L == Len(steps)
<1>4. L \in Nat \ {0} /\ Len(Below) = L - 1
  BY <1>2
<1>5. \A k \in 1..(L - 1) : Below[k] = steps[k]
  BY <1>2
<1> HIDE DEF L
<1>6. \A k \in 1..Len(Below) : Below[k] = steps[k] /\ k \in 1..L /\ k # L
  BY <1>4, <1>5
<1>7. \A k \in 1..L : k # L => k \in 1..Len(Below)
  BY <1>4
<1> QED BY <1>2, <1>3, <1>6, <1>7 DEF L, Top

(* Taking an entry off leaves the stack's other entries where they were.   *)
LEMMA SeenKeeps == SortInv /\ EnterSeen => SortInv'
<1> SUFFICES ASSUME SortInv, EnterSeen PROVE SortInv'
  OBVIOUS
<1>1. /\ steps # <<>> /\ Top.op = "Enter" /\ colour[Top.name] # 0 /\ steps' = Below
      /\ UNCHANGED <<lead, todo, colour, order>>
  BY DEF EnterSeen
<1>2. /\ Len(steps) \in Nat \ {0} /\ Top = steps[Len(steps)] /\ Top \in Entry
      /\ Top.name \in Names
      /\ Below \in Seq(Entry) /\ Len(Below) = Len(steps) - 1
      /\ \A k \in 1..Len(Below) : Below[k] = steps[k] /\ k \in 1..Len(steps) /\ k # Len(steps)
      /\ \A k \in 1..Len(steps) : k # Len(steps) => k \in 1..Len(Below)
  BY <1>1, TopFacts DEF SortInv
<1>3. Top = Enter(Top.name) /\ \A n \in Names : Top # Exit(n)
  BY <1>1, <1>2, Entries
<1> DEFINE B == Below
           L == Len(steps)
<1>4. /\ steps' = B /\ Top = steps[L]
      /\ \A k \in 1..Len(B) : B[k] = steps[k] /\ k \in 1..L
      /\ \A k \in 1..L : k # L => k \in 1..Len(B)
      /\ \A k \in 1..Len(B) : B[k] = steps[k]
  BY <1>1, <1>2
<1>5. TypeOK'
  BY <1>1, <1>2 DEF SortInv, TypeOK
<1> HIDE DEF B, L
<1>6. ExitsInProgress'
  <2>1. \A n \in Names : colour[n] = 1 <=> \E i \in 1..L : steps[i] = Exit(n)
    BY DEF SortInv, ExitsInProgress, L
  <2>2. \A n \in Names : (\E i \in 1..L : steps[i] = Exit(n))
                          <=> (\E i \in 1..Len(B) : B[i] = Exit(n))
    BY <1>3, <1>4
  <2>3. \A i, k \in 1..L : steps[i].op = "Exit" /\ steps[i] = steps[k] => i = k
    BY DEF SortInv, ExitsInProgress, L
  <2>4. \A i, k \in 1..Len(B) : B[i].op = "Exit" /\ B[i] = B[k] => i = k
    BY <1>4, <2>3
  <2> QED BY <1>1, <1>4, <2>1, <2>2, <2>4 DEF ExitsInProgress
<1>7. Waiting'
  <2>1. \A n \in Names : \/ colour[n] # 0
                         \/ \E i \in 1..Len(todo) : todo[i] = n
                         \/ \E i \in 1..L : steps[i] = Enter(n)
    BY DEF SortInv, Waiting, L
  <2>2. ASSUME NEW n \in Names, NEW i \in 1..L, steps[i] = Enter(n), colour[n] = 0
        PROVE  \E k \in 1..Len(B) : B[k] = Enter(n)
    <3>1. i # L
      BY <1>1, <1>4, <2>2, Entries
    <3> QED BY <1>4, <2>2, <3>1
  <2>3. \A n \in Names : \/ colour[n] # 0
                         \/ \E i \in 1..Len(todo) : todo[i] = n
                         \/ \E i \in 1..Len(B) : B[i] = Enter(n)
    BY <2>1, <2>2
  <2> QED BY <1>1, <1>4, <2>3 DEF Waiting
<1>8. StackReaches'
  <2>1. \A i, k \in 1..L :
           i < k /\ steps[i].op = "Exit" => CanReach(lead, steps[i].name, steps[k].name)
    BY DEF SortInv, StackReaches, L
  <2>2. \A i, k \in 1..Len(B) :
           i < k /\ B[i].op = "Exit" => CanReach(lead, B[i].name, B[k].name)
    BY <1>4, <2>1
  <2> QED BY <1>1, <1>4, <2>2 DEF StackReaches
<1>9. TargetsAbove'
  <2>1. ASSUME NEW i \in 1..Len(B), B[i].op = "Exit",
               NEW m \in LeadSet(lead, B[i].name), colour[m] = 0
        PROVE  \E k \in (i + 1)..Len(B) : B[k] = Enter(m)
    <3>1. PICK k \in (i + 1)..L : steps[k] = Enter(m)
      BY <1>4, <2>1 DEF SortInv, TargetsAbove, L
    <3>2. L \in Nat \ {0} /\ Len(B) = L - 1
      BY <1>2 DEF L, B
    <3>3. m \in Names
      BY <1>4, <1>2, <2>1, LeadTypes, Entries DEF SortInv, TypeOK, L, B
    <3>4. k # L
      BY <1>1, <1>4, <2>1, <3>1, <3>3, Entries
    <3>5. k \in (i + 1)..Len(B) /\ k \in 1..Len(B)
      BY <3>2, <3>4
    <3> QED BY <1>4, <3>1, <3>5
  <2>2. \A i \in 1..Len(B) : B[i].op = "Exit" =>
           \A m \in LeadSet(lead, B[i].name) :
              colour[m] # 0 \/ \E k \in (i + 1)..Len(B) : B[k] = Enter(m)
    BY <2>1
  <2> QED BY <1>1, <1>4, <2>2 DEF TargetsAbove
<1>10. OrderedOnce' /\ SortedButForCycles'
  BY <1>1 DEF SortInv, OrderedOnce, Ordered, SortedButForCycles
<1> QED BY <1>5, <1>6, <1>7, <1>8, <1>9, <1>10 DEF SortInv

(* Entering a rule puts its Exit entry where its Enter entry was and its   *)
(* targets above it.                                                       *)
LEMMA NewKeeps == SortInv /\ EnterNew => SortInv'
<1> SUFFICES ASSUME SortInv, EnterNew PROVE SortInv'
  OBVIOUS
<1> DEFINE t == Top.name
           L == Len(steps)
           M == Len(steps')
<1>1. /\ steps # <<>> /\ Top.op = "Enter" /\ colour[t] = 0
      /\ colour' = [colour EXCEPT ![t] = 1]
      /\ steps' = Append(Below, Exit(t)) \o EnterAll(lead[t])
      /\ UNCHANGED <<lead, todo, order>>
  BY DEF EnterNew, Mark
<1>2. /\ L \in Nat \ {0} /\ Top = steps[L] /\ Top \in Entry /\ t \in Names
  BY <1>1, TopFacts DEF SortInv
<1>3. steps[L] = Enter(t) /\ \A n \in Names : steps[L] # Exit(n)
  BY <1>1, <1>2, Entries
<1>4. lead[t] \in Seq(Names) /\ LeadSet(lead, t) \subseteq Names
  BY <1>2, LeadTypes DEF SortInv, TypeOK
<1>5. /\ steps' \in Seq(Entry) /\ M \in Nat /\ L \in 1..M
      /\ \A k \in 1..(L - 1) : steps'[k] = steps[k]
      /\ steps'[L] = Exit(t)
      /\ \A k \in (L + 1)..M : \E i \in 1..Len(lead[t]) : steps'[k] = Enter(lead[t][i])
      /\ \A i \in 1..Len(lead[t]) : \E k \in (L + 1)..M : steps'[k] = Enter(lead[t][i])
  <2>1. steps \in Seq(Entry)
    BY DEF SortInv, TypeOK
  <2>2. steps' = Append(SubSeq(steps, 1, L - 1), Exit(t)) \o EnterAll(lead[t])
    BY <1>1 DEF Below
  <2>3. Pushed(steps, t, lead[t], steps')
    BY <1>1, <1>2, <1>4, <2>1, <2>2, PushFacts
  <2> QED BY <2>3 DEF Pushed
<1>6. /\ \A k \in (L + 1)..M : \E m \in LeadSet(lead, t) : steps'[k] = Enter(m)
      /\ \A m \in LeadSet(lead, t) : \E k \in (L + 1)..M : steps'[k] = Enter(m)
  BY <1>5 DEF LeadSet
<1>7. TypeOK'
  BY <1>1, <1>2, <1>5 DEF SortInv, TypeOK
<1>8. steps \in Seq(Entry) /\ \A i \in 1..L : steps[i].name \in Names
  <2>1. steps \in Seq(Entry)
    BY DEF SortInv, TypeOK
  <2>2. \A i \in 1..L : steps[i] \in Entry
    BY <2>1, ElementOfSeq
  <2> QED BY <2>1, <2>2, Entries
<1> HIDE DEF t, L, M
<1>9. /\ \A k \in 1..M : k \in 1..(L - 1) \/ k = L \/ k \in (L + 1)..M
      /\ \A k \in 1..(L - 1) : k \in 1..L /\ k \in 1..M /\ k # L /\ k < L
      /\ \A k \in 1..L : k # L => k \in 1..(L - 1)
      /\ L \in 1..L /\ L \in 1..M
  BY <1>2, <1>5
<1>10. \A k \in (L + 1)..M : steps'[k].op = "Enter" /\ \A n \in Names : steps'[k] # Exit(n)
  BY <1>4, <1>6, Entries
<1>11. /\ colour'[t] = 1
       /\ \A n \in Names : n # t => colour'[n] = colour[n]
  BY <1>1, <1>2 DEF SortInv, TypeOK
<1>12. /\ \A n \in Names : colour[n] = 1 <=> \E i \in 1..L : steps[i] = Exit(n)
       /\ \A i, k \in 1..L : steps[i].op = "Exit" /\ steps[i] = steps[k] => i = k
  BY DEF SortInv, ExitsInProgress, L
<1>13. \A i \in 1..(L - 1) : steps[i] # Exit(t)
  BY <1>1, <1>2, <1>9, <1>12
<1>14. ExitsInProgress'
  <2>1. ASSUME NEW n \in Names, colour'[n] = 1
        PROVE  \E i \in 1..M : steps'[i] = Exit(n)
    <3>1. CASE n = t
      BY <1>5, <1>9, <3>1
    <3>2. CASE n # t
      <4>1. PICK i \in 1..L : steps[i] = Exit(n)
        BY <1>11, <1>12, <2>1, <3>2
      <4>2. i # L
        BY <1>3, <4>1
      <4> QED BY <1>5, <1>9, <4>1, <4>2
    <3> QED BY <3>1, <3>2
  <2>2. ASSUME NEW n \in Names, NEW i \in 1..M, steps'[i] = Exit(n)
        PROVE  colour'[n] = 1
    <3>1. CASE n = t
      BY <1>11, <3>1
    <3>2. CASE n # t
      <4>1. i # L
        BY <1>2, <1>5, <2>2, <3>2, Entries
      <4>2. i \in 1..(L - 1)
        BY <1>9, <1>10, <2>2, <4>1
      <4>3. i \in 1..L /\ steps[i] = Exit(n)
        BY <1>5, <1>9, <2>2, <4>2
      <4> QED BY <1>11, <1>12, <3>2, <4>3
    <3> QED BY <3>1, <3>2
  <2>3. ASSUME NEW i \in 1..M, NEW k \in 1..M, steps'[i].op = "Exit", steps'[i] = steps'[k]
        PROVE  i = k
    <3>1. i \notin (L + 1)..M /\ k \notin (L + 1)..M
      BY <1>10, <2>3, Entries
    <3>2. (i \in 1..(L - 1) \/ i = L) /\ (k \in 1..(L - 1) \/ k = L)
      BY <1>9, <3>1
    <3>3. CASE i \in 1..(L - 1) /\ k \in 1..(L - 1)
      BY <1>5, <1>9, <1>12, <2>3, <3>3
    <3>4. CASE i = L /\ k = L
      BY <3>4
    <3>5. ~ (i \in 1..(L - 1) /\ k = L)
      BY <1>5, <1>13, <2>3
    <3>6. ~ (k \in 1..(L - 1) /\ i = L)
      BY <1>5, <1>13, <2>3
    <3> QED BY <3>2, <3>3, <3>4, <3>5, <3>6
  <2>4. /\ \A n \in Names : colour'[n] = 1 <=> \E i \in 1..M : steps'[i] = Exit(n)
        /\ \A i, k \in 1..M : steps'[i].op = "Exit" /\ steps'[i] = steps'[k] => i = k
    BY <2>1, <2>2, <2>3
  <2> QED BY <2>4 DEF ExitsInProgress, M
<1>15. Waiting'
  <2>1. ASSUME NEW n \in Names, colour'[n] = 0, ~ \E i \in 1..Len(todo) : todo[i] = n
        PROVE  \E i \in 1..M : steps'[i] = Enter(n)
    <3>1. n # t /\ colour[n] = 0
      BY <1>11, <2>1
    <3>2. PICK i \in 1..L : steps[i] = Enter(n)
      BY <2>1, <3>1 DEF SortInv, Waiting, L
    <3>3. i # L
      BY <1>2, <1>3, <3>1, <3>2, Entries
    <3> QED BY <1>5, <1>9, <3>2, <3>3
  <2>2. \A n \in Names : colour'[n] # 0
                         \/ (\E i \in 1..Len(todo) : todo[i] = n)
                         \/ (\E i \in 1..M : steps'[i] = Enter(n))
    BY <2>1
  <2> QED BY <1>1, <2>2 DEF Waiting, M
<1>16. StackReaches'
  <2>1. \A i, k \in 1..L :
           i < k /\ steps[i].op = "Exit" => CanReach(lead, steps[i].name, steps[k].name)
    BY DEF SortInv, StackReaches, L
  <2>2. steps[L].name = t /\ steps'[L].name = t
    BY <1>2, <1>3, <1>5, Entries
  <2>3. ASSUME NEW i \in 1..M, NEW k \in 1..M, i < k, steps'[i].op = "Exit"
        PROVE  CanReach(lead, steps'[i].name, steps'[k].name)
    <3>1. i \in 1..(L - 1) \/ i = L
      BY <1>9, <1>10, <2>3
    <3>2. CASE i \in 1..(L - 1)
      <4>1. steps'[i] = steps[i] /\ i \in 1..L /\ i < L /\ steps[i].op = "Exit"
        BY <1>5, <1>9, <2>3, <3>2
      <4>2. CASE k \in 1..(L - 1)
        BY <1>5, <1>9, <2>1, <2>3, <4>1, <4>2
      <4>3. CanReach(lead, steps[i].name, t)
        BY <1>9, <2>1, <2>2, <4>1
      <4>4. CASE k = L
        BY <2>2, <4>1, <4>3, <4>4
      <4>5. CASE k \in (L + 1)..M
        <5>1. PICK m \in LeadSet(lead, t) : steps'[k] = Enter(m)
          BY <1>6, <4>5
        <5>2. steps'[k].name = m
          BY <1>4, <5>1, Entries
        <5> QED BY <1>2, <4>1, <4>3, <5>2, ReachOn
      <4> QED BY <1>9, <4>2, <4>4, <4>5
    <3>3. CASE i = L
      <4>1. k \in (L + 1)..M
        BY <1>9, <2>3, <3>3
      <4>2. PICK m \in LeadSet(lead, t) : steps'[k] = Enter(m)
        BY <1>6, <4>1
      <4>3. steps'[k].name = m
        BY <1>4, <4>2, Entries
      <4> QED BY <1>2, <2>2, <3>3, <4>3, ReachTarget
    <3> QED BY <3>1, <3>2, <3>3
  <2>4. \A i, k \in 1..M :
           i < k /\ steps'[i].op = "Exit" => CanReach(lead, steps'[i].name, steps'[k].name)
    BY <2>3
  <2> QED BY <1>1, <2>4 DEF StackReaches, M
<1>17. TargetsAbove'
  <2>1. ASSUME NEW i \in 1..M, steps'[i].op = "Exit",
               NEW m \in LeadSet(lead, steps'[i].name), colour'[m] = 0
        PROVE  \E k \in (i + 1)..M : steps'[k] = Enter(m)
    <3>1. i \in 1..(L - 1) \/ i = L
      BY <1>9, <1>10, <2>1
    <3>2. CASE i = L
      <4>1. steps'[i].name = t
        BY <1>2, <1>5, <3>2, Entries
      <4> QED BY <1>6, <2>1, <3>2, <4>1
    <3>3. CASE i \in 1..(L - 1)
      <4>1. steps'[i] = steps[i] /\ i \in 1..L /\ steps[i].op = "Exit"
            /\ m \in LeadSet(lead, steps[i].name)
        BY <1>5, <1>9, <2>1, <3>3
      <4>2. m \in Names
        BY <1>8, <4>1, LeadTypes DEF SortInv, TypeOK
      <4>3. m # t /\ colour[m] = 0
        BY <1>11, <2>1, <4>2
      <4>4. PICK k \in (i + 1)..L : steps[k] = Enter(m)
        BY <4>1, <4>3 DEF SortInv, TargetsAbove, L
      <4>5. k # L
        BY <1>2, <1>3, <4>2, <4>3, <4>4, Entries
      <4>6. k \in 1..(L - 1) /\ k \in (i + 1)..M
        BY <1>2, <1>5, <4>5
      <4> QED BY <1>5, <4>4, <4>6
    <3> QED BY <3>1, <3>2, <3>3
  <2>2. \A i \in 1..M : steps'[i].op = "Exit" =>
           \A m \in LeadSet(lead, steps'[i].name) :
              colour'[m] # 0 \/ \E k \in (i + 1)..M : steps'[k] = Enter(m)
    BY <2>1
  <2> QED BY <1>1, <2>2 DEF TargetsAbove, M
<1>18. OrderedOnce' /\ SortedButForCycles'
  <2>1. \A n \in Names : colour'[n] = 2 <=> colour[n] = 2
    BY <1>1, <1>2, <1>11
  <2> QED BY <1>1, <2>1 DEF SortInv, OrderedOnce, Ordered, SortedButForCycles
<1> QED BY <1>7, <1>14, <1>15, <1>16, <1>17, <1>18 DEF SortInv

(* Leaving a rule: what it begins with is ordered, but for what is still   *)
(* in progress, which begins with it.                                      *)
LEMMA LeaveKeeps == SortInv /\ Leave => SortInv'
<1> SUFFICES ASSUME SortInv, Leave PROVE SortInv'
  OBVIOUS
<1> DEFINE t == Top.name
           L == Len(steps)
           B == Below
           O == Len(order)
<1>1. /\ steps # <<>> /\ Top.op = "Exit" /\ colour' = [colour EXCEPT ![t] = 2]
      /\ order' = Append(order, t) /\ steps' = B
      /\ UNCHANGED <<lead, todo>>
  BY DEF Leave
<1>2. /\ L \in Nat \ {0} /\ Top = steps[L] /\ Top \in Entry /\ t \in Names
      /\ B \in Seq(Entry) /\ Len(B) = L - 1
      /\ \A k \in 1..Len(B) : B[k] = steps[k] /\ k \in 1..L /\ k # L
      /\ \A k \in 1..L : k # L => k \in 1..Len(B)
  BY <1>1, TopFacts DEF SortInv
<1>3. steps[L] = Exit(t) /\ \A n \in Names : steps[L] # Enter(n)
  BY <1>1, <1>2, Entries
<1>4. order \in Seq(Names) /\ O \in Nat /\ \A i \in 1..O : order[i] \in Names
  <2>1. order \in Seq(Names)
    BY DEF SortInv, TypeOK
  <2> QED BY <2>1, LenProperties, ElementOfSeq
<1>5. /\ order' \in Seq(Names) /\ Len(order') = O + 1
      /\ \A i \in 1..O : order'[i] = order[i]
      /\ order'[O + 1] = t
  BY <1>1, <1>2, <1>4, AppendProperties
<1>6. TypeOK'
  BY <1>1, <1>2, <1>5 DEF SortInv, TypeOK
<1>7. colour'[t] = 2 /\ \A n \in Names : n # t => colour'[n] = colour[n]
  BY <1>1, <1>2 DEF SortInv, TypeOK
<1>8. lead \in LeadGraphs
  BY DEF SortInv, TypeOK
<1> HIDE DEF t, L, B, O
<1>9. /\ \A i \in 1..(O + 1) : i \in 1..O \/ i = O + 1
      /\ \A i \in 1..O : i \in 1..(O + 1) /\ i # O + 1
      /\ O + 1 \in 1..(O + 1)
      /\ L \in 1..L
  BY <1>2, <1>4
<1>10. /\ \A n \in Names : colour[n] = 1 <=> \E i \in 1..L : steps[i] = Exit(n)
       /\ \A i, k \in 1..L : steps[i].op = "Exit" /\ steps[i] = steps[k] => i = k
  BY DEF SortInv, ExitsInProgress, L
<1>11. \A i \in 1..Len(B) : B[i] # Exit(t)
  BY <1>2, <1>3, <1>9, <1>10, Entries
<1>12. colour[t] = 1
  BY <1>2, <1>3, <1>9, <1>10
<1>13. ExitsInProgress'
  <2>1. ASSUME NEW n \in Names, colour'[n] = 1
        PROVE  \E i \in 1..Len(B) : B[i] = Exit(n)
    <3>1. n # t /\ colour[n] = 1
      BY <1>7, <2>1
    <3>2. PICK i \in 1..L : steps[i] = Exit(n)
      BY <1>10, <3>1
    <3>3. i # L
      BY <1>2, <1>3, <3>1, <3>2, Entries
    <3> QED BY <1>2, <3>2, <3>3
  <2>2. ASSUME NEW n \in Names, NEW i \in 1..Len(B), B[i] = Exit(n)
        PROVE  colour'[n] = 1
    <3>1. n # t
      BY <1>11, <2>2
    <3>2. i \in 1..L /\ steps[i] = Exit(n)
      BY <1>2, <2>2
    <3> QED BY <1>7, <1>10, <3>1, <3>2
  <2>3. \A i, k \in 1..Len(B) : B[i].op = "Exit" /\ B[i] = B[k] => i = k
    BY <1>2, <1>10
  <2>4. \A n \in Names : colour'[n] = 1 <=> \E i \in 1..Len(B) : B[i] = Exit(n)
    BY <2>1, <2>2
  <2> QED BY <1>1, <2>3, <2>4 DEF ExitsInProgress
<1>14. Waiting'
  <2>1. ASSUME NEW n \in Names, colour'[n] = 0, ~ \E i \in 1..Len(todo) : todo[i] = n
        PROVE  \E i \in 1..Len(B) : B[i] = Enter(n)
    <3>1. colour[n] = 0
      BY <1>7, <2>1
    <3>2. PICK i \in 1..L : steps[i] = Enter(n)
      BY <2>1, <3>1 DEF SortInv, Waiting, L
    <3> QED BY <1>2, <1>3, <3>2
  <2>2. \A n \in Names : colour'[n] # 0
                         \/ (\E i \in 1..Len(todo) : todo[i] = n)
                         \/ (\E i \in 1..Len(B) : B[i] = Enter(n))
    BY <2>1
  <2> QED BY <1>1, <2>2 DEF Waiting
<1>15. StackReaches'
  <2>1. \A i, k \in 1..L :
           i < k /\ steps[i].op = "Exit" => CanReach(lead, steps[i].name, steps[k].name)
    BY DEF SortInv, StackReaches, L
  <2>2. \A i, k \in 1..Len(B) :
           i < k /\ B[i].op = "Exit" => CanReach(lead, B[i].name, B[k].name)
    BY <1>2, <2>1
  <2> QED BY <1>1, <2>2 DEF StackReaches
<1>16. TargetsAbove'
  <2>1. ASSUME NEW i \in 1..Len(B), B[i].op = "Exit",
               NEW m \in LeadSet(lead, B[i].name), colour'[m] = 0
        PROVE  \E k \in (i + 1)..Len(B) : B[k] = Enter(m)
    <3>1. B[i] = steps[i] /\ i \in 1..L /\ steps[i] \in Entry
      <4>1. B[i] \in Entry
        BY <1>2, ElementOfSeq
      <4> QED BY <1>2, <4>1
    <3>2. m \in Names
      BY <1>8, <2>1, <3>1, LeadTypes, Entries
    <3>3. colour[m] = 0 /\ m \in LeadSet(lead, steps[i].name) /\ steps[i].op = "Exit"
      BY <1>7, <2>1, <3>1, <3>2
    <3>4. PICK k \in (i + 1)..L : steps[k] = Enter(m)
      BY <3>1, <3>3 DEF SortInv, TargetsAbove, L
    <3>5. k # L
      BY <1>3, <3>2, <3>4
    <3>6. k \in (i + 1)..Len(B) /\ k \in 1..Len(B)
      BY <1>2, <3>4, <3>5
    <3> QED BY <1>2, <3>4, <3>6
  <2>2. \A i \in 1..Len(B) : B[i].op = "Exit" =>
           \A m \in LeadSet(lead, B[i].name) :
              colour'[m] # 0 \/ \E k \in (i + 1)..Len(B) : B[k] = Enter(m)
    BY <2>1
  <2> QED BY <1>1, <2>2 DEF TargetsAbove
<1>17. /\ \A n \in Names : colour[n] = 2 <=> \E i \in 1..O : order[i] = n
       /\ \A i, k \in 1..O : order[i] = order[k] => i = k
  BY DEF SortInv, OrderedOnce, Ordered, O
<1>18. \A i \in 1..O : order[i] # t
  BY <1>2, <1>12, <1>17
<1>19. OrderedOnce'
  <2>1. ASSUME NEW n \in Names, colour'[n] = 2
        PROVE  \E i \in 1..(O + 1) : order'[i] = n
    <3>1. CASE n = t
      BY <1>5, <1>9, <3>1
    <3>2. CASE n # t
      <4>1. PICK i \in 1..O : order[i] = n
        BY <1>7, <1>17, <2>1, <3>2
      <4> QED BY <1>5, <1>9, <4>1
    <3> QED BY <3>1, <3>2
  <2>2. ASSUME NEW n \in Names, NEW i \in 1..(O + 1), order'[i] = n
        PROVE  colour'[n] = 2
    <3>1. CASE n = t
      BY <1>7, <3>1
    <3>2. CASE n # t
      <4>1. i \in 1..O /\ order[i] = n
        BY <1>5, <1>9, <2>2, <3>2
      <4> QED BY <1>7, <1>17, <3>2, <4>1
    <3> QED BY <3>1, <3>2
  <2>3. \A i, k \in 1..(O + 1) : order'[i] = order'[k] => i = k
    BY <1>5, <1>9, <1>17, <1>18
  <2>4. \A n \in Names : colour'[n] = 2 <=> \E i \in 1..(O + 1) : order'[i] = n
    BY <2>1, <2>2
  <2> QED BY <1>5, <2>3, <2>4 DEF OrderedOnce, Ordered
<1>20. ASSUME NEW m \in LeadSet(lead, t)
       PROVE  (\E k \in 1..O : order[k] = m) \/ CanReach(lead, m, t)
  <2>1. m \in Names
    BY <1>2, <1>8, LeadTypes
  <2>2. colour[m] # 0
    <3>1. steps[L].op = "Exit" /\ m \in LeadSet(lead, steps[L].name)
      BY <1>2, <1>3, Entries
    <3>2. (L + 1)..L = {}
      BY <1>2
    <3> QED BY <1>9, <3>1, <3>2 DEF SortInv, TargetsAbove, L
  <2>3. colour[m] \in 0..2
    BY <2>1 DEF SortInv, TypeOK
  <2>4. CASE colour[m] = 2
    BY <1>17, <2>1, <2>4
  <2>5. CASE colour[m] = 1
    <3>1. PICK i \in 1..L : steps[i] = Exit(m)
      BY <1>10, <2>1, <2>5
    <3>2. CASE i = L
      <4>1. m = t
        BY <1>2, <1>3, <2>1, <3>1, <3>2, Entries
      <4> QED BY <2>1, <4>1, ReachTarget
    <3>3. CASE i # L
      <4>1. i < L
        BY <1>2, <3>3
      <4>2. /\ steps[i].op = "Exit" /\ steps[i].name = m /\ steps[L].name = t
        BY <1>2, <1>3, <2>1, <3>1, Entries
      <4> QED BY <1>9, <4>1, <4>2 DEF SortInv, StackReaches, L
    <3> QED BY <3>2, <3>3
  <2> QED BY <2>2, <2>3, <2>4, <2>5
<1>21. SortedButForCycles'
  <2>1. \A i \in 1..O : \A m \in LeadSet(lead, order[i]) :
           (\E k \in 1..(i - 1) : order[k] = m) \/ CanReach(lead, m, order[i])
    BY DEF SortInv, SortedButForCycles, O
  <2>2. ASSUME NEW i \in 1..(O + 1), NEW m \in LeadSet(lead, order'[i]),
               ~ CanReach(lead, m, order'[i])
        PROVE  \E k \in 1..(i - 1) : order'[k] = m
    <3>1. CASE i = O + 1
      <4>1. PICK k \in 1..O : order[k] = m
        BY <1>5, <1>20, <2>2, <3>1
      <4>2. k \in 1..(i - 1)
        BY <1>4, <3>1
      <4> QED BY <1>5, <4>1, <4>2
    <3>2. CASE i # O + 1
      <4>1. i \in 1..O /\ order'[i] = order[i]
        BY <1>5, <1>9, <3>2
      <4>2. PICK k \in 1..(i - 1) : order[k] = m
        BY <2>1, <2>2, <4>1
      <4>3. k \in 1..O
        BY <1>4, <4>1
      <4> QED BY <1>5, <4>2, <4>3
    <3> QED BY <3>1, <3>2
  <2>3. \A i \in 1..(O + 1) : \A m \in LeadSet(lead, order'[i]) :
           (\E k \in 1..(i - 1) : order'[k] = m) \/ CanReach(lead, m, order'[i])
    BY <2>2
  <2> QED BY <1>1, <1>5, <2>3 DEF SortedButForCycles
<1> QED BY <1>6, <1>13, <1>14, <1>15, <1>16, <1>19, <1>21 DEF SortInv

(* Every iteration of the search keeps the invariant.                      *)
LEMMA Inductive == SortInv /\ [SortNext]_sortVars => SortInv'
<1> SUFFICES ASSUME SortInv, [SortNext]_sortVars PROVE SortInv'
  OBVIOUS
<1>1. CASE NextRoot
  BY <1>1, RootKeeps
<1>2. CASE EnterSeen
  BY <1>2, SeenKeeps
<1>3. CASE EnterNew
  BY <1>3, NewKeeps
<1>4. CASE Leave
  BY <1>4, LeaveKeeps
<1>5. CASE UNCHANGED sortVars
  BY <1>5 DEF sortVars, SortInv, TypeOK, ExitsInProgress, Waiting, StackReaches, TargetsAbove,
              OrderedOnce, Ordered, SortedButForCycles
<1> QED BY <1>1, <1>2, <1>3, <1>4, <1>5 DEF SortNext

-----------------------------------------------------------------------------
(* The invariant holds throughout topo_order_for_paull's search.           *)
THEOREM Invariance == SortSpec => []SortInv
  BY InitIInv, Inductive, PTL DEF SortSpec

(* The search's state keeps the types topo_order_for_paull declares.       *)
THEOREM TypeCorrect == SortSpec => []TypeOK
<1>1. SortInv => TypeOK
  BY DEF SortInv
<1> QED BY <1>1, Invariance, PTL

(* When the search is over every rule is in the order, once.               *)
LEMMA SortGives == SortInv => OrderIsDoneRules
<1> SUFFICES ASSUME SortInv PROVE OrderIsDoneRules
  OBVIOUS
<1>1. ASSUME Sorted, NEW n \in Names PROVE Ordered(n)
  <2>1. Len(todo) = 0 /\ Len(steps) = 0 /\ 1..0 = {}
    BY <1>1, EmptySeq DEF Sorted
  <2>2. colour[n] # 0
    BY <2>1 DEF SortInv, Waiting
  <2>3. colour[n] # 1
    BY <2>1 DEF SortInv, ExitsInProgress
  <2>4. colour[n] \in 0..2
    BY DEF SortInv, TypeOK
  <2> QED BY <2>2, <2>3, <2>4 DEF SortInv, OrderedOnce
<1> QED BY <1>1 DEF SortInv, OrderedOnce, OrderIsDoneRules

(* topo_order_for_paull drops no rule and repeats none: a rule is in the   *)
(* order once it is done with, once, and every rule is in the end.         *)
THEOREM OrderCorrect == SortSpec => []OrderIsDoneRules
  BY SortGives, Invariance, PTL

(* topo_order_for_paull puts a rule after each rule it begins with, but    *)
(* for those that can begin with it.                                       *)
THEOREM SortCorrect == SortSpec => []SortedButForCycles
<1>1. SortInv => SortedButForCycles
  BY DEF SortInv
<1> QED BY <1>1, Invariance, PTL

(* No rule can begin with itself.                                          *)
Acyclic == \A n \in Names : ~CanReach(lead, n, n)
(* Each rule follows all it begins with.                                   *)
Topological == \A i \in 1..Len(order) : \A m \in LeadSet(lead, order[i]) :
                  \E k \in 1..(i - 1) : order[k] = m

(* The order is a topological one when no rule can begin with itself:      *)
(* topo_order_for_paull then leaves the substitution no rule that begins   *)
(* with one still to be rewritten.                                         *)
THEOREM AcyclicIsTopological == SortSpec => [](Acyclic => Topological)
<1>1. SortInv => (Acyclic => Topological)
  <2> SUFFICES ASSUME SortInv, Acyclic,
                      NEW i \in 1..Len(order), NEW m \in LeadSet(lead, order[i])
               PROVE  \E k \in 1..(i - 1) : order[k] = m
    BY DEF Topological
  <2>1. order[i] \in Names
    <3>1. order \in Seq(Names)
      BY DEF SortInv, TypeOK
    <3> QED BY <3>1, ElementOfSeq
  <2>2. m \in Names
    BY <2>1, LeadTypes DEF SortInv, TypeOK
  <2>3. ~CanReach(lead, m, order[i])
    <3>1. CanReach(lead, m, order[i]) => CanReach(lead, m, m)
      BY <2>1, ReachOn
    <3> QED BY <2>2, <3>1 DEF Acyclic
  <2> QED BY <2>3 DEF SortInv, SortedButForCycles
<1> QED BY <1>1, Invariance, PTL

-----------------------------------------------------------------------------
(***************************************************************************)
(* The scan for cycles.                                                    *)
(***************************************************************************)
Frames == [name : Names, next : Nat]

ScanTypes == /\ lead \in LeadGraphs
             /\ roots \in Seq(Names)
             /\ frames \in Seq(Frames)
             /\ stack \in Seq(Names)
             /\ index \in Nat
             /\ indices \in [Names -> Int]
             /\ lowlinks \in [Names -> Int]
             /\ cyclic \in SUBSET Names

Seen(n) == indices[n] # Unseen
TopRule == Len(frames)
FrameOf(k) == frames[k].name

\* n is m or can begin with it.
Leads(n, m) == n = m \/ CanReach(lead, n, m)

\* A rule on the stack belongs to the last frame opened no later than it.
Belongs(n, k) == /\ indices[FrameOf(k)] <= indices[n]
                 /\ k < TopRule => indices[n] < indices[FrameOf(k + 1)]

\* The references of n that the scan has followed.
Followed(n, e) == /\ e \in 1..Len(lead[n])
                  /\ \A k \in 1..TopRule : FrameOf(k) = n => e <= frames[k].next

(* A rule seen has a number of its own, and a lowlink no higher.           *)
Numbered ==
    \A n \in Names : Seen(n) => /\ 0 <= indices[n] /\ indices[n] < index
                                /\ lowlinks[n] <= indices[n]

(* Tarjan's stack is in the order the rules were seen in.                  *)
StackInOrder ==
    /\ \A i \in 1..Len(stack) : Seen(stack[i])
    /\ \A i, k \in 1..Len(stack) : i < k => indices[stack[i]] < indices[stack[k]]

(* So are the frames, whose rules are all on the stack.                    *)
FramesInOrder ==
    /\ \A k \in 1..TopRule : OnStack(FrameOf(k)) /\ frames[k].next <= Len(lead[FrameOf(k)])
    /\ \A j, k \in 1..TopRule : j < k => indices[FrameOf(j)] < indices[FrameOf(k)]

(* A frame's rule can begin with all that was seen since and is open.      *)
FramesLead ==
    \A k \in 1..TopRule, i \in 1..Len(stack) :
       indices[FrameOf(k)] <= indices[stack[i]] => Leads(FrameOf(k), stack[i])

(* An open rule can begin with the rule of the frame it belongs to.        *)
LedBack ==
    \A i \in 1..Len(stack) : \E k \in 1..TopRule : Belongs(stack[i], k) /\ Leads(stack[i], FrameOf(k))

(* A frame's lowlink is the number of an open rule it can begin with ...   *)
LowIsLed ==
    \A k \in 1..TopRule : \E i \in 1..Len(stack) :
       lowlinks[FrameOf(k)] = indices[stack[i]] /\ Leads(FrameOf(k), stack[i])

(* ... and no reference followed from what belongs to it goes lower.       *)
LowIsLeast ==
    \A i \in 1..Len(stack), k \in 1..TopRule : Belongs(stack[i], k) =>
       \A e \in 1..Len(lead[stack[i]]) :
          Followed(stack[i], e) /\ OnStack(lead[stack[i]][e])
             => lowlinks[FrameOf(k)] <= indices[lead[stack[i]][e]]

(* What an open rule's followed references lead to has been seen.          *)
FollowedSeen ==
    \A i \in 1..Len(stack) : \A e \in 1..Len(lead[stack[i]]) :
       Followed(stack[i], e) => Seen(lead[stack[i]][e])

(* What a closed rule begins with is closed, and the answer about it given.*)
Shut(n) == Seen(n) /\ ~OnStack(n)
ClosedDecided ==
    \A n \in Names : Shut(n) => /\ \A m \in LeadSet(lead, n) : Shut(m)
                                /\ n \in cyclic <=> CanReach(lead, n, n)

(* Nothing else has an answer yet.                                         *)
OnlyClosed == \A n \in cyclic : Shut(n)

(* No rule is forgotten.                                                   *)
RootsWaiting == \A n \in Names : Seen(n) \/ \E i \in 1..Len(roots) : roots[i] = n

ScanInv == /\ ScanTypes
           /\ Numbered /\ StackInOrder /\ FramesInOrder
           /\ FramesLead /\ LedBack /\ LowIsLed /\ LowIsLeast
           /\ FollowedSeen /\ ClosedDecided /\ OnlyClosed /\ RootsWaiting

-----------------------------------------------------------------------------
(* The graph.                                                              *)

(* What a rule begins with are rules.                                      *)
LEMMA LeadParts ==
    ASSUME NEW g \in LeadGraphs, NEW n \in Names
    PROVE  /\ g[n] \in Seq(Names) /\ Len(g[n]) \in Nat
           /\ \A e \in 1..Len(g[n]) : g[n][e] \in Names /\ g[n][e] \in LeadSet(g, n)
           /\ \A m \in LeadSet(g, n) : m \in Names /\ \E e \in 1..Len(g[n]) : g[n][e] = m
<1>1. g[n] \in Seq(Names)
  BY DEF LeadGraphs
<1>2. Len(g[n]) \in Nat /\ \A e \in 1..Len(g[n]) : g[n][e] \in Names
  BY <1>1, LenProperties, ElementOfSeq
<1> QED BY <1>1, <1>2 DEF LeadSet

(* And with what that can begin with.                                      *)
LEMMA ReachTrans ==
    ASSUME NEW g, NEW l, NEW m \in Names, NEW n, CanReach(g, l, m), CanReach(g, m, n)
    PROVE  CanReach(g, l, n)
  BY DEF CanReach, Closed

(* Leads is transitive.                                                    *)
LEMMA LeadsTrans ==
    ASSUME NEW l, NEW m \in Names, NEW n, Leads(l, m), Leads(m, n)
    PROVE  Leads(l, n)
  BY ReachTrans DEF Leads

(* The lower of two numbers.                                               *)
LEMMA LowerOfTwo ==
    ASSUME NEW x \in Int, NEW y \in Int
    PROVE  /\ Min({x, y}) \in {x, y} /\ Min({x, y}) \in Int
           /\ Min({x, y}) <= x /\ Min({x, y}) <= y
<1>1. \E z \in {x, y} : \A w \in {x, y} : z <= w
  OBVIOUS
<1> QED BY <1>1 DEF Min

-----------------------------------------------------------------------------
(* What the types and the orders say.                                      *)

(* The types of what the two stacks hold.                                  *)
LEMMA Basics ==
    ASSUME ScanTypes
    PROVE  /\ TopRule \in Nat /\ Len(stack) \in Nat
           /\ \A k \in 1..TopRule : frames[k] \in Frames /\ FrameOf(k) \in Names /\ frames[k].next \in Nat
           /\ \A i \in 1..Len(stack) : stack[i] \in Names
           /\ \A n \in Names : indices[n] \in Int /\ lowlinks[n] \in Int
           /\ \A n \in Names : OnStack(n) <=> \E i \in 1..Len(stack) : stack[i] = n
<1>1. TopRule \in Nat /\ \A k \in 1..TopRule : frames[k] \in Frames
  BY LenProperties, ElementOfSeq DEF ScanTypes, TopRule
<1>2. Len(stack) \in Nat /\ \A i \in 1..Len(stack) : stack[i] \in Names
  BY LenProperties, ElementOfSeq DEF ScanTypes
<1>3. \A k \in 1..TopRule : FrameOf(k) \in Names /\ frames[k].next \in Nat
  BY <1>1 DEF Frames, FrameOf
<1>4. \A n \in Names : indices[n] \in Int /\ lowlinks[n] \in Int
  BY DEF ScanTypes
<1> QED BY <1>1, <1>2, <1>3, <1>4 DEF OnStack

(* What was seen no earlier than the current frame belongs to it alone.    *)
LEMMA TopHolds ==
    ASSUME ScanTypes, FramesInOrder, TopRule # 0, NEW n \in Names,
           indices[FrameOf(TopRule)] <= indices[n]
    PROVE  Belongs(n, TopRule) /\ \A k \in 1..TopRule : Belongs(n, k) => k = TopRule
<1>1. TopRule \in Nat \ {0} /\ \A k \in 1..TopRule : indices[FrameOf(k)] \in Int
  BY Basics
<1>2. indices[n] \in Int
  BY Basics
<1>3. Belongs(n, TopRule)
  BY <1>1 DEF Belongs
<1>4. ASSUME NEW k \in 1..TopRule, Belongs(n, k), k # TopRule PROVE FALSE
  <2>1. k < TopRule /\ k + 1 \in 1..TopRule
    BY <1>1, <1>4
  <2>2. indices[n] < indices[FrameOf(k + 1)]
    BY <1>4, <2>1 DEF Belongs
  <2>3. k + 1 = TopRule \/ indices[FrameOf(k + 1)] < indices[FrameOf(TopRule)]
    <3>1. k + 1 = TopRule \/ k + 1 < TopRule
      BY <1>1, <2>1
    <3>2. TopRule \in 1..TopRule
      BY <1>1
    <3> QED BY <2>1, <3>1, <3>2 DEF FramesInOrder
  <2> QED BY <1>1, <1>2, <2>1, <2>2, <2>3
<1> QED BY <1>3, <1>4

(* What was seen before the current frame does not belong to it.           *)
LEMMA BelowTop ==
    ASSUME ScanTypes, TopRule # 0, NEW n \in Names, NEW k \in 1..TopRule,
           indices[n] < indices[FrameOf(TopRule)], Belongs(n, k)
    PROVE  k < TopRule
<1>1. TopRule \in Nat \ {0} /\ indices[FrameOf(TopRule)] \in Int /\ indices[n] \in Int
  BY Basics
<1>2. k = TopRule => indices[FrameOf(TopRule)] <= indices[n]
  BY DEF Belongs
<1> QED BY <1>1, <1>2

(* A frame's rule can begin with the rules of the frames after it.         *)
LEMMA FramesLinked ==
    ASSUME ScanTypes, FramesInOrder, FramesLead, NEW j \in 1..TopRule, NEW k \in 1..TopRule, j <= k
    PROVE  Leads(FrameOf(j), FrameOf(k))
<1>1. PICK i \in 1..Len(stack) : stack[i] = FrameOf(k)
  BY Basics DEF FramesInOrder
<1>2. indices[FrameOf(j)] <= indices[FrameOf(k)]
  <2>1. TopRule \in Nat /\ indices[FrameOf(j)] \in Int /\ indices[FrameOf(k)] \in Int
    BY Basics
  <2>2. j = k \/ j < k
    BY <2>1
  <2> QED BY <2>1, <2>2 DEF FramesInOrder
<1> QED BY <1>1, <1>2 DEF FramesLead

-----------------------------------------------------------------------------
(* The steps.                                                              *)

(* A reference to a rule seen before: the frame moves past it.             *)
LEMMA EdgeKeeps ==
    ASSUME ScanInv, HasTarget, Seen(Target),
           frames' = Advanced, UNCHANGED <<lead, roots, stack, index, indices, cyclic>>,
           lowlinks' \in [Names -> Int],
           \A n \in Names \ {Cur.name} : lowlinks'[n] = lowlinks[n],
           lowlinks'[Cur.name] <= lowlinks[Cur.name],
           OnStack(Target) => lowlinks'[Cur.name] <= indices[Target],
           \/ lowlinks'[Cur.name] = lowlinks[Cur.name]
           \/ OnStack(Target) /\ lowlinks'[Cur.name] = indices[Target]
    PROVE  ScanInv'
<1> USE DEF ScanInv
<1>1. /\ TopRule \in Nat \ {0} /\ TopRule \in 1..TopRule
      /\ Cur = frames[TopRule] /\ Cur.name = FrameOf(TopRule) /\ Cur.name \in Names
      /\ Cur.next \in Nat
  <2>1. TopRule \in Nat \ {0}
    BY EmptySeq DEF HasTarget, ScanTypes, TopRule
  <2> QED BY <2>1, Basics DEF Cur, TopRule, FrameOf
<1>2. /\ frames' \in Seq(Frames) /\ TopRule' = TopRule
      /\ \A k \in 1..TopRule : frames'[k] = IF k = TopRule THEN [Cur EXCEPT !.next = @ + 1] ELSE frames[k]
  <2> DEFINE new == [Cur EXCEPT !.next = @ + 1]
  <2>1. new \in Frames
    BY <1>1, Basics DEF Frames
  <2>2. frames' = [frames EXCEPT ![TopRule] = new]
    BY <1>1 DEF Advanced, TopRule
  <2>3. frames \in Seq(Frames) /\ TopRule = Len(frames) /\ TopRule' = Len(frames')
    BY DEF ScanTypes, TopRule
  <2> HIDE DEF new
  <2>4. /\ [frames EXCEPT ![TopRule] = new] \in Seq(Frames)
        /\ Len([frames EXCEPT ![TopRule] = new]) = TopRule
        /\ \A k \in 1..TopRule : [frames EXCEPT ![TopRule] = new][k] = IF k = TopRule THEN new ELSE frames[k]
    BY <1>1, <2>1, <2>3, ExceptSeq
  <2> QED BY <2>2, <2>3, <2>4 DEF new
<1>3. /\ \A k \in 1..TopRule : FrameOf(k)' = FrameOf(k)
      /\ \A k \in 1..TopRule : frames'[k].next = IF k = TopRule THEN Cur.next + 1 ELSE frames[k].next
  BY <1>1, <1>2, Basics DEF FrameOf, Frames
<1>4. /\ lead[Cur.name] \in Seq(Names) /\ Len(lead[Cur.name]) \in Nat
      /\ Cur.next + 1 \in 1..Len(lead[Cur.name])
      /\ Target = lead[Cur.name][Cur.next + 1]
      /\ Target \in LeadSet(lead, Cur.name) /\ Target \in Names
  <2>1. /\ lead[Cur.name] \in Seq(Names) /\ Len(lead[Cur.name]) \in Nat
        /\ \A e \in 1..Len(lead[Cur.name]) : /\ lead[Cur.name][e] \in Names
                                             /\ lead[Cur.name][e] \in LeadSet(lead, Cur.name)
    BY <1>1, LeadParts DEF ScanTypes
  <2>2. Cur.next + 1 \in 1..Len(lead[Cur.name])
    BY <1>1, <2>1 DEF HasTarget
  <2> QED BY <2>1, <2>2 DEF Target
<1>5. /\ \A n : OnStack(n)' <=> OnStack(n)
      /\ \A n : Seen(n)' <=> Seen(n)
      /\ \A n : Shut(n)' <=> Shut(n)
      /\ \A n, m : Leads(n, m)' <=> Leads(n, m)
  BY DEF OnStack, Seen, Shut, Leads
<1>6. \A n, k : k \in 1..TopRule => (Belongs(n, k)' <=> Belongs(n, k))
  <2>1. ASSUME NEW k \in 1..TopRule, k < TopRule PROVE FrameOf(k + 1)' = FrameOf(k + 1)
    BY <1>1, <1>3, <2>1
  <2> QED BY <1>2, <1>3, <2>1 DEF Belongs
<1>7. ASSUME NEW n \in Names, NEW e, Followed(n, e)'
      PROVE  Followed(n, e) \/ (n = Cur.name /\ e = Cur.next + 1)
  <2>1. e \in 1..Len(lead[n]) /\ Len(lead[n]) \in Nat
    BY <1>7, LeadParts DEF Followed, ScanTypes
  <2>2. ASSUME NEW k \in 1..TopRule, FrameOf(k) = n, ~(e <= frames[k].next)
        PROVE  n = Cur.name /\ e = Cur.next + 1
    <3>1. e <= frames'[k].next
      BY <1>2, <1>3, <1>7, <2>2 DEF Followed
    <3>2. frames[k].next \in Nat
      BY Basics
    <3>3. k = TopRule
      BY <1>3, <2>2, <3>1
    <3>4. e <= Cur.next + 1
      BY <1>1, <1>3, <3>1, <3>3
    <3>5. ~(e <= Cur.next)
      BY <1>1, <2>2, <3>3
    <3>6. e \in Nat /\ Cur.next \in Nat
      BY <1>1, <2>1
    <3>7. e = Cur.next + 1
      BY <3>4, <3>5, <3>6
    <3> QED BY <1>1, <2>2, <3>3, <3>7
  <2> QED BY <2>1, <2>2 DEF Followed
<1>low. \A n \in Names : lowlinks'[n] <= lowlinks[n] /\ lowlinks'[n] \in Int /\ lowlinks[n] \in Int
  <2> SUFFICES ASSUME NEW n \in Names PROVE lowlinks'[n] <= lowlinks[n]
    BY Basics
  <2>1. lowlinks[n] \in Int /\ lowlinks'[n] \in Int
    BY Basics
  <2> QED BY <2>1
<1>8. ScanTypes'
  BY <1>2 DEF ScanTypes
<1>9. Numbered'
  <2> SUFFICES ASSUME NEW n \in Names, Seen(n)
               PROVE  0 <= indices[n] /\ indices[n] < index /\ lowlinks'[n] <= indices[n]
    BY <1>5 DEF Numbered
  <2>1. 0 <= indices[n] /\ indices[n] < index /\ lowlinks[n] <= indices[n]
    BY DEF Numbered
  <2>2. lowlinks'[n] <= lowlinks[n] /\ lowlinks'[n] \in Int /\ lowlinks[n] \in Int /\ indices[n] \in Int
    BY <1>low, Basics
  <2> QED BY <2>1, <2>2
<1>10. StackInOrder'
  BY <1>5 DEF StackInOrder
<1>11. FramesInOrder'
  <2>1. \A k \in 1..TopRule : frames'[k].next <= Len(lead[FrameOf(k)])
    BY <1>1, <1>3, <1>4 DEF FramesInOrder
  <2> QED BY <1>2, <1>3, <1>5, <2>1 DEF FramesInOrder
<1>12. FramesLead'
  BY <1>2, <1>3, <1>5 DEF FramesLead
<1>13. LedBack'
  <2> SUFFICES ASSUME NEW i \in 1..Len(stack)
               PROVE  \E k \in 1..TopRule : Belongs(stack[i], k) /\ Leads(stack[i], FrameOf(k))
    BY <1>2, <1>3, <1>5, <1>6 DEF LedBack
  <2> QED BY DEF LedBack
<1>14. LowIsLed'
  <2> SUFFICES ASSUME NEW k \in 1..TopRule
               PROVE  \E i \in 1..Len(stack) : lowlinks'[FrameOf(k)] = indices[stack[i]]
                                               /\ Leads(FrameOf(k), stack[i])
    BY <1>2, <1>3, <1>5 DEF LowIsLed
  <2>1. CASE lowlinks'[FrameOf(k)] = lowlinks[FrameOf(k)]
    BY <2>1 DEF LowIsLed
  <2>2. CASE lowlinks'[FrameOf(k)] # lowlinks[FrameOf(k)]
    <3>1. FrameOf(k) = Cur.name /\ OnStack(Target) /\ lowlinks'[Cur.name] = indices[Target]
      BY <2>2, Basics
    <3>2. PICK i \in 1..Len(stack) : stack[i] = Target
      BY <3>1 DEF OnStack
    <3>3. Leads(Cur.name, Target)
      BY <1>1, <1>4, ReachTarget DEF Leads
    <3> QED BY <3>1, <3>2, <3>3
  <2> QED BY <2>1, <2>2
<1>15. LowIsLeast'
  <2> SUFFICES ASSUME NEW i \in 1..Len(stack'), NEW k \in 1..TopRule', Belongs(stack[i], k)',
                      NEW e \in 1..Len(lead'[stack'[i]]), Followed(stack[i], e)',
                      OnStack(lead[stack[i]][e])'
               PROVE  lowlinks'[FrameOf(k)'] <= indices'[lead'[stack'[i]][e]]
    BY DEF LowIsLeast
  <2>0. /\ i \in 1..Len(stack) /\ k \in 1..TopRule /\ Belongs(stack[i], k)
        /\ e \in 1..Len(lead[stack[i]]) /\ OnStack(lead[stack[i]][e])
        /\ FrameOf(k)' = FrameOf(k) /\ indices' = indices /\ lead' = lead /\ stack' = stack
    BY <1>2, <1>3, <1>5, <1>6
  <2> DEFINE t == lead[stack[i]][e]
  <2>1. /\ FrameOf(k) \in Names /\ stack[i] \in Names /\ t \in Names
        /\ lowlinks[FrameOf(k)] \in Int /\ lowlinks'[FrameOf(k)] \in Int /\ indices[t] \in Int
        /\ lowlinks'[FrameOf(k)] <= lowlinks[FrameOf(k)]
    <3>1. FrameOf(k) \in Names /\ stack[i] \in Names
      BY <2>0, Basics
    <3>2. t \in Names
      BY <2>0, <3>1, LeadParts DEF ScanTypes
    <3>3. indices[t] \in Int
      BY <3>2, Basics
    <3> QED BY <1>low, <3>1, <3>2, <3>3
  <2>2. CASE Followed(stack[i], e)
    <3>1. lowlinks[FrameOf(k)] <= indices[t]
      BY <2>0, <2>2 DEF LowIsLeast
    <3> QED BY <2>0, <2>1, <3>1
  <2>3. CASE stack[i] = Cur.name /\ e = Cur.next + 1
    <3>1. t = Target
      BY <1>4, <2>3
    <3>2. indices[FrameOf(TopRule)] <= indices[stack[i]]
      BY <1>1, <2>1, <2>3, Basics
    <3>3. k = TopRule
      BY <1>1, <2>0, <2>1, <3>2, TopHolds
    <3> QED BY <1>1, <2>0, <3>1, <3>3
  <2> QED BY <1>7, <2>0, <2>1, <2>2, <2>3
<1>16. FollowedSeen'
  <2> SUFFICES ASSUME NEW i \in 1..Len(stack), NEW e \in 1..Len(lead[stack[i]]),
                      Followed(stack[i], e)'
               PROVE  Seen(lead[stack[i]][e])
    BY <1>5 DEF FollowedSeen
  <2>1. CASE Followed(stack[i], e)
    BY <2>1 DEF FollowedSeen
  <2>2. CASE stack[i] = Cur.name /\ e = Cur.next + 1
    BY <1>4, <2>2
  <2> QED BY <1>7, <2>1, <2>2, Basics
<1>17. ClosedDecided' /\ OnlyClosed' /\ RootsWaiting'
  BY <1>5 DEF ClosedDecided, OnlyClosed, RootsWaiting
<1> QED BY <1>8, <1>9, <1>10, <1>11, <1>12, <1>13, <1>14, <1>15, <1>16, <1>17

(* An edge into an open component lowers the frame's lowlink.              *)
LEMMA BackEdgeKeeps == ScanInv /\ BackEdge => ScanInv'
<1> SUFFICES ASSUME ScanInv, BackEdge PROVE ScanInv'
  OBVIOUS
<1>1. Cur.name \in Names /\ Target \in Names
  <2>1. TopRule \in Nat \ {0}
    BY EmptySeq DEF BackEdge, HasTarget, ScanInv, ScanTypes, TopRule
  <2>2. Cur.name \in Names /\ Cur.next \in Nat
    BY <2>1, Basics DEF Cur, TopRule, FrameOf, ScanInv
  <2> QED BY <2>2, LeadParts DEF BackEdge, HasTarget, Target, ScanInv, ScanTypes
<1>2. lowlinks[Cur.name] \in Int /\ indices[Target] \in Int
  BY <1>1, Basics DEF ScanInv
<1>3. lowlinks' = [lowlinks EXCEPT ![Cur.name] = Min({lowlinks[Cur.name], indices[Target]})]
  BY DEF BackEdge
<1>4. /\ lowlinks' \in [Names -> Int]
      /\ \A n \in Names \ {Cur.name} : lowlinks'[n] = lowlinks[n]
      /\ lowlinks'[Cur.name] = Min({lowlinks[Cur.name], indices[Target]})
  BY <1>1, <1>2, <1>3, LowerOfTwo DEF ScanInv, ScanTypes
<1>5. /\ lowlinks'[Cur.name] <= lowlinks[Cur.name]
      /\ lowlinks'[Cur.name] <= indices[Target]
      /\ lowlinks'[Cur.name] = lowlinks[Cur.name] \/ lowlinks'[Cur.name] = indices[Target]
  BY <1>2, <1>4, LowerOfTwo
<1>6. /\ HasTarget /\ Seen(Target) /\ OnStack(Target) /\ frames' = Advanced
      /\ UNCHANGED <<lead, roots, stack, index, indices, cyclic>>
  BY DEF BackEdge, Seen
<1> QED BY <1>4, <1>5, <1>6, EdgeKeeps

(* An edge into a closed component changes nothing.                        *)
LEMMA CrossEdgeKeeps == ScanInv /\ CrossEdge => ScanInv'
<1> SUFFICES ASSUME ScanInv, CrossEdge PROVE ScanInv'
  OBVIOUS
<1>1. Cur.name \in Names
  <2>1. TopRule \in Nat \ {0}
    BY EmptySeq DEF CrossEdge, HasTarget, ScanInv, ScanTypes, TopRule
  <2> QED BY <2>1, Basics DEF Cur, TopRule, FrameOf, ScanInv
<1>2. lowlinks[Cur.name] \in Int /\ lowlinks \in [Names -> Int]
  BY <1>1, Basics DEF ScanInv, ScanTypes
<1> QED BY <1>2, EdgeKeeps DEF CrossEdge, Seen

(* A root seen before is passed over.                                      *)
LEMMA SkipKeeps == ScanInv /\ SkipRoot => ScanInv'
<1> SUFFICES ASSUME ScanInv, SkipRoot PROVE ScanInv'
  OBVIOUS
<1> USE DEF ScanInv
<1>1. /\ \A n : OnStack(n)' <=> OnStack(n)
      /\ \A n : Seen(n)' <=> Seen(n)
      /\ \A n : Shut(n)' <=> Shut(n)
      /\ \A n, m : Leads(n, m)' <=> Leads(n, m)
      /\ TopRule' = TopRule /\ \A k : FrameOf(k)' = FrameOf(k)
  BY DEF SkipRoot, OnStack, Seen, Shut, Leads, TopRule, FrameOf
<1>2. /\ \A n, k : Belongs(n, k)' <=> Belongs(n, k)
      /\ \A n, e : Followed(n, e)' <=> Followed(n, e)
  BY <1>1 DEF SkipRoot, Belongs, Followed
<1>3. ScanTypes'
  BY HeadTailProperties DEF SkipRoot, ScanTypes
<1>4. RootsWaiting'
  <2> SUFFICES ASSUME NEW n \in Names, ~Seen(n)
               PROVE  \E i \in 1..Len(roots') : roots'[i] = n
    BY <1>1 DEF RootsWaiting
  <2>1. PICK i \in 1..Len(roots) : roots[i] = n
    BY DEF RootsWaiting
  <2>2. i # 1 /\ Len(roots) \in Nat
    BY <2>1, LenProperties DEF SkipRoot, Seen, ScanTypes
  <2>3. i - 1 \in 1..Len(roots') /\ roots'[i - 1] = roots[i]
    BY <2>2, HeadTailProperties DEF SkipRoot, ScanTypes
  <2> QED BY <2>1, <2>3
<1>5. Numbered' /\ StackInOrder' /\ FramesInOrder'
  BY <1>1 DEF SkipRoot, Numbered, StackInOrder, FramesInOrder
<1>6. FramesLead' /\ LedBack' /\ LowIsLed'
  BY <1>1, <1>2 DEF SkipRoot, FramesLead, LedBack, LowIsLed
<1>7. LowIsLeast' /\ FollowedSeen'
  BY <1>1, <1>2 DEF SkipRoot, LowIsLeast, FollowedSeen
<1>8. ClosedDecided' /\ OnlyClosed'
  BY <1>1 DEF SkipRoot, ClosedDecided, OnlyClosed
<1> QED BY <1>3, <1>4, <1>5, <1>6, <1>7, <1>8

(* A rule is opened: a root, or the target of the reference followed from  *)
(* the current frame, which has moved past it.                             *)
LEMMA OpenKeeps ==
    ASSUME ScanInv, NEW n \in Names, ~Seen(n),
           NEW below \in Seq(Frames), Len(below) = TopRule,
           \A k \in 1..TopRule : below[k].name = FrameOf(k),
           \A k \in 1..TopRule : below[k].next = IF k = TopRule THEN Cur.next + 1 ELSE frames[k].next,
           TopRule # 0 => /\ Cur.next + 1 \in 1..Len(lead[Cur.name])
                      /\ lead[Cur.name][Cur.next + 1] = n,
           OpenFrame(n, below),
           roots' \in Seq(Names),
           \A i \in 1..Len(roots) : roots[i] = n \/ \E k \in 1..Len(roots') : roots'[k] = roots[i]
    PROVE  ScanInv'
<1> USE DEF ScanInv
<1>0. PICK T \in Nat, L \in Nat : T = TopRule /\ L = Len(stack)
  BY Basics
<1> USE <1>0
<1>1. /\ T \in Nat /\ L \in Nat
      /\ T # 0 => /\ T \in 1..T /\ Cur = frames[T] /\ Cur.name = FrameOf(T)
                    /\ Cur.name \in Names /\ Cur.next \in Nat
  <2>1. T \in Nat /\ L \in Nat
    BY Basics
  <2>2. T # 0 => T \in 1..T
    BY <2>1
  <2>3. Cur = frames[T]
    BY DEF Cur, TopRule
  <2> QED BY <2>1, <2>2, <2>3, Basics DEF FrameOf
<1>2. /\ stack' \in Seq(Names) /\ Len(stack') = L + 1
      /\ \A i \in 1..L : stack'[i] = stack[i]
      /\ stack'[L + 1] = n
  BY AppendProperties DEF OpenFrame, ScanTypes
<1>3. /\ frames' \in Seq(Frames) /\ TopRule' = T + 1
      /\ \A k \in 1..T : FrameOf(k)' = FrameOf(k)
      /\ \A k \in 1..T : frames'[k].next = IF k = T THEN Cur.next + 1 ELSE frames[k].next
      /\ FrameOf(T + 1)' = n /\ frames'[T + 1].next = 0
  <2> DEFINE new == [name |-> n, next |-> 0]
  <2>1. new \in Frames /\ new.name = n /\ new.next = 0
    BY DEF Frames
  <2>2. frames' = Append(below, new) /\ TopRule' = Len(frames')
    BY DEF OpenFrame, TopRule
  <2> HIDE DEF new
  <2>3. /\ Append(below, new) \in Seq(Frames) /\ Len(Append(below, new)) = T + 1
        /\ \A k \in 1..T : Append(below, new)[k] = below[k]
        /\ Append(below, new)[T + 1] = new
    BY <2>1, AppendProperties
  <2> QED BY <2>1, <2>2, <2>3 DEF FrameOf
<1>4. /\ indices' \in [Names -> Int] /\ lowlinks' \in [Names -> Int]
      /\ indices'[n] = index /\ lowlinks'[n] = index
      /\ \A m \in Names : m # n => indices'[m] = indices[m] /\ lowlinks'[m] = lowlinks[m]
      /\ index \in Nat /\ index' = index + 1 /\ index # Unseen
      /\ lead' = lead /\ cyclic' = cyclic
  BY DEF OpenFrame, ScanTypes, Unseen
<1>5. /\ \A m \in Names : Seen(m)' <=> Seen(m) \/ m = n
      /\ \A m \in Names : OnStack(m)' <=> OnStack(m) \/ m = n
      /\ \A m, o : Leads(m, o)' <=> Leads(m, o)
  <2>1. \A m \in Names : Seen(m)' <=> Seen(m) \/ m = n
    BY <1>4 DEF Seen
  <2>2. ASSUME NEW m \in Names, OnStack(m) PROVE OnStack(m)'
    <3>1. PICK i \in 1..L : stack[i] = m
      BY <2>2 DEF OnStack
    <3>2. i \in 1..Len(stack') /\ stack'[i] = m
      BY <1>1, <1>2, <3>1
    <3> QED BY <3>2 DEF OnStack
  <2>3. OnStack(n)'
    <3>1. L + 1 \in 1..Len(stack')
      BY <1>1, <1>2
    <3> QED BY <1>2, <3>1 DEF OnStack
  <2>4. ASSUME NEW m \in Names, OnStack(m)' PROVE OnStack(m) \/ m = n
    <3>1. PICK i \in 1..Len(stack') : stack'[i] = m
      BY <2>4 DEF OnStack
    <3>2. i \in 1..L \/ i = L + 1
      BY <1>1, <1>2
    <3> QED BY <1>2, <3>1, <3>2 DEF OnStack
  <2> QED BY <1>4, <2>1, <2>2, <2>3, <2>4 DEF Leads
<1>6. /\ \A i \in 1..L : stack[i] \in Names /\ stack[i] # n
      /\ \A k \in 1..T : FrameOf(k) \in Names /\ FrameOf(k) # n
      /\ ~OnStack(n)
  <2>1. \A i \in 1..L : stack[i] \in Names /\ stack[i] # n
    BY Basics DEF StackInOrder
  <2> QED BY <2>1, Basics DEF OnStack, FramesInOrder
<1>7. \A m \in Names : Shut(m)' <=> Shut(m)
  BY <1>5, <1>6 DEF Shut
<1>8. \A m \in Names : Seen(m) => indices[m] \in Int /\ indices[m] < index /\ 0 <= indices[m]
  BY Basics DEF Numbered
<1>9. \A k \in 1..T : Seen(FrameOf(k)) /\ indices[FrameOf(k)] < index
  <2> SUFFICES ASSUME NEW k \in 1..T PROVE Seen(FrameOf(k))
    BY <1>6, <1>8
  <2>1. PICK i \in 1..L : stack[i] = FrameOf(k)
    BY DEF FramesInOrder, OnStack
  <2> QED BY <2>1 DEF StackInOrder
<1>10. \A i \in 1..L : Seen(stack[i]) /\ indices[stack[i]] < index /\ indices'[stack[i]] = indices[stack[i]]
  BY <1>4, <1>6, <1>8 DEF StackInOrder
<1>11. ASSUME NEW m \in Names, m # n, Seen(m), NEW k \in 1..T PROVE Belongs(m, k)' <=> Belongs(m, k)
  <2>1. indices'[m] = indices[m] /\ indices'[FrameOf(k)'] = indices[FrameOf(k)] /\ indices[m] < index
    BY <1>3, <1>4, <1>6, <1>8, <1>11
  <2>2. CASE k = T
    <3>1. FrameOf(k + 1)' = n
      BY <1>3, <2>2
    <3> QED BY <1>1, <1>3, <1>4, <2>1, <2>2, <3>1 DEF Belongs
  <2>3. CASE k < T
    <3>1. k + 1 \in 1..T
      BY <1>1, <2>3
    <3>2. FrameOf(k + 1)' = FrameOf(k + 1) /\ indices'[FrameOf(k + 1)] = indices[FrameOf(k + 1)]
      BY <1>3, <1>4, <1>6, <3>1
    <3> QED BY <1>1, <1>3, <2>1, <2>3, <3>2 DEF Belongs
  <2> QED BY <1>1, <2>2, <2>3
<1>12. /\ Belongs(n, T + 1)'
       /\ \A k \in 1..T : ~Belongs(n, k)'
       /\ \A m \in Names : m # n /\ Seen(m) => ~Belongs(m, T + 1)'
  <2>1. Belongs(n, T + 1)'
    BY <1>1, <1>3, <1>4 DEF Belongs
  <2>2. ASSUME NEW k \in 1..T PROVE ~Belongs(n, k)'
    <3>1. CASE k = T
      <4>1. FrameOf(k + 1)' = n
        BY <1>3, <3>1
      <4> QED BY <1>1, <1>3, <1>4, <3>1, <4>1 DEF Belongs
    <3>2. CASE k < T
      <4>1. k + 1 \in 1..T
        BY <1>1, <3>2
      <4>2. indices'[FrameOf(k + 1)'] = indices[FrameOf(k + 1)] /\ indices[FrameOf(k + 1)] < index
            /\ indices[FrameOf(k + 1)] \in Int
        BY <1>3, <1>4, <1>6, <1>8, <1>9, <4>1
      <4> QED BY <1>1, <1>3, <1>4, <3>2, <4>2 DEF Belongs
    <3> QED BY <1>1, <3>1, <3>2
  <2>3. ASSUME NEW m \in Names, m # n, Seen(m) PROVE ~Belongs(m, T + 1)'
    <3>1. indices'[m] = indices[m] /\ indices[m] < index /\ indices[m] \in Int
      BY <1>4, <1>8, <2>3
    <3> QED BY <1>3, <1>4, <3>1 DEF Belongs
  <2> QED BY <2>1, <2>2, <2>3
<1>13. ASSUME NEW m \in Names, m # n, NEW e, Followed(m, e)'
       PROVE  Followed(m, e) \/ (T # 0 /\ m = Cur.name /\ e = Cur.next + 1)
  <2>1. e \in 1..Len(lead[m]) /\ Len(lead[m]) \in Nat
    BY <1>4, <1>13, LeadParts DEF Followed, ScanTypes
  <2>2. ASSUME NEW k \in 1..T, FrameOf(k) = m, ~(e <= frames[k].next)
        PROVE  T # 0 /\ m = Cur.name /\ e = Cur.next + 1
    <3>1. e <= frames'[k].next
      <4>1. k \in 1..TopRule' /\ FrameOf(k)' = m
        BY <1>1, <1>3, <2>2
      <4> QED BY <1>13, <4>1 DEF Followed
    <3>2. k = T /\ T # 0
      BY <1>1, <1>3, <2>2, <3>1
    <3>3. e <= Cur.next + 1
      BY <1>1, <1>3, <3>1, <3>2
    <3>4. ~(e <= Cur.next)
      BY <1>1, <2>2, <3>2
    <3>5. e \in Nat /\ Cur.next \in Nat
      BY <1>1, <2>1, <3>2
    <3>6. e = Cur.next + 1
      BY <3>3, <3>4, <3>5
    <3> QED BY <1>1, <2>2, <3>2, <3>6
  <2> QED BY <2>1, <2>2 DEF Followed
<1>14. \A e : ~Followed(n, e)'
  <2> SUFFICES ASSUME NEW e, Followed(n, e)' PROVE FALSE
    OBVIOUS
  <2>1. e \in 1..Len(lead[n]) /\ Len(lead[n]) \in Nat
    BY <1>4, LeadParts DEF Followed, ScanTypes
  <2>2. T + 1 \in 1..TopRule'
    BY <1>1, <1>3
  <2>3. e <= 0
    BY <1>3, <2>2 DEF Followed
  <2> QED BY <2>1, <2>3
<1>15. ScanTypes'
  <2>1. index' \in Nat
    BY <1>4
  <2> QED BY <1>2, <1>3, <1>4, <2>1 DEF ScanTypes
<1>16. Numbered'
  <2> SUFFICES ASSUME NEW m \in Names, Seen(m)'
               PROVE  0 <= indices'[m] /\ indices'[m] < index' /\ lowlinks'[m] <= indices'[m]
    BY DEF Numbered
  <2>1. CASE m = n
    BY <1>4, <2>1
  <2>2. CASE m # n
    <3>1. Seen(m) /\ indices[m] \in Int /\ indices[m] < index /\ 0 <= indices[m] /\ lowlinks[m] <= indices[m]
      BY <1>5, <1>8, <2>2 DEF Numbered
    <3> QED BY <1>4, <2>2, <3>1
  <2> QED BY <2>1, <2>2
<1>17. StackInOrder'
  <2>1. ASSUME NEW i \in 1..(L + 1) PROVE Seen(stack[i])'
    <3>1. CASE i \in 1..L
      BY <1>2, <1>5, <1>6, <1>10, <3>1
    <3>2. CASE i = L + 1
      BY <1>2, <1>5, <3>2
    <3> QED BY <3>1, <3>2
  <2>2. ASSUME NEW i \in 1..(L + 1), NEW k \in 1..(L + 1), i < k
        PROVE  indices'[stack'[i]] < indices'[stack'[k]]
    <3>1. i \in 1..L /\ (k \in 1..L \/ k = L + 1)
      BY <2>2
    <3>2. CASE k \in 1..L
      BY <1>2, <1>10, <2>2, <3>1, <3>2 DEF StackInOrder
    <3>3. CASE k = L + 1
      <4>1. stack'[i] = stack[i] /\ stack'[k] = n
        BY <1>2, <3>1, <3>3
      <4> QED BY <1>4, <1>10, <3>1, <4>1
    <3> QED BY <3>1, <3>2, <3>3
  <2> QED BY <1>2, <2>1, <2>2 DEF StackInOrder
<1>18. \A k \in 1..(T + 1) : k \in 1..T \/ k = T + 1
  BY <1>1
<1>19. FramesInOrder'
  <2>1. ASSUME NEW k \in 1..(T + 1)
        PROVE  OnStack(FrameOf(k))' /\ frames'[k].next <= Len(lead'[FrameOf(k)'])
    <3>1. CASE k = T + 1
      <4>1. Len(lead[n]) \in Nat
        BY LeadParts DEF ScanTypes
      <4> QED BY <1>3, <1>4, <1>5, <3>1, <4>1
    <3>2. CASE k \in 1..T
      <4>1. OnStack(FrameOf(k)) /\ frames[k].next <= Len(lead[FrameOf(k)])
        BY <3>2 DEF FramesInOrder
      <4>2. OnStack(FrameOf(k))'
        BY <1>3, <1>5, <1>6, <3>2, <4>1
      <4>3. frames'[k].next <= Len(lead[FrameOf(k)])
        <5>1. CASE k = T
          <6>1. Len(lead[Cur.name]) \in Nat
            BY <1>1, <3>2, <5>1, LeadParts DEF ScanTypes
          <6> QED BY <1>1, <1>3, <3>2, <5>1, <6>1
        <5>2. CASE k # T
          BY <1>3, <3>2, <4>1, <5>2
        <5> QED BY <5>1, <5>2
      <4> QED BY <1>3, <1>4, <3>2, <4>2, <4>3
    <3> QED BY <1>18, <3>1, <3>2
  <2>2. ASSUME NEW j \in 1..(T + 1), NEW k \in 1..(T + 1), j < k
        PROVE  indices'[FrameOf(j)'] < indices'[FrameOf(k)']
    <3>1. j \in 1..T /\ (k \in 1..T \/ k = T + 1)
      BY <1>1, <2>2
    <3>2. indices'[FrameOf(j)'] = indices[FrameOf(j)] /\ indices[FrameOf(j)] < index
      BY <1>3, <1>4, <1>6, <1>9, <3>1
    <3>3. CASE k \in 1..T
      <4>1. indices'[FrameOf(k)'] = indices[FrameOf(k)]
        BY <1>3, <1>4, <1>6, <3>3
      <4>2. indices[FrameOf(j)] < indices[FrameOf(k)]
        BY <2>2, <3>1, <3>3 DEF FramesInOrder
      <4> QED BY <3>2, <4>1, <4>2
    <3>4. CASE k = T + 1
      BY <1>3, <1>4, <3>2, <3>4
    <3> QED BY <3>1, <3>3, <3>4
  <2> QED BY <1>3, <2>1, <2>2 DEF FramesInOrder
<1>20. FramesLead'
  <2> SUFFICES ASSUME NEW k \in 1..(T + 1), NEW i \in 1..(L + 1),
                      indices'[FrameOf(k)'] <= indices'[stack'[i]]
               PROVE  Leads(FrameOf(k)', stack'[i])
    BY <1>2, <1>3, <1>5 DEF FramesLead
  <2>1. (k \in 1..T \/ k = T + 1) /\ (i \in 1..L \/ i = L + 1)
    BY <1>1
  <2>2. CASE k \in 1..T /\ i \in 1..L
    <3>1. indices[FrameOf(k)] <= indices[stack[i]]
      BY <1>2, <1>3, <1>4, <1>6, <1>10, <2>2
    <3> QED BY <1>2, <1>3, <2>2, <3>1 DEF FramesLead
  <2>3. CASE k \in 1..T /\ i = L + 1
    <3>1. T # 0 /\ T \in 1..T /\ k <= T
      BY <1>1, <2>3
    <3>2. Leads(FrameOf(k), FrameOf(T))
      BY <2>3, <3>1, FramesLinked
    <3>3. Leads(FrameOf(T), n)
      <4>1. n \in LeadSet(lead, Cur.name)
        BY <1>1, <3>1 DEF LeadSet
      <4> QED BY <1>1, <3>1, <4>1, ReachTarget DEF Leads
    <3> QED BY <1>2, <1>3, <1>6, <2>3, <3>1, <3>2, <3>3, LeadsTrans
  <2>4. CASE k = T + 1 /\ i \in 1..L
    <3>1. index <= indices[stack[i]]
      BY <1>2, <1>3, <1>4, <1>10, <2>4
    <3> QED BY <1>4, <1>6, <1>8, <1>10, <2>4, <3>1
  <2>5. CASE k = T + 1 /\ i = L + 1
    BY <1>2, <1>3, <2>5 DEF Leads
  <2> QED BY <2>1, <2>2, <2>3, <2>4, <2>5
<1>21. LedBack'
  <2> SUFFICES ASSUME NEW i \in 1..(L + 1)
               PROVE  \E k \in 1..(T + 1) : Belongs(stack[i], k)' /\ Leads(stack'[i], FrameOf(k)')
    BY <1>2, <1>3, <1>5 DEF LedBack
  <2>1. i \in 1..L \/ i = L + 1
    BY <1>1
  <2>2. CASE i \in 1..L
    <3>1. PICK k \in 1..T : Belongs(stack[i], k) /\ Leads(stack[i], FrameOf(k))
      BY <2>2 DEF LedBack
    <3>2. Belongs(stack[i], k)'
      BY <1>2, <1>6, <1>10, <1>11, <2>2, <3>1
    <3>3. k \in 1..(T + 1)
      BY <1>1
    <3> QED BY <1>2, <1>3, <2>2, <3>1, <3>2, <3>3
  <2>3. CASE i = L + 1
    <3>1. T + 1 \in 1..(T + 1)
      BY <1>1
    <3>2. Belongs(stack[i], T + 1)'
      BY <1>2, <1>12, <2>3
    <3> QED BY <1>2, <1>3, <2>3, <3>1, <3>2 DEF Leads
  <2> QED BY <2>1, <2>2, <2>3
<1>22. LowIsLed'
  <2> SUFFICES ASSUME NEW k \in 1..(T + 1)
               PROVE  \E i \in 1..(L + 1) : /\ lowlinks'[FrameOf(k)'] = indices'[stack'[i]]
                                            /\ Leads(FrameOf(k)', stack'[i])
    BY <1>2, <1>3, <1>5 DEF LowIsLed
  <2>1. CASE k \in 1..T
    <3>1. PICK i \in 1..L : lowlinks[FrameOf(k)] = indices[stack[i]] /\ Leads(FrameOf(k), stack[i])
      BY <2>1 DEF LowIsLed
    <3>2. i \in 1..(L + 1)
      BY <1>1
    <3>3. FrameOf(k)' = FrameOf(k) /\ lowlinks'[FrameOf(k)] = lowlinks[FrameOf(k)]
      BY <1>3, <1>4, <1>6, <2>1
    <3>4. stack'[i] = stack[i] /\ indices'[stack[i]] = indices[stack[i]]
      BY <1>2, <1>10
    <3> QED BY <3>1, <3>2, <3>3, <3>4
  <2>2. CASE k = T + 1
    <3>1. L + 1 \in 1..(L + 1)
      BY <1>1
    <3>2. FrameOf(k)' = n /\ stack'[L + 1] = n
      BY <1>2, <1>3, <2>2
    <3> QED BY <1>4, <3>1, <3>2 DEF Leads
  <2> QED BY <1>18, <2>1, <2>2
<1>23. LowIsLeast'
  <2> SUFFICES ASSUME NEW i \in 1..Len(stack'), NEW k \in 1..TopRule', Belongs(stack[i], k)',
                      NEW e \in 1..Len(lead'[stack'[i]]), Followed(stack[i], e)',
                      OnStack(lead[stack[i]][e])'
               PROVE  lowlinks'[FrameOf(k)'] <= indices'[lead'[stack'[i]][e]]
    BY DEF LowIsLeast
  <2>1. i \in 1..L /\ stack'[i] = stack[i]
    <3>1. i \in 1..L \/ i = L + 1
      BY <1>1, <1>2
    <3> QED BY <1>2, <1>14, <3>1
  <2>2. k \in 1..T /\ Belongs(stack[i], k)
    <3>1. k # T + 1
      BY <1>6, <1>10, <1>12, <2>1
    <3>2. k \in 1..T
      BY <1>3, <1>18, <3>1
    <3> QED BY <1>6, <1>10, <1>11, <2>1, <3>2
  <2>0. PICK t : t = lead[stack[i]][e]
    OBVIOUS
  <2>3. t \in Names /\ e \in 1..Len(lead[stack[i]])
    BY <1>4, <1>6, <2>0, <2>1, LeadParts DEF ScanTypes
  <2>4. OnStack(t)'
    <3>1. (lead[stack[i]][e])' = t
      BY <1>4, <2>0, <2>1
    <3> QED BY <3>1 DEF OnStack
  <2>5. lowlinks'[FrameOf(k)'] = lowlinks[FrameOf(k)] /\ lowlinks[FrameOf(k)] \in Int
    BY <1>3, <1>4, <1>6, <2>2, Basics
  <2>6. CASE t = n
    <3>1. lowlinks[FrameOf(k)] <= indices[FrameOf(k)] /\ indices[FrameOf(k)] < index
      BY <1>6, <1>9, <2>2 DEF Numbered
    <3>2. indices[FrameOf(k)] \in Int
      BY <1>6, <2>2, Basics
    <3>3. lowlinks[FrameOf(k)] <= index
      BY <1>4, <2>5, <3>1, <3>2
    <3> QED BY <1>4, <2>0, <2>1, <2>5, <2>6, <3>3
  <2>7. CASE t # n
    <3>1. Followed(stack[i], e)
      <4>1. ~(T # 0 /\ stack[i] = Cur.name /\ e = Cur.next + 1)
        BY <2>0, <2>7
      <4> QED BY <1>6, <1>13, <2>1, <4>1
    <3>2. OnStack(t)
      BY <1>5, <2>3, <2>4, <2>7
    <3>3. lowlinks[FrameOf(k)] <= indices[t]
      BY <2>0, <2>1, <2>2, <2>3, <3>1, <3>2 DEF LowIsLeast
    <3> QED BY <1>4, <2>0, <2>1, <2>3, <2>5, <2>7, <3>3
  <2> QED BY <2>6, <2>7
<1>24. FollowedSeen'
  <2> SUFFICES ASSUME NEW i \in 1..Len(stack'), NEW e \in 1..Len(lead'[stack'[i]]),
                      Followed(stack[i], e)'
               PROVE  Seen(lead[stack[i]][e])'
    BY DEF FollowedSeen
  <2>1. i \in 1..L /\ stack'[i] = stack[i]
    <3>1. i \in 1..L \/ i = L + 1
      BY <1>1, <1>2
    <3> QED BY <1>2, <1>14, <3>1
  <2>2. lead[stack[i]][e] \in Names /\ e \in 1..Len(lead[stack[i]])
    BY <1>4, <1>6, <2>1, LeadParts DEF ScanTypes
  <2>3. Seen(lead[stack[i]][e]) \/ lead[stack[i]][e] = n
    <3>1. CASE Followed(stack[i], e)
      BY <2>1, <2>2, <3>1 DEF FollowedSeen
    <3>2. CASE T # 0 /\ stack[i] = Cur.name /\ e = Cur.next + 1
      BY <3>2
    <3> QED BY <1>6, <1>13, <2>1, <3>1, <3>2
  <2> QED BY <1>4, <1>5, <2>1, <2>2, <2>3
<1>25. ClosedDecided'
  <2> SUFFICES ASSUME NEW m \in Names, Shut(m)'
               PROVE  /\ \A o \in LeadSet(lead, m) : Shut(o)'
                      /\ m \in cyclic <=> CanReach(lead, m, m)
    BY <1>4 DEF ClosedDecided
  <2>1. Shut(m)
    BY <1>7
  <2>2. \A o \in LeadSet(lead, m) : o \in Names
    BY LeadParts DEF ScanTypes
  <2> QED BY <1>7, <2>1, <2>2 DEF ClosedDecided
<1>26. OnlyClosed' /\ RootsWaiting'
  <2>1. OnlyClosed'
    BY <1>4, <1>7 DEF OnlyClosed, ScanTypes
  <2>2. RootsWaiting'
    BY <1>5 DEF RootsWaiting
  <2> QED BY <2>1, <2>2
<1> QED BY <1>15, <1>16, <1>17, <1>19, <1>20, <1>21, <1>22, <1>23, <1>24, <1>25, <1>26

(* A root is opened: no frame is below it.                                 *)
LEMMA OpenRootKeeps == ScanInv /\ OpenRoot => ScanInv'
<1> SUFFICES ASSUME ScanInv, OpenRoot PROVE ScanInv'
  OBVIOUS
<1>1. PICK n, below : n = Head(roots) /\ below = <<>>
  OBVIOUS
<1>2. roots \in Seq(Names) /\ roots # <<>>
  BY DEF ScanInv, ScanTypes, OpenRoot
<1>3. n \in Names /\ Tail(roots) \in Seq(Names)
  BY <1>1, <1>2, HeadTailProperties
<1>4. ~Seen(n) /\ OpenFrame(n, below) /\ roots' = Tail(roots)
  BY <1>1 DEF OpenRoot, Seen
<1>5. TopRule = 0 /\ below \in Seq(Frames) /\ Len(below) = 0
  BY <1>1 DEF OpenRoot, TopRule
<1>6. ASSUME NEW i \in 1..Len(roots)
      PROVE  roots[i] = n \/ \E k \in 1..Len(roots') : roots'[k] = roots[i]
  <2>1. Len(roots) \in Nat /\ Len(roots') = Len(roots) - 1
    BY <1>2, <1>4, HeadTailProperties, LenProperties
  <2>2. CASE i = 1
    BY <1>1, <1>2, <2>2
  <2>3. CASE i # 1
    <3>1. i - 1 \in 1..Len(roots')
      BY <2>1, <2>3
    <3>2. roots'[i - 1] = roots[i]
      BY <1>2, <1>4, <3>1, HeadTailProperties
    <3> QED BY <3>1, <3>2
  <2> QED BY <2>2, <2>3
<1>7. roots' \in Seq(Names)
  BY <1>3, <1>4
<1>8. \A k \in 1..TopRule : FALSE
  BY <1>5
<1> QED BY <1>3, <1>4, <1>5, <1>6, <1>7, <1>8, OpenKeeps

(* A rule is opened from the frame whose reference leads to it.            *)
LEMMA DescendKeeps == ScanInv /\ Descend => ScanInv'
<1> SUFFICES ASSUME ScanInv, Descend PROVE ScanInv'
  OBVIOUS
<1>1. PICK n, below : n = Target /\ below = Advanced
  OBVIOUS
<1>2. /\ TopRule \in Nat \ {0} /\ TopRule \in 1..TopRule /\ Cur = frames[TopRule] /\ Cur \in Frames
      /\ Cur.name \in Names /\ Cur.next \in Nat /\ frames \in Seq(Frames)
  <2>1. TopRule \in Nat \ {0} /\ frames \in Seq(Frames)
    BY EmptySeq DEF Descend, HasTarget, ScanInv, ScanTypes, TopRule
  <2> QED BY <2>1, Basics DEF Cur, TopRule, FrameOf, ScanInv
<1>3. /\ below \in Seq(Frames) /\ Len(below) = TopRule
      /\ \A k \in 1..TopRule : below[k] = IF k = TopRule THEN [Cur EXCEPT !.next = @ + 1] ELSE frames[k]
  <2> DEFINE new == [Cur EXCEPT !.next = @ + 1]
  <2>1. new \in Frames
    BY <1>2 DEF Frames
  <2>2. below = [frames EXCEPT ![TopRule] = new]
    BY <1>1, <1>2 DEF Advanced, TopRule
  <2> HIDE DEF new
  <2>3. /\ [frames EXCEPT ![TopRule] = new] \in Seq(Frames)
        /\ Len([frames EXCEPT ![TopRule] = new]) = TopRule
        /\ \A k \in 1..TopRule : [frames EXCEPT ![TopRule] = new][k] = IF k = TopRule THEN new ELSE frames[k]
    BY <1>2, <2>1, ExceptSeq DEF TopRule
  <2> QED BY <2>2, <2>3 DEF new
<1>4. \A k \in 1..TopRule : /\ below[k].name = FrameOf(k)
                        /\ below[k].next = IF k = TopRule THEN Cur.next + 1 ELSE frames[k].next
  BY <1>2, <1>3 DEF FrameOf, Frames
<1>5. /\ Cur.next + 1 \in 1..Len(lead[Cur.name]) /\ lead[Cur.name][Cur.next + 1] = n
      /\ n \in Names
  <2>1. Len(lead[Cur.name]) \in Nat /\ \A e \in 1..Len(lead[Cur.name]) : lead[Cur.name][e] \in Names
    BY <1>2, LeadParts DEF ScanInv, ScanTypes
  <2>2. Cur.next + 1 \in 1..Len(lead[Cur.name])
    BY <1>2, <2>1 DEF Descend, HasTarget
  <2> QED BY <1>1, <2>1, <2>2 DEF Target
<1>6. ~Seen(n) /\ OpenFrame(n, below) /\ roots' = roots
  BY <1>1 DEF Descend, Seen
<1>7. roots' \in Seq(Names) /\ \A i \in 1..Len(roots) : \E k \in 1..Len(roots') : roots'[k] = roots[i]
  BY <1>6 DEF ScanInv, ScanTypes
<1> QED BY <1>3, <1>4, <1>5, <1>6, <1>7, OpenKeeps

-----------------------------------------------------------------------------
(* The scan begins with nothing seen.                                      *)
LEMMA InitInv == ScanInit => ScanInv
<1> SUFFICES ASSUME ScanInit PROVE ScanInv
  OBVIOUS
<1>1. /\ lead \in LeadGraphs /\ roots \in Seq(Names)
      /\ \A n \in Names : \E i \in 1..Len(roots) : roots[i] = n
      /\ frames = <<>> /\ stack = <<>> /\ index = 0 /\ cyclic = {}
      /\ indices = [n \in Names |-> Unseen] /\ lowlinks = [n \in Names |-> Unseen]
  BY DEF ScanInit, StartScan
<1>2. TopRule = 0 /\ Len(stack) = 0 /\ \A k \in 1..0 : FALSE
  BY <1>1 DEF TopRule
<1>3. \A n \in Names : ~Seen(n)
  BY <1>1 DEF Seen
<1>4. ScanTypes
  BY <1>1 DEF ScanTypes, Unseen
<1>5. Numbered /\ StackInOrder /\ FramesInOrder /\ FramesLead
  BY <1>2, <1>3 DEF Numbered, StackInOrder, FramesInOrder, FramesLead
<1>6. LedBack /\ LowIsLed /\ LowIsLeast /\ FollowedSeen
  BY <1>2 DEF LedBack, LowIsLed, LowIsLeast, FollowedSeen
<1>7. ClosedDecided /\ OnlyClosed /\ RootsWaiting
  BY <1>1, <1>3 DEF ClosedDecided, OnlyClosed, RootsWaiting, Shut
<1> QED BY <1>4, <1>5, <1>6, <1>7 DEF ScanInv

-----------------------------------------------------------------------------
(* The frame popped.                                                       *)

(* What an exhausted frame leaves: the frames below it as they were, and   *)
(* no reference counted as followed that was not.                          *)
LEMMA Popped ==
    ASSUME ScanTypes, Exhausted, frames' = Callers, lead' = lead, NEW T, T = TopRule
    PROVE  /\ T \in Nat \ {0} /\ T \in 1..T
           /\ Cur.name = FrameOf(T) /\ Cur.name \in Names
           /\ frames' \in Seq(Frames) /\ TopRule' = T - 1
           /\ \A k \in 1..(T - 1) : /\ k \in 1..T /\ frames'[k] = frames[k]
                                    /\ FrameOf(k)' = FrameOf(k)
           /\ \A n \in Names : \A e : Followed(n, e)' => Followed(n, e)
<1>1. T \in Nat \ {0} /\ T \in 1..T /\ frames \in Seq(Frames)
  BY EmptySeq DEF Exhausted, ScanTypes, TopRule
<1>2. Cur = frames[T] /\ Cur.name = FrameOf(T) /\ Cur.name \in Names
  BY <1>1, Basics DEF Cur, TopRule, FrameOf
<1>3. /\ frames' \in Seq(Frames) /\ Len(frames') = T - 1
      /\ \A k \in 1..(T - 1) : frames'[k] = frames[k]
  <2>1. frames' = SubSeq(frames, 1, T - 1)
    BY DEF Callers, TopRule
  <2>2. \A k \in 1..(T - 1) : frames[k] \in Frames
    BY <1>1, Basics
  <2>3. /\ SubSeq(frames, 1, T - 1) \in Seq(Frames)
        /\ Len(SubSeq(frames, 1, T - 1)) = IF 1 <= T - 1 THEN T - 1 - 1 + 1 ELSE 0
        /\ \A k \in 1..(T - 1 - 1 + 1) : SubSeq(frames, 1, T - 1)[k] = frames[1 + k - 1]
    BY <1>1, <2>2, SubSeqProperties
  <2>4. \A k \in 1..(T - 1) : SubSeq(frames, 1, T - 1)[k] = frames[k]
    BY <1>1, <2>3
  <2> QED BY <1>1, <2>1, <2>3, <2>4
<1>4. \A k \in 1..(T - 1) : k \in 1..T /\ FrameOf(k)' = FrameOf(k)
  BY <1>1, <1>3 DEF FrameOf
<1>5. TopRule' = T - 1
  BY <1>3 DEF TopRule
<1>6. ASSUME NEW n \in Names, NEW e, Followed(n, e)' PROVE Followed(n, e)
  <2>1. e \in 1..Len(lead[n]) /\ Len(lead[n]) \in Nat
    BY <1>6, LeadParts DEF Followed, ScanTypes
  <2>2. ASSUME NEW k \in 1..T, FrameOf(k) = n PROVE e <= frames[k].next
    <3>1. CASE k = T
      <4>1. frames[T].next = Len(lead[n])
        BY <1>2, <2>2, <3>1 DEF Exhausted
      <4> QED BY <2>1, <3>1, <4>1
    <3>2. CASE k # T
      <4>1. k \in 1..(T - 1)
        BY <1>1, <3>2
      <4>2. k \in 1..TopRule' /\ FrameOf(k)' = n
        BY <1>4, <1>5, <2>2, <4>1
      <4>3. e <= frames'[k].next
        BY <1>6, <4>2 DEF Followed
      <4> QED BY <1>3, <4>1, <4>3
    <3> QED BY <3>1, <3>2
  <2> QED BY <2>1, <2>2 DEF Followed
<1> QED BY <1>1, <1>2, <1>3, <1>4, <1>5, <1>6

(* A rule whose lowlink is lower returns to the frame it was opened from.  *)
LEMMA ReturnKeeps == ScanInv /\ Return => ScanInv'
<1> SUFFICES ASSUME ScanInv, Return PROVE ScanInv'
  OBVIOUS
<1> USE DEF ScanInv
<1>1. PICK T, c : T = TopRule /\ c = Cur.name
  OBVIOUS
<1>2. /\ T \in Nat \ {0} /\ T \in 1..T /\ c = FrameOf(T) /\ c \in Names
      /\ frames' \in Seq(Frames) /\ TopRule' = T - 1
      /\ \A k \in 1..(T - 1) : /\ k \in 1..T /\ frames'[k] = frames[k]
                               /\ FrameOf(k)' = FrameOf(k)
      /\ \A n \in Names : \A e : Followed(n, e)' => Followed(n, e)
  BY <1>1, Popped DEF Return, PopFrame
<1>3. /\ lead' = lead /\ roots' = roots /\ stack' = stack /\ index' = index
      /\ indices' = indices /\ cyclic' = cyclic
  BY DEF Return, PopFrame
<1>4. /\ \A n : OnStack(n)' <=> OnStack(n)
      /\ \A n : Seen(n)' <=> Seen(n)
      /\ \A n : Shut(n)' <=> Shut(n)
      /\ \A n, m : Leads(n, m)' <=> Leads(n, m)
  BY <1>3 DEF OnStack, Seen, Shut, Leads
<1>5. /\ \A k \in 1..T : FrameOf(k) \in Names /\ Seen(FrameOf(k))
      /\ \A i \in 1..Len(stack) : stack[i] \in Names
      /\ \A n \in Names : indices[n] \in Int /\ lowlinks[n] \in Int
  <2>1. \A k \in 1..T : Seen(FrameOf(k))
    BY <1>1 DEF FramesInOrder, OnStack, StackInOrder
  <2> QED BY <1>1, <2>1, Basics
<1>6. lowlinks[c] < indices[c]
  <2>1. lowlinks[c] <= indices[c] /\ lowlinks[c] # indices[c]
    BY <1>1, <1>2, <1>5 DEF Numbered, Return
  <2> QED BY <1>2, <1>5, <2>1
<1>7. PICK w \in 1..Len(stack) : lowlinks[c] = indices[stack[w]] /\ Leads(c, stack[w])
  BY <1>1, <1>2 DEF LowIsLed
<1>8. PICK low \in 1..T : Belongs(stack[w], low) /\ Leads(stack[w], FrameOf(low))
  BY <1>1 DEF LedBack
<1>9. low < T
  <2>1. TopRule # 0 /\ indices[stack[w]] < indices[FrameOf(TopRule)] /\ low \in 1..TopRule
    BY <1>1, <1>2, <1>6, <1>7
  <2> QED BY <1>1, <1>5, <1>8, <2>1, BelowTop
<1>10. PICK p : p = FrameOf(T - 1)
  OBVIOUS
<1>11. T - 1 \in 1..T /\ T - 1 \in 1..(T - 1) /\ low <= T - 1 /\ p \in Names /\ p # c
       /\ indices[p] < indices[c]
  <2>1. T - 1 \in 1..T /\ T - 1 \in 1..(T - 1) /\ low <= T - 1
    BY <1>2, <1>9
  <2>2. indices[p] < indices[c]
    BY <1>1, <1>2, <1>10, <2>1 DEF FramesInOrder
  <2> QED BY <1>2, <1>5, <1>10, <2>1, <2>2
<1>12. Leads(c, p) /\ Leads(p, c)
  <2>1. Leads(FrameOf(low), p)
    BY <1>1, <1>10, <1>11, FramesLinked
  <2>2. Leads(c, FrameOf(low))
    BY <1>5, <1>7, <1>8, LeadsTrans
  <2>3. Leads(p, c)
    BY <1>1, <1>2, <1>10, <1>11, FramesLinked
  <2> QED BY <1>5, <2>1, <2>2, <2>3, LeadsTrans
<1>13. /\ lowlinks' \in [Names -> Int]
       /\ \A n \in Names : n # p => lowlinks'[n] = lowlinks[n]
       /\ lowlinks'[p] = lowlinks[p] \/ lowlinks'[p] = lowlinks[c]
       /\ lowlinks'[p] <= lowlinks[c]
       /\ \A n \in Names : lowlinks'[n] <= lowlinks[n] /\ lowlinks'[n] \in Int
  <2>1. Callers # <<>> /\ Callers[Len(Callers)].name = p
    <3>1. Callers = frames' /\ Len(frames') = T - 1
      BY <1>2 DEF Return, PopFrame, TopRule
    <3>2. frames'[T - 1].name = p
      BY <1>2, <1>10, <1>11 DEF FrameOf
    <3>3. frames' # <<>>
      BY <1>2, <1>11, <3>1
    <3> QED BY <3>1, <3>2, <3>3
  <2>2. lowlinks' = [lowlinks EXCEPT ![p] = Min({lowlinks[p], lowlinks[c]})]
    BY <1>1, <2>1 DEF Return, PopFrame
  <2>3. lowlinks \in [Names -> Int]
    BY DEF ScanTypes
  <2>4. /\ Min({lowlinks[p], lowlinks[c]}) \in {lowlinks[p], lowlinks[c]}
        /\ Min({lowlinks[p], lowlinks[c]}) <= lowlinks[p]
        /\ Min({lowlinks[p], lowlinks[c]}) <= lowlinks[c]
        /\ Min({lowlinks[p], lowlinks[c]}) \in Int
    BY <1>2, <1>5, <1>11, LowerOfTwo
  <2>5. lowlinks'[p] = Min({lowlinks[p], lowlinks[c]})
    BY <1>11, <2>2, <2>3
  <2>6. \A n \in Names : n # p => lowlinks'[n] = lowlinks[n]
    BY <2>2, <2>3
  <2>7. lowlinks' \in [Names -> Int]
    BY <2>2, <2>3, <2>4
  <2>8. \A n \in Names : lowlinks'[n] <= lowlinks[n] /\ lowlinks'[n] \in Int
    <3> SUFFICES ASSUME NEW n \in Names PROVE lowlinks'[n] <= lowlinks[n] /\ lowlinks'[n] \in Int
      OBVIOUS
    <3>1. CASE n = p
      BY <2>4, <2>5, <3>1
    <3>2. CASE n # p
      <4>1. lowlinks'[n] = lowlinks[n] /\ lowlinks[n] \in Int
        BY <1>5, <2>6, <3>2
      <4> QED BY <4>1
    <3> QED BY <3>1, <3>2
  <2> QED BY <2>4, <2>5, <2>6, <2>7, <2>8
<1>14. ASSUME NEW n \in Names, NEW k \in 1..(T - 1)
       PROVE  /\ Belongs(n, k) => Belongs(n, k)'
              /\ Belongs(n, T) => Belongs(n, T - 1)'
              /\ Belongs(n, k)' => Belongs(n, k) \/ (k = T - 1 /\ Belongs(n, T))
  <2>1. k \in Nat /\ (k = T - 1 \/ k < T - 1)
    BY <1>2
  <2>2. Belongs(n, T) => Belongs(n, T - 1)'
    <3>1. Belongs(n, T) => indices[c] <= indices[n]
      BY <1>1, <1>2 DEF Belongs
    <3>2. Belongs(n, T - 1)' <=> indices[p] <= indices[n]
      BY <1>2, <1>3, <1>10, <1>11 DEF Belongs
    <3>3. indices[p] \in Int /\ indices[c] \in Int /\ indices[n] \in Int
      BY <1>2, <1>5, <1>11
    <3> QED BY <1>11, <3>1, <3>2, <3>3
  <2>3. CASE k < T - 1
    <3>1. k < T /\ k + 1 \in 1..(T - 1)
      BY <1>2, <2>1, <2>3
    <3>2. FrameOf(k + 1)' = FrameOf(k + 1)
      BY <1>2, <3>1
    <3>3. Belongs(n, k)' <=> Belongs(n, k)
      BY <1>1, <1>2, <1>3, <2>3, <3>1, <3>2 DEF Belongs
    <3> QED BY <2>2, <3>3
  <2>4. CASE k = T - 1
    <3>1. Belongs(n, k)' <=> indices[p] <= indices[n]
      BY <1>2, <1>3, <1>10, <2>4 DEF Belongs
    <3>2. Belongs(n, k) <=> indices[p] <= indices[n] /\ indices[n] < indices[c]
      <4>1. k < T /\ k + 1 = T
        BY <1>2, <2>4
      <4> QED BY <1>1, <1>2, <1>10, <2>4, <4>1 DEF Belongs
    <3>3. Belongs(n, T) <=> indices[c] <= indices[n]
      BY <1>1, <1>2 DEF Belongs
    <3>4. indices[p] \in Int /\ indices[c] \in Int /\ indices[n] \in Int
      BY <1>2, <1>5, <1>11
    <3> QED BY <1>11, <2>2, <2>4, <3>1, <3>2, <3>3, <3>4
  <2> QED BY <2>1, <2>2, <2>3, <2>4
<1>15. ScanTypes'
  BY <1>2, <1>3, <1>13 DEF ScanTypes
<1>16. Numbered'
  <2> SUFFICES ASSUME NEW n \in Names, Seen(n)
               PROVE  0 <= indices[n] /\ indices[n] < index /\ lowlinks'[n] <= indices[n]
    BY <1>3, <1>4 DEF Numbered
  <2>1. 0 <= indices[n] /\ indices[n] < index /\ lowlinks[n] <= indices[n]
    BY DEF Numbered
  <2>2. lowlinks'[n] <= lowlinks[n] /\ lowlinks'[n] \in Int /\ lowlinks[n] \in Int /\ indices[n] \in Int
    BY <1>5, <1>13
  <2> QED BY <2>1, <2>2
<1>17. StackInOrder'
  BY <1>3, <1>4 DEF StackInOrder
<1>18. FramesInOrder'
  BY <1>1, <1>2, <1>3, <1>4 DEF FramesInOrder
<1>19. FramesLead'
  BY <1>1, <1>2, <1>3, <1>4 DEF FramesLead
<1>20. LedBack'
  <2> SUFFICES ASSUME NEW i \in 1..Len(stack)
               PROVE  \E k \in 1..(T - 1) : Belongs(stack[i], k)' /\ Leads(stack[i], FrameOf(k))
    BY <1>2, <1>3, <1>4 DEF LedBack
  <2>1. PICK n \in Names : n = stack[i]
    BY <1>5
  <2>2. PICK k \in 1..T : Belongs(n, k) /\ Leads(n, FrameOf(k))
    BY <1>1, <2>1 DEF LedBack
  <2>3. \E j \in 1..(T - 1) : Belongs(n, j)' /\ Leads(n, FrameOf(j))
    <3>1. CASE k = T
      <4>1. Leads(n, p)
        BY <1>2, <1>12, <2>2, <3>1, LeadsTrans
      <4> QED BY <1>10, <1>11, <1>14, <2>2, <3>1, <4>1
    <3>2. CASE k # T
      <4>1. k \in 1..(T - 1)
        BY <1>2, <3>2
      <4> QED BY <1>14, <2>2, <4>1
    <3> QED BY <3>1, <3>2
  <2> QED BY <1>3, <2>1, <2>3 DEF Belongs
<1>21. LowIsLed'
  <2> SUFFICES ASSUME NEW k \in 1..(T - 1)
               PROVE  \E i \in 1..Len(stack) : lowlinks'[FrameOf(k)] = indices[stack[i]]
                                               /\ Leads(FrameOf(k), stack[i])
    BY <1>2, <1>3, <1>4 DEF LowIsLed
  <2>1. k \in 1..T /\ FrameOf(k) \in Names
    BY <1>2, <1>5
  <2>2. CASE lowlinks'[FrameOf(k)] = lowlinks[FrameOf(k)]
    BY <1>1, <2>1, <2>2 DEF LowIsLed
  <2>3. CASE lowlinks'[FrameOf(k)] # lowlinks[FrameOf(k)]
    <3>1. FrameOf(k) = p /\ lowlinks'[p] = lowlinks[c]
      BY <1>13, <2>1, <2>3
    <3>2. Leads(p, stack[w])
      BY <1>2, <1>7, <1>12, LeadsTrans
    <3> QED BY <1>7, <3>1, <3>2
  <2> QED BY <2>2, <2>3
<1>22. LowIsLeast'
  <2> SUFFICES ASSUME NEW i \in 1..Len(stack'), NEW k \in 1..TopRule', Belongs(stack[i], k)',
                      NEW e \in 1..Len(lead'[stack'[i]]), Followed(stack[i], e)',
                      OnStack(lead[stack[i]][e])'
               PROVE  lowlinks'[FrameOf(k)'] <= indices'[lead'[stack'[i]][e]]
    BY DEF LowIsLeast
  <2>1. PICK n \in Names : n = stack[i]
    BY <1>3, <1>5
  <2>2. /\ i \in 1..Len(stack) /\ k \in 1..(T - 1) /\ e \in 1..Len(lead[n]) /\ OnStack(lead[n][e])
        /\ FrameOf(k)' = FrameOf(k)
    BY <1>2, <1>3, <1>4, <2>1
  <2>3. Belongs(n, k)' /\ Followed(n, e)'
    BY <1>3, <2>1 DEF Belongs, Followed
  <2>4. Followed(n, e) /\ (Belongs(n, k) \/ (k = T - 1 /\ Belongs(n, T)))
    BY <1>2, <1>14, <2>2, <2>3
  <2>5. PICK t : t = lead[n][e]
    OBVIOUS
  <2>6. /\ t \in Names /\ indices[t] \in Int /\ FrameOf(k) \in Names /\ k \in 1..T
        /\ lowlinks[FrameOf(k)] \in Int /\ lowlinks'[FrameOf(k)] \in Int
        /\ lowlinks'[FrameOf(k)] <= lowlinks[FrameOf(k)]
    <3>1. t \in Names
      BY <2>2, <2>5, LeadParts DEF ScanTypes
    <3>2. k \in 1..T /\ FrameOf(k) \in Names
      BY <1>2, <1>5, <2>2
    <3> QED BY <1>5, <1>13, <3>1, <3>2
  <2>7. CASE Belongs(n, k)
    <3>1. lowlinks[FrameOf(k)] <= indices[t]
      BY <1>1, <2>1, <2>2, <2>4, <2>5, <2>6, <2>7 DEF LowIsLeast
    <3>2. lowlinks'[FrameOf(k)] <= indices[t]
      BY <2>6, <3>1
    <3> QED BY <1>3, <2>1, <2>2, <2>5, <3>2
  <2>8. CASE k = T - 1 /\ Belongs(n, T)
    <3>1. lowlinks[c] <= indices[t]
      BY <1>1, <1>2, <2>1, <2>2, <2>4, <2>5, <2>8 DEF LowIsLeast
    <3>2. FrameOf(k) = p /\ lowlinks'[p] <= lowlinks[c] /\ lowlinks[c] \in Int
      BY <1>2, <1>5, <1>10, <1>13, <2>8
    <3>3. lowlinks'[FrameOf(k)] <= indices[t]
      BY <2>6, <3>1, <3>2
    <3> QED BY <1>3, <2>1, <2>2, <2>5, <3>3
  <2> QED BY <2>4, <2>7, <2>8
<1>23. FollowedSeen'
  <2> SUFFICES ASSUME NEW i \in 1..Len(stack), NEW e \in 1..Len(lead[stack[i]]),
                      Followed(stack[i], e)'
               PROVE  Seen(lead[stack[i]][e])
    BY <1>3, <1>4 DEF FollowedSeen
  <2>1. PICK n \in Names : n = stack[i]
    BY <1>5
  <2>2. Followed(n, e)'
    BY <1>3, <2>1 DEF Followed
  <2> QED BY <1>2, <2>1, <2>2 DEF FollowedSeen
<1>24. ClosedDecided' /\ OnlyClosed' /\ RootsWaiting'
  BY <1>3, <1>4 DEF ClosedDecided, OnlyClosed, RootsWaiting
<1> QED BY <1>15, <1>16, <1>17, <1>18, <1>19, <1>20, <1>21, <1>22, <1>23, <1>24

-----------------------------------------------------------------------------
(* The component closed.                                                   *)

(* What a rule begins with has been followed once it is open and not above *)
(* another frame: all of it was seen, and none of it is lower.             *)
LEMMA ComponentClosed ==
    ASSUME ScanInv, Exhausted, lowlinks[Cur.name] = indices[Cur.name],
           NEW j \in 1..Len(stack), indices[Cur.name] <= indices[stack[j]],
           NEW t \in LeadSet(lead, stack[j])
    PROVE  t \in Names /\ (Shut(t) \/ (OnStack(t) /\ indices[Cur.name] <= indices[t]))
<1> USE DEF ScanInv
<1>1. /\ TopRule \in Nat \ {0} /\ TopRule \in 1..TopRule /\ Cur.name = FrameOf(TopRule) /\ Cur = frames[TopRule]
  <2>1. TopRule \in Nat \ {0}
    BY EmptySeq DEF Exhausted, ScanTypes, TopRule
  <2> QED BY <2>1 DEF Cur, TopRule, FrameOf
<1>2. PICK m \in Names : m = stack[j]
  BY Basics
<1>3. PICK e \in 1..Len(lead[m]) : lead[m][e] = t
  BY <1>2 DEF LeadSet
<1>4. t \in Names /\ e \in Nat
  BY <1>3, LeadParts DEF ScanTypes
<1>5. ASSUME NEW k \in 1..TopRule, FrameOf(k) = m PROVE e <= frames[k].next
  <2>1. k = TopRule
    <3>1. indices[FrameOf(k)] \in Int /\ indices[Cur.name] \in Int
      BY <1>1, Basics
    <3>2. k < TopRule => indices[FrameOf(k)] < indices[FrameOf(TopRule)]
      BY <1>1 DEF FramesInOrder
    <3>3. indices[Cur.name] <= indices[FrameOf(k)]
      BY <1>2, <1>5
    <3> QED BY <1>1, <3>1, <3>2, <3>3
  <2>2. m = Cur.name /\ frames[k].next = Len(lead[m])
    BY <1>1, <1>5, <2>1 DEF Exhausted
  <2> QED BY <1>3, <2>2
<1>6. Followed(m, e)
  BY <1>3, <1>5 DEF Followed
<1>7. Seen(t)
  BY <1>2, <1>3, <1>6 DEF FollowedSeen
<1>8. ASSUME OnStack(t) PROVE indices[Cur.name] <= indices[t]
  <2>1. Belongs(stack[j], TopRule)
    BY <1>1, <1>2, TopHolds
  <2>2. Followed(stack[j], e) /\ e \in 1..Len(lead[stack[j]]) /\ lead[stack[j]][e] = t
    BY <1>2, <1>3, <1>6
  <2>3. lowlinks[FrameOf(TopRule)] <= indices[t]
    BY <1>1, <1>8, <2>1, <2>2 DEF LowIsLeast
  <2> QED BY <1>1, <2>3
<1> QED BY <1>4, <1>7, <1>8 DEF Shut

(* The rules of a component closed begin with each other.                  *)
LEMMA ComponentLeads ==
    ASSUME ScanInv, frames # <<>>,
           NEW j \in 1..Len(stack), indices[Cur.name] <= indices[stack[j]]
    PROVE  Leads(stack[j], Cur.name) /\ Leads(Cur.name, stack[j])
<1> USE DEF ScanInv
<1>1. /\ TopRule \in Nat \ {0} /\ TopRule \in 1..TopRule /\ Cur.name = FrameOf(TopRule)
  <2>1. TopRule \in Nat \ {0}
    BY EmptySeq DEF ScanTypes, TopRule
  <2> QED BY <2>1 DEF Cur, TopRule, FrameOf
<1>2. stack[j] \in Names
  BY Basics
<1>3. PICK k \in 1..TopRule : Belongs(stack[j], k) /\ Leads(stack[j], FrameOf(k))
  BY DEF LedBack
<1>4. k = TopRule
  BY <1>1, <1>2, <1>3, TopHolds
<1>5. Leads(Cur.name, stack[j])
  BY <1>1 DEF FramesLead
<1> QED BY <1>1, <1>3, <1>4, <1>5

(* The answer given of a component is the right one.                       *)
LEMMA ComponentDecided ==
    ASSUME ScanInv, Exhausted, lowlinks[Cur.name] = indices[Cur.name],
           NEW r \in 1..Len(stack), stack[r] = Cur.name,
           NEW j \in 1..Len(stack), r <= j
    PROVE  IsCycle(r) <=> CanReach(lead, stack[j], stack[j])
<1> USE DEF ScanInv
<1>1. /\ Len(stack) \in Nat /\ Cur.name \in Names
      /\ \A i \in 1..Len(stack) : stack[i] \in Names /\ indices[stack[i]] \in Int
  BY Basics
<1>2. frames # <<>>
  BY DEF Exhausted
<1>3. \A i \in 1..Len(stack) : r <= i => indices[Cur.name] <= indices[stack[i]]
  <2> SUFFICES ASSUME NEW i \in 1..Len(stack), r <= i
               PROVE  indices[Cur.name] <= indices[stack[i]]
    OBVIOUS
  <2>1. r = i \/ r < i
    BY <1>1
  <2> QED BY <1>1, <2>1 DEF StackInOrder
<1>4. \A i \in 1..Len(stack) : r <= i => Leads(stack[i], Cur.name) /\ Leads(Cur.name, stack[i])
  BY <1>2, <1>3, ComponentLeads
<1>5. CASE r < Len(stack)
  <2>1. PICK o \in 1..Len(stack) : r <= o /\ stack[o] # stack[j]
    <3>1. r + 1 \in 1..Len(stack) /\ r < r + 1 /\ r <= r + 1 /\ r <= r
      BY <1>1, <1>5
    <3>2. indices[stack[r]] < indices[stack[r + 1]]
      BY <3>1 DEF StackInOrder
    <3>3. stack[r] # stack[r + 1]
      BY <1>1, <3>1, <3>2
    <3> QED BY <3>1, <3>3
  <2>2. Leads(stack[j], stack[o]) /\ Leads(stack[o], stack[j])
    BY <1>1, <1>4, <2>1, LeadsTrans
  <2>3. CanReach(lead, stack[j], stack[o]) /\ CanReach(lead, stack[o], stack[j])
    BY <2>1, <2>2 DEF Leads
  <2>4. CanReach(lead, stack[j], stack[j])
    BY <1>1, <2>3, ReachTrans
  <2> QED BY <1>5, <2>4 DEF IsCycle
<1>6. CASE r = Len(stack)
  <2>1. j = r /\ stack[j] = Cur.name
    BY <1>1, <1>6
  <2>2. CASE Cur.name \in LeadSet(lead, Cur.name)
    BY <1>1, <2>1, <2>2, ReachTarget DEF IsCycle
  <2>3. CASE Cur.name \notin LeadSet(lead, Cur.name)
    <3> DEFINE S == { m \in Names : Shut(m) }
    <3>1. Closed(lead, S)
      <4> SUFFICES ASSUME NEW m \in Names, Shut(m), NEW t \in LeadSet(lead, m)
                   PROVE  t \in Names /\ Shut(t)
        BY DEF Closed
      <4> QED BY LeadParts DEF ClosedDecided, ScanTypes
    <3>2. LeadSet(lead, Cur.name) \subseteq S
      <4> SUFFICES ASSUME NEW t \in LeadSet(lead, Cur.name) PROVE t \in Names /\ Shut(t)
        OBVIOUS
      <4>1. t \in Names /\ (Shut(t) \/ (OnStack(t) /\ indices[Cur.name] <= indices[t]))
        BY <1>1, <1>3, <2>1, ComponentClosed
      <4>2. ASSUME OnStack(t), indices[Cur.name] <= indices[t] PROVE FALSE
        <5>1. PICK i \in 1..Len(stack) : stack[i] = t
          BY <4>2 DEF OnStack
        <5>2. i < r => indices[stack[i]] < indices[Cur.name]
          BY <1>6 DEF StackInOrder
        <5>3. i = r
          BY <1>1, <1>6, <4>2, <5>1, <5>2
        <5> QED BY <2>3, <5>1, <5>3
      <4> QED BY <4>1, <4>2
    <3>3. Cur.name \notin S
      BY <2>1 DEF Shut, OnStack
    <3>4. S \in SUBSET Names
      OBVIOUS
    <3> HIDE DEF S
    <3>5. ~CanReach(lead, Cur.name, Cur.name)
      BY <3>1, <3>2, <3>3, <3>4 DEF CanReach
    <3>6. ~IsCycle(r)
      BY <1>1, <1>6, <2>3 DEF IsCycle
    <3> QED BY <2>1, <3>5, <3>6
  <2> QED BY <2>2, <2>3
<1> QED BY <1>1, <1>5, <1>6

(* A component is closed: its rules leave the stack, its root the frames.  *)
LEMMA CloseKeeps == ScanInv /\ CloseComponent => ScanInv'
<1> SUFFICES ASSUME ScanInv, CloseComponent PROVE ScanInv'
  OBVIOUS
<1> USE DEF ScanInv
<1>1. PICK T, L, c : T = TopRule /\ L = Len(stack) /\ c = Cur.name
  OBVIOUS
<1>2. /\ T \in Nat \ {0} /\ T \in 1..T /\ c = FrameOf(T) /\ c \in Names
      /\ frames' \in Seq(Frames) /\ TopRule' = T - 1
      /\ \A k \in 1..(T - 1) : /\ k \in 1..T /\ frames'[k] = frames[k]
                               /\ FrameOf(k)' = FrameOf(k)
      /\ \A n \in Names : \A e : Followed(n, e)' => Followed(n, e)
  BY <1>1, Popped DEF CloseComponent, PopFrame
<1>3. PICK r \in 1..L : /\ IsRoot(r)
                        /\ stack' = SubSeq(stack, 1, r - 1)
                        /\ cyclic' = IF IsCycle(r) THEN cyclic \cup Component(r) ELSE cyclic
  BY <1>1 DEF CloseComponent
<1>4. /\ lead' = lead /\ roots' = roots /\ index' = index /\ indices' = indices
      /\ Exhausted /\ lowlinks[c] = indices[c] /\ stack[r] = c
  BY <1>1, <1>3 DEF CloseComponent, PopFrame, IsRoot
<1>5. /\ L \in Nat /\ r \in Nat
      /\ \A k \in 1..T : FrameOf(k) \in Names /\ Seen(FrameOf(k))
      /\ \A i \in 1..L : stack[i] \in Names /\ indices[stack[i]] \in Int
      /\ \A n \in Names : indices[n] \in Int /\ lowlinks[n] \in Int
  <2>1. \A k \in 1..T : Seen(FrameOf(k))
    BY <1>1 DEF FramesInOrder, OnStack, StackInOrder
  <2> QED BY <1>1, <2>1, Basics
<1>6. /\ stack' \in Seq(Names) /\ Len(stack') = r - 1
      /\ \A i \in 1..(r - 1) : i \in 1..L /\ i < r /\ stack'[i] = stack[i]
  <2>1. \A i \in 1..(r - 1) : i \in 1..L /\ i < r /\ stack[i] \in Names
    BY <1>5
  <2>2. /\ SubSeq(stack, 1, r - 1) \in Seq(Names)
        /\ Len(SubSeq(stack, 1, r - 1)) = IF 1 <= r - 1 THEN r - 1 - 1 + 1 ELSE 0
        /\ \A i \in 1..(r - 1 - 1 + 1) : SubSeq(stack, 1, r - 1)[i] = stack[1 + i - 1]
    BY <1>5, <2>1, SubSeqProperties
  <2>3. \A i \in 1..(r - 1) : SubSeq(stack, 1, r - 1)[i] = stack[i]
    BY <1>5, <2>2
  <2> QED BY <1>3, <1>5, <2>1, <2>2, <2>3
<1>7. \A i \in 1..L : i < r <=> indices[stack[i]] < indices[c]
  <2> SUFFICES ASSUME NEW i \in 1..L PROVE i < r <=> indices[stack[i]] < indices[c]
    OBVIOUS
  <2>1. i < r => indices[stack[i]] < indices[c]
    BY <1>1, <1>4 DEF StackInOrder
  <2>2. r < i => indices[c] < indices[stack[i]]
    BY <1>1, <1>4 DEF StackInOrder
  <2>3. indices[stack[i]] \in Int /\ indices[c] \in Int /\ i \in Nat
    BY <1>2, <1>5
  <2>4. i = r => indices[stack[i]] = indices[c]
    BY <1>4
  <2> QED BY <1>5, <2>1, <2>2, <2>3, <2>4
<1>8. /\ \A n : OnStack(n)' => OnStack(n) /\ indices[n] < indices[c]
      /\ \A n : OnStack(n) /\ indices[n] < indices[c] => OnStack(n)'
  <2>1. ASSUME NEW n, OnStack(n)' PROVE OnStack(n) /\ indices[n] < indices[c]
    <3>1. PICK i \in 1..(r - 1) : stack'[i] = n
      BY <1>6, <2>1 DEF OnStack
    <3> QED BY <1>1, <1>6, <1>7, <3>1 DEF OnStack
  <2>2. ASSUME NEW n, OnStack(n), indices[n] < indices[c] PROVE OnStack(n)'
    <3>1. PICK i \in 1..L : stack[i] = n
      BY <1>1, <2>2 DEF OnStack
    <3>2. i \in 1..(r - 1) /\ i \in Nat
      BY <1>5, <1>7, <2>2, <3>1
    <3> QED BY <1>6, <3>1, <3>2 DEF OnStack
  <2> QED BY <2>1, <2>2
<1>9. /\ \A n : Seen(n)' <=> Seen(n)
      /\ \A n, m : Leads(n, m)' <=> Leads(n, m)
  BY <1>4 DEF Seen, Leads
<1>10. \A n \in Names : Shut(n)' <=> Shut(n) \/ (OnStack(n) /\ indices[c] <= indices[n])
  <2> SUFFICES ASSUME NEW n \in Names
               PROVE  Shut(n)' <=> Shut(n) \/ (OnStack(n) /\ indices[c] <= indices[n])
    OBVIOUS
  <2>1. indices[n] \in Int /\ indices[c] \in Int
    BY <1>2, <1>5
  <2>2. OnStack(n) => Seen(n)
    BY DEF OnStack, StackInOrder
  <2>3. indices[c] <= indices[n] <=> ~(indices[n] < indices[c])
    BY <2>1
  <2> QED BY <1>8, <1>9, <2>2, <2>3 DEF Shut
<1>11. \A k \in 1..(T - 1) : /\ indices[FrameOf(k)] < indices[c]
                             /\ lowlinks[FrameOf(k)] <= indices[FrameOf(k)]
  <2> SUFFICES ASSUME NEW k \in 1..(T - 1)
               PROVE  /\ indices[FrameOf(k)] < indices[c]
                      /\ lowlinks[FrameOf(k)] <= indices[FrameOf(k)]
    OBVIOUS
  <2>1. k \in 1..T /\ k < T
    BY <1>2
  <2> QED BY <1>1, <1>2, <1>5, <2>1 DEF FramesInOrder, Numbered
<1>12. lowlinks' = lowlinks
  <2>1. CASE Callers = <<>>
    BY <2>1 DEF CloseComponent, PopFrame
  <2>2. CASE Callers # <<>>
    <3>1. Callers = frames' /\ Len(frames') = T - 1
      BY <1>2 DEF CloseComponent, PopFrame, TopRule
    <3>2. T - 1 \in 1..(T - 1)
      BY <1>2, <2>2, <3>1, EmptySeq
    <3>3. PICK p \in Names : p = FrameOf(T - 1)
      BY <1>2, <1>5, <3>2
    <3>4. Callers[Len(Callers)].name = p
      BY <1>2, <3>1, <3>2, <3>3 DEF FrameOf
    <3>5. lowlinks' = [lowlinks EXCEPT ![p] = Min({lowlinks[p], lowlinks[c]})]
      BY <1>1, <2>2, <3>4 DEF CloseComponent, PopFrame
    <3>6. indices[p] < indices[c] /\ lowlinks[p] <= indices[p]
      BY <1>11, <3>2, <3>3
    <3>7. /\ lowlinks[p] \in Int /\ lowlinks[c] \in Int /\ indices[p] \in Int /\ indices[c] \in Int
      BY <1>2, <1>5
    <3>8. lowlinks[p] < lowlinks[c]
      BY <1>4, <3>6, <3>7
    <3>9. Min({lowlinks[p], lowlinks[c]}) = lowlinks[p]
      <4>1. /\ Min({lowlinks[p], lowlinks[c]}) \in {lowlinks[p], lowlinks[c]}
            /\ Min({lowlinks[p], lowlinks[c]}) <= lowlinks[p]
        BY <3>7, LowerOfTwo
      <4> QED BY <3>7, <3>8, <4>1
    <3>10. lowlinks' = [lowlinks EXCEPT ![p] = lowlinks[p]]
      BY <3>5, <3>9
    <3> QED BY <3>10 DEF ScanTypes
  <2> QED BY <2>1, <2>2
<1>13. ASSUME NEW n \in Names, indices[n] < indices[c], NEW k \in 1..(T - 1)
       PROVE  Belongs(n, k)' <=> Belongs(n, k)
  <2>1. k \in 1..T /\ (k = T - 1 \/ (k < T - 1 /\ k + 1 \in 1..(T - 1)))
    BY <1>2
  <2>2. CASE k = T - 1
    <3>1. k < T /\ k + 1 = T
      BY <1>2, <2>2
    <3> QED BY <1>1, <1>2, <1>4, <1>13, <2>2, <3>1 DEF Belongs
  <2>3. CASE k < T - 1 /\ k + 1 \in 1..(T - 1)
    <3>1. FrameOf(k + 1)' = FrameOf(k + 1) /\ k < T
      BY <1>2, <2>3
    <3> QED BY <1>1, <1>2, <1>4, <2>3, <3>1 DEF Belongs
  <2> QED BY <2>1, <2>2, <2>3
<1>14. ScanTypes'
  <2>1. Component(r) \subseteq Names
    BY <1>1, <1>3, <1>5 DEF Component
  <2> QED BY <1>2, <1>3, <1>4, <1>6, <1>12, <2>1 DEF ScanTypes
<1>15. Numbered'
  BY <1>4, <1>9, <1>12 DEF Numbered
<1>16. StackInOrder'
  BY <1>1, <1>4, <1>6, <1>9 DEF StackInOrder
<1>17. FramesInOrder'
  <2>1. \A k \in 1..(T - 1) : OnStack(FrameOf(k))'
    BY <1>1, <1>2, <1>8, <1>11 DEF FramesInOrder
  <2> QED BY <1>1, <1>2, <1>4, <2>1 DEF FramesInOrder
<1>18. FramesLead'
  BY <1>1, <1>2, <1>4, <1>6, <1>9 DEF FramesLead
<1>19. LedBack'
  <2> SUFFICES ASSUME NEW i \in 1..(r - 1)
               PROVE  \E k \in 1..(T - 1) : Belongs(stack[i], k)' /\ Leads(stack'[i], FrameOf(k))
    BY <1>2, <1>6, <1>9 DEF LedBack
  <2>1. PICK n \in Names : n = stack[i]
    BY <1>5, <1>6
  <2>2. indices[n] < indices[c]
    BY <1>6, <1>7, <2>1
  <2>3. PICK k \in 1..T : Belongs(n, k) /\ Leads(n, FrameOf(k))
    BY <1>1, <1>6, <2>1 DEF LedBack
  <2>4. k \in 1..(T - 1)
    <3>1. TopRule # 0 /\ k \in 1..TopRule /\ indices[n] < indices[FrameOf(TopRule)]
      BY <1>1, <1>2, <2>2
    <3>2. k < TopRule
      BY <2>3, <3>1, BelowTop
    <3> QED BY <1>1, <1>2, <3>2
  <2>5. Belongs(n, k)'
    BY <1>13, <2>2, <2>3, <2>4
  <2> QED BY <1>6, <2>1, <2>3, <2>4, <2>5 DEF Belongs
<1>20. LowIsLed'
  <2> SUFFICES ASSUME NEW k \in 1..(T - 1)
               PROVE  \E i \in 1..(r - 1) : /\ lowlinks[FrameOf(k)] = indices[stack'[i]]
                                            /\ Leads(FrameOf(k), stack'[i])
    BY <1>2, <1>4, <1>6, <1>9, <1>12 DEF LowIsLed
  <2>1. PICK i \in 1..L : lowlinks[FrameOf(k)] = indices[stack[i]] /\ Leads(FrameOf(k), stack[i])
    BY <1>1, <1>2 DEF LowIsLed
  <2>2. indices[stack[i]] < indices[c]
    <3>1. /\ indices[FrameOf(k)] < indices[c] /\ lowlinks[FrameOf(k)] <= indices[FrameOf(k)]
      BY <1>11
    <3>2. /\ indices[FrameOf(k)] \in Int /\ lowlinks[FrameOf(k)] \in Int /\ indices[c] \in Int
      BY <1>2, <1>5
    <3> QED BY <2>1, <3>1, <3>2
  <2>3. i \in 1..(r - 1)
    BY <1>5, <1>7, <2>2
  <2> QED BY <1>6, <2>1, <2>3
<1>21. LowIsLeast'
  <2> SUFFICES ASSUME NEW i \in 1..Len(stack'), NEW k \in 1..TopRule', Belongs(stack[i], k)',
                      NEW e \in 1..Len(lead'[stack'[i]]), Followed(stack[i], e)',
                      OnStack(lead[stack[i]][e])'
               PROVE  lowlinks'[FrameOf(k)'] <= indices'[lead'[stack'[i]][e]]
    BY DEF LowIsLeast
  <2>1. PICK n \in Names : n = stack[i] /\ n = stack'[i]
    BY <1>5, <1>6
  <2>2. PICK t : t = lead[n][e]
    OBVIOUS
  <2>3. /\ i \in 1..L /\ k \in 1..(T - 1) /\ k \in 1..T /\ e \in 1..Len(lead[n])
        /\ FrameOf(k)' = FrameOf(k)
    BY <1>2, <1>4, <1>6, <2>1
  <2>4. Belongs(n, k)' /\ Followed(n, e)' /\ OnStack(t)'
    BY <1>4, <2>1, <2>2 DEF Belongs, Followed, OnStack
  <2>5. indices[n] < indices[c]
    BY <1>6, <1>7, <2>1
  <2>6. Belongs(n, k) /\ Followed(n, e) /\ OnStack(t)
    BY <1>2, <1>8, <1>13, <2>3, <2>4, <2>5
  <2>7. lowlinks[FrameOf(k)] <= indices[t]
    BY <1>1, <2>1, <2>2, <2>3, <2>6 DEF LowIsLeast
  <2> QED BY <1>4, <1>12, <2>1, <2>2, <2>3, <2>7
<1>22. FollowedSeen'
  <2> SUFFICES ASSUME NEW i \in 1..Len(stack'), NEW e \in 1..Len(lead'[stack'[i]]),
                      Followed(stack[i], e)'
               PROVE  Seen(lead[stack[i]][e])'
    BY DEF FollowedSeen
  <2>1. PICK n \in Names : n = stack[i] /\ n = stack'[i]
    BY <1>5, <1>6
  <2>2. i \in 1..L /\ e \in 1..Len(lead[n]) /\ Followed(n, e)'
    BY <1>4, <1>6, <2>1 DEF Followed
  <2>3. Seen(lead[n][e])
    BY <1>1, <1>2, <2>1, <2>2 DEF FollowedSeen
  <2> QED BY <1>4, <2>1, <2>3 DEF Seen
<1>23. \A n \in Names : n \in Component(r) <=> OnStack(n) /\ indices[c] <= indices[n]
  <2> SUFFICES ASSUME NEW n \in Names
               PROVE  n \in Component(r) <=> OnStack(n) /\ indices[c] <= indices[n]
    OBVIOUS
  <2>1. \A i \in 1..L : i >= r <=> indices[c] <= indices[stack[i]]
    BY <1>2, <1>5, <1>7
  <2>2. \A i : i \in r..L <=> i \in 1..L /\ i >= r
    BY <1>3, <1>5
  <2> QED BY <1>1, <2>1, <2>2 DEF Component, OnStack
<1>24. ClosedDecided'
  <2> SUFFICES ASSUME NEW n \in Names, Shut(n)'
               PROVE  /\ \A m \in LeadSet(lead, n) : Shut(m)'
                      /\ n \in cyclic' <=> CanReach(lead, n, n)
    BY <1>4 DEF ClosedDecided
  <2>1. CASE Shut(n)
    <3>1. n \notin Component(r)
      BY <1>23, <2>1 DEF Shut
    <3>2. \A m \in LeadSet(lead, n) : m \in Names /\ Shut(m)
      BY <2>1, LeadParts DEF ClosedDecided, ScanTypes
    <3>3. n \in cyclic <=> CanReach(lead, n, n)
      BY <2>1 DEF ClosedDecided
    <3> QED BY <1>3, <1>10, <3>1, <3>2, <3>3
  <2>2. CASE OnStack(n) /\ indices[c] <= indices[n]
    <3>1. PICK j \in 1..L : stack[j] = n
      BY <1>1, <2>2 DEF OnStack
    <3>2. \A m \in LeadSet(lead, n) : Shut(m)'
      <4> SUFFICES ASSUME NEW m \in LeadSet(lead, n) PROVE Shut(m)'
        OBVIOUS
      <4>1. m \in Names /\ (Shut(m) \/ (OnStack(m) /\ indices[c] <= indices[m]))
        BY <1>1, <1>4, <2>2, <3>1, ComponentClosed
      <4> QED BY <1>10, <4>1
    <3>3. IsCycle(r) <=> CanReach(lead, n, n)
      <4>1. r <= j
        BY <1>2, <1>5, <1>7, <2>2, <3>1
      <4> QED BY <1>1, <1>3, <1>4, <3>1, <4>1, ComponentDecided
    <3>4. n \in cyclic' <=> IsCycle(r)
      <4>1. n \notin cyclic
        BY <2>2 DEF OnlyClosed, Shut
      <4> QED BY <1>3, <1>23, <2>2, <4>1
    <3> QED BY <3>2, <3>3, <3>4
  <2> QED BY <1>10, <2>1, <2>2
<1>25. OnlyClosed'
  <2> SUFFICES ASSUME NEW n \in cyclic' PROVE Shut(n)'
    BY DEF OnlyClosed
  <2>1. n \in cyclic \/ n \in Component(r)
    BY <1>3
  <2>2. n \in Names
    BY <1>14 DEF ScanTypes
  <2>3. n \in cyclic => Shut(n)
    BY DEF OnlyClosed
  <2> QED BY <1>10, <1>23, <2>1, <2>2, <2>3
<1>26. RootsWaiting'
  BY <1>4, <1>9 DEF RootsWaiting
<1> QED BY <1>14, <1>15, <1>16, <1>17, <1>18, <1>19, <1>20, <1>21, <1>22, <1>24, <1>25, <1>26

(* Every step of the scan preserves the invariant.                         *)
LEMMA ScanInductive == ScanInv /\ [ScanNext]_scanVars => ScanInv'
<1> SUFFICES ASSUME ScanInv, [ScanNext]_scanVars PROVE ScanInv'
  OBVIOUS
<1>1. CASE ScanNext
  BY <1>1, OpenRootKeeps, SkipKeeps, DescendKeeps, BackEdgeKeeps, CrossEdgeKeeps,
     CloseKeeps, ReturnKeeps DEF ScanNext
<1>2. CASE UNCHANGED scanVars
  BY <1>2 DEF scanVars, ScanInv, ScanTypes, Numbered, StackInOrder, FramesInOrder, FramesLead, LedBack,
     LowIsLed, LowIsLeast, FollowedSeen, ClosedDecided, OnlyClosed, RootsWaiting,
     Seen, Shut, TopRule, FrameOf, Leads, Belongs, Followed, OnStack
<1> QED BY <1>1, <1>2

-----------------------------------------------------------------------------
(* The strengthened invariant holds of every state of the scan.            *)
THEOREM ScanInvariant == ScanSpec => []ScanInv
  BY ScanInductive, InitInv, PTL DEF ScanSpec

(* When the scan is over it has kept the rules on a cycle.                 *)
LEMMA ScanGives == ScanInv => CyclesFound
<1> SUFFICES ASSUME ScanInv, Scanned PROVE cyclic = { n \in Names : CanReach(lead, n, n) }
  BY DEF CyclesFound
<1> USE DEF ScanInv
<1>1. TopRule = 0 /\ \A i \in 1..Len(roots) : FALSE
  BY DEF Scanned, TopRule
<1>2. \A i \in 1..Len(stack) : FALSE
  BY <1>1 DEF LedBack
<1>3. \A n \in Names : Shut(n)
  BY <1>1, <1>2 DEF RootsWaiting, Shut, OnStack
<1>4. cyclic \subseteq Names
  BY DEF ScanTypes
<1> QED BY <1>3, <1>4 DEF ClosedDecided

(* When the scan of find_leading_ref_cycle_members ends, it has kept       *)
(* exactly the rules that can begin with themselves.                       *)
THEOREM ScanCorrect == ScanSpec => []CyclesFound
  BY ScanGives, ScanInvariant, PTL
=============================================================================
