------------------------- MODULE SuffixDebts_proofs -------------------------
(***************************************************************************)
(* Proofs about SuffixDebts: in any parse, of any depth, over any grammar  *)
(* of the shape elimination leaves, copies of loops made by substitution   *)
(* included, a loop whose own rule's suffix counts as owed is held back    *)
(* exactly when a frame above it needs one of its tokens.                  *)
(***************************************************************************)
EXTENDS SuffixDebts, Induction, FiniteSetTheorems

\* What a push that may end in the loop does to the loop's counter.
Charge(g, loop, x) == IF Competing(g, loop, Needs(g, x)) # {} THEN 1 ELSE 0

TypeInv == /\ grammar \in Inputs
           /\ next \in 1..(Len(grammar) + 1)
           /\ DOMAIN guard = DOMAIN grammar /\ DOMAIN owed = DOMAIN grammar
           /\ DOMAIN debt = Places(grammar)
           /\ \A x \in Places(grammar) : debt[x] = [c \in DOMAIN debt[x] |-> debt[x][c]]
           /\ n \in [Counters(grammar) -> Nat]
           /\ at \in 0..Len(grammar)
           /\ depth \in Nat

\* The loops looked at are annotated, and the others are as they came.
LoopsInv == \A loop \in Loops(grammar) :
    /\ next <= loop => guard[loop] = grammar[loop].guard
    /\ loop < next /\ ~Contested(grammar, loop) => guard[loop] = NoGuard
    /\ loop < next /\ Contested(grammar, loop) =>
          /\ guard[loop] = grammar[loop].guard
          /\ owed[loop] = Owed(grammar, loop)
          /\ \A x \in Pending(grammar, loop) : grammar[loop].guard \in DOMAIN debt[x]

\* Every charge is of a contested loop looked at.
DebtsInv == \A x \in Places(grammar) : \A c \in DOMAIN debt[x] :
    \E loop \in Loops(grammar) :
       /\ loop < next /\ Contested(grammar, loop) /\ grammar[loop].guard = c
       /\ x \in Pending(grammar, loop)
       /\ debt[x][c] = Charge(grammar, loop, x)

\* The rules from which a parse can come to the loop.
Zone(g, loop) == { p \in DOMAIN g :
                     \/ p = loop
                     \/ /\ Owners(g, loop) # {}
                        /\ g[p].name \in RefCallersOf(g, g[Owner(g, loop)].name) }

\* There, what is needed is what follows a push that may end in the loop,
\* and the loop's counter tells whether that competes with it.
ParseInv ==
    /\ at = 0 => owes = {} /\ \A c \in Counters(grammar) : n[c] = 0
    /\ at # 0 => Settled
    /\ \A loop \in Loops(grammar) : OwnSuffixCounts(grammar, loop) /\ at \in Zone(grammar, loop) =>
          /\ \/ owes = {}
             \/ Owners(grammar, loop) # {} /\ \E x \in Pending(grammar, loop) : owes = Needs(grammar, x)
          /\ Contested(grammar, loop) =>
                (n[grammar[loop].guard] # 0 <=> Competing(grammar, loop, owes) # {})

DebtInv == TypeInv /\ LoopsInv /\ DebtsInv /\ ParseInv

-----------------------------------------------------------------------------
(* The input of every state is one that desugaring hands over.             *)
LEMMA Standing ==
    ASSUME NEW g \in Inputs
    PROVE  /\ Len(g) \in Nat \ {0} /\ DOMAIN g = 1..Len(g)
           /\ Resolved(g) /\ LoopsStand(g)
BY InputsAssumption DEF Resolved

(* A place of a reference is in a rule, and its target is one.             *)
LEMMA PlaceFacts ==
    ASSUME NEW g \in Inputs, NEW x \in Places(g)
    PROVE  /\ x[1] \in DOMAIN g
           /\ \E p \in DOMAIN g : g[p].name = TargetOf(g, x)
<1>1. PICK p \in DOMAIN g : \E k \in DOMAIN g[p].alts : \E i \in DOMAIN g[p].alts[k] : x = <<p, k, i>>
  BY DEF Places
<1>2. TargetOf(g, x) \in NamesOf(g)
  BY InputsAssumption DEF Resolved
<1> QED BY <1>1, <1>2 DEF NamesOf

(* A rule refers to what one of its places does, and conversely.           *)
LEMMA RefersByPlace ==
    ASSUME NEW g, NEW p \in DOMAIN g, NEW r
    PROVE  Refers(g, p, r) <=> \E x \in Places(g) : x[1] = p /\ TargetOf(g, x) = r
<1>1. ASSUME Refers(g, p, r) PROVE \E x \in Places(g) : x[1] = p /\ TargetOf(g, x) = r
  <2>1. PICK k \in DOMAIN g[p].alts : \E i \in DOMAIN g[p].alts[k] : IsRefTo(g[p].alts[k][i], r)
    BY <1>1 DEF Refers
  <2>2. PICK i \in DOMAIN g[p].alts[k] : IsRefTo(g[p].alts[k][i], r)
    BY <2>1
  <2>3. << p, k, i >>[1] = p /\ << p, k, i >>[2] = k /\ << p, k, i >>[3] = i
    OBVIOUS
  <2>4. PICK x : x = <<p, k, i>>
    OBVIOUS
  <2>5. x[1] = p /\ x[2] = k /\ x[3] = i
    BY <2>3, <2>4
  <2>6. x \in Places(g)
    <3>1. x \in { <<p, k, j>> : j \in DOMAIN g[p].alts[k] }
      BY <2>4
    <3>2. x \in UNION { { <<p, h, j>> : j \in DOMAIN g[p].alts[h] } : h \in DOMAIN g[p].alts }
      BY <3>1
    <3>3. x \in UNION { UNION { { <<q, h, j>> : j \in DOMAIN g[q].alts[h] } : h \in DOMAIN g[q].alts } :
                          q \in DOMAIN g }
      BY <3>2
    <3>4. IsRef(g[x[1]].alts[x[2]][x[3]])
      BY <2>2, <2>5 DEF IsRef, IsRefTo
    <3> QED BY <3>3, <3>4 DEF Places
  <2>7. TargetOf(g, x) = r
    BY <2>2, <2>5 DEF TargetOf, IsRefTo
  <2> QED BY <2>5, <2>6, <2>7
<1>2. ASSUME NEW x \in Places(g), x[1] = p, TargetOf(g, x) = r PROVE Refers(g, p, r)
  <2>1. PICK q \in DOMAIN g : \E k \in DOMAIN g[q].alts : \E i \in DOMAIN g[q].alts[k] : x = <<q, k, i>>
    BY DEF Places
  <2>2. PICK k \in DOMAIN g[q].alts : \E i \in DOMAIN g[q].alts[k] : x = <<q, k, i>>
    BY <2>1
  <2>3. PICK i \in DOMAIN g[q].alts[k] : x = <<q, k, i>>
    BY <2>2
  <2>4. q = p /\ x[2] = k /\ x[3] = i
    BY <2>3, <1>2
  <2>5. IsRef(g[x[1]].alts[x[2]][x[3]])
    BY DEF Places
  <2>6. IsRefTo(g[p].alts[k][i], r)
    BY <2>4, <2>5, <1>2 DEF TargetOf, IsRef, IsRefTo
  <2> QED BY <2>3, <2>4, <2>6 DEF Refers
<1> QED BY <1>1, <1>2

(* A set of rules that one more round back does not grow.                  *)
Closed(g, names) == Back(g, names) = names

(* Going back one round keeps what is there, and stays among the rules.    *)
LEMMA BackFacts ==
    ASSUME NEW g \in Inputs, NEW names \in SUBSET NamesOf(g)
    PROVE  names \subseteq Back(g, names) /\ Back(g, names) \in SUBSET NamesOf(g)
<1>1. ASSUME NEW x \in Places(g) PROVE g[x[1]].name \in NamesOf(g)
  BY PlaceFacts DEF NamesOf
<1> QED BY <1>1 DEF Back

(* The rules with a name in a set.                                         *)
Having(g, names) == { p \in DOMAIN g : g[p].name \in names }

(* A round back that adds a name adds a rule.                              *)
LEMMA RoundAdds ==
    ASSUME NEW g \in Inputs, NEW names \in SUBSET NamesOf(g), ~Closed(g, names)
    PROVE  /\ Cardinality(Having(g, names)) \in Nat
           /\ Cardinality(Having(g, Back(g, names))) \in Nat
           /\ Cardinality(Having(g, Back(g, names))) >= Cardinality(Having(g, names)) + 1
           /\ Cardinality(Having(g, Back(g, names))) <= Len(g)
<1> DEFINE H == Having(g, names)
           B == Having(g, Back(g, names))
<1>1. IsFiniteSet(1..Len(g)) /\ Cardinality(1..Len(g)) = Len(g)
  <2>1. Len(g) \in Nat \ {0}
    BY Standing
  <2>2. IsFiniteSet(1..Len(g)) /\ Cardinality(1..Len(g)) = IF 1 > Len(g) THEN 0 ELSE Len(g) - 1 + 1
    BY <2>1, FS_Interval
  <2> QED BY <2>1, <2>2
<1>2. B \in SUBSET (1..Len(g)) /\ H \in SUBSET B
  BY Standing, BackFacts DEF Having
<1>3. PICK r \in Back(g, names) : r \notin names
  BY BackFacts DEF Closed
<1>4. PICK p \in DOMAIN g : g[p].name = r
  BY <1>3, BackFacts DEF NamesOf
<1>5. p \in B /\ p \notin H
  BY <1>3, <1>4 DEF Having
<1> HIDE DEF H, B
<1>6. IsFiniteSet(B) /\ Cardinality(B) <= Cardinality(1..Len(g))
  BY <1>1, <1>2, FS_Subset
<1>7. IsFiniteSet(H) /\ Cardinality(H) <= Cardinality(B) /\ (Cardinality(B) = Cardinality(H) => B = H)
  BY <1>2, <1>6, FS_Subset
<1>8. Cardinality(H) \in Nat /\ Cardinality(B) \in Nat /\ Cardinality(B) # Cardinality(H)
  BY <1>5, <1>6, <1>7, FS_CardinalityType
<1>9. Cardinality(B) >= Cardinality(H) + 1 /\ Cardinality(B) <= Len(g)
  BY <1>1, <1>6, <1>7, <1>8
<1> QED BY <1>8, <1>9 DEF H, B

(* The backward walk of ref_callers_of: it holds its target, and whatever  *)
(* refers to what it holds.                                                *)
LEMMA CallersFacts ==
    ASSUME NEW g \in Inputs, NEW target \in NamesOf(g)
    PROVE  /\ target \in RefCallersOf(g, target)
           /\ \A x \in Places(g) : TargetOf(g, x) \in RefCallersOf(g, target)
                                     => g[x[1]].name \in RefCallersOf(g, target)
<1> DEFINE S == SUBSET NamesOf(g)
<1>1. PICK size \in Nat : size = Len(g) /\ size # 0
  BY Standing
<1> DEFINE step == [k \in 1..size |-> [q \in S |-> Back(g, q)]]
<1>2. \A k \in 1..size, q \in S : step[k][q] = Back(g, q) /\ step[k][q] \in S
  BY BackFacts
<1> HIDE DEF step
<1>3. {target} \in S
  OBVIOUS
<1> HIDE DEF S
<1>4. Steps(step, S, size)
  BY <1>2 DEF Steps
<1>5. PICK f : Follows(f, step, S, {target}, size)
  BY <1>3, <1>4, Recursion
<1> DEFINE Defines(h) == h = [k \in 0..size |-> IF k = 0 THEN {target} ELSE Back(g, h[k - 1])]
           seen == CHOOSE h : Defines(h)
<1>6. Defines(f)
  <2>1. ASSUME NEW k \in 0..size PROVE f[k] = IF k = 0 THEN {target} ELSE Back(g, f[k - 1])
    <3>1. CASE k = 0
      BY <3>1, <1>5 DEF Follows
    <3>2. CASE k # 0
      <4>1. k \in 1..size
        BY <3>2
      <4>2. f[k - 1] \in S /\ f[k] = step[k][f[k - 1]]
        BY <4>1, <1>5 DEF Follows
      <4> QED BY <4>1, <4>2, <1>2, <3>2
    <3> QED BY <3>1, <3>2
  <2>2. f = [k \in 0..size |-> f[k]]
    BY <1>5 DEF Follows
  <2> HIDE DEF seen
  <2> QED BY <2>1, <2>2
<1>7. Defines(seen)
  <2> HIDE DEF Defines
  <2> QED BY <1>6
<1>8. RefCallersOf(g, target) = seen[size]
  BY <1>1 DEF RefCallersOf
<1> HIDE DEF seen
<1>9. seen[0] = {target} /\ \A k \in 1..size : seen[k] = Back(g, seen[k - 1])
  <2>1. ASSUME NEW k \in 0..size PROVE seen[k] = IF k = 0 THEN {target} ELSE Back(g, seen[k - 1])
    BY <1>7, Zenon
  <2>2. 0 \in 0..size
    OBVIOUS
  <2>3. \A k \in 1..size : k \in 0..size /\ k # 0
    OBVIOUS
  <2> QED BY <2>1, <2>2, <2>3, Zenon
<1> DEFINE Card(k) == Cardinality(Having(g, seen[k]))
           H == { k \in 0..size : /\ seen[k] \in S /\ target \in seen[k]
                                  /\ Closed(g, seen[k]) \/ (Card(k) \in Nat /\ Card(k) >= k) }
<1>10. 0 \in H
  <2>1. seen[0] \in S /\ target \in seen[0]
    BY <1>3, <1>9
  <2>2. ~Closed(g, seen[0]) => Card(0) \in Nat
    BY <2>1, RoundAdds DEF S
  <2>3. ~Closed(g, seen[0]) => Card(0) \in Nat /\ Card(0) >= 0
    BY <2>2
  <2> QED BY <2>1, <2>3
<1>11. \A k \in 1..size : k - 1 \in H => k \in H
  <2> SUFFICES ASSUME NEW k \in 1..size, k - 1 \in H PROVE k \in H
    OBVIOUS
  <2>1. seen[k] = Back(g, seen[k - 1]) /\ seen[k - 1] \in S
    BY <1>9
  <2>2. seen[k - 1] \subseteq seen[k] /\ seen[k] \in S
    BY <2>1, BackFacts DEF S
  <2>3. target \in seen[k]
    BY <2>2
  <2>4. CASE Closed(g, seen[k - 1])
    <3>1. seen[k] = seen[k - 1]
      BY <2>1, <2>4 DEF Closed
    <3>2. Closed(g, seen[k])
      BY <2>4, <3>1
    <3> QED BY <2>2, <2>3, <3>2
  <2>5. CASE ~Closed(g, seen[k - 1])
    <3>1. Card(k - 1) \in Nat /\ Card(k - 1) >= k - 1
      BY <2>5
    <3>2. Card(k) \in Nat /\ Card(k) >= Card(k - 1) + 1
      BY <2>1, <2>5, RoundAdds DEF S
    <3>3. Card(k) >= k
      <4> HIDE DEF Card
      <4> QED BY <3>1, <3>2
    <3> QED BY <2>2, <2>3, <3>2, <3>3
  <2> QED BY <2>4, <2>5
<1>12. \A k \in 0..size : k \in H
  <2> HIDE DEF H
  <2> QED BY <1>10, <1>11, Induct
<1>13. /\ seen[size] \in S /\ target \in seen[size]
       /\ Closed(g, seen[size]) \/ (Card(size) \in Nat /\ Card(size) >= size)
  BY <1>12
<1>14. Closed(g, seen[size])
  <2> SUFFICES ASSUME ~Closed(g, seen[size]) PROVE FALSE
    OBVIOUS
  <2>1. PICK before, after : /\ before = Card(size)
                             /\ after = Cardinality(Having(g, Back(g, seen[size])))
    OBVIOUS
  <2>2. after \in Nat /\ after >= before + 1 /\ after <= size
    BY <1>1, <1>13, <2>1, RoundAdds DEF S
  <2>3. before \in Nat /\ before >= size
    BY <1>13, <2>1
  <2> QED BY <2>2, <2>3
<1>15. ASSUME NEW x \in Places(g), TargetOf(g, x) \in seen[size] PROVE g[x[1]].name \in seen[size]
  <2>1. g[x[1]].name \in Back(g, seen[size])
    BY <1>15 DEF Back
  <2> QED BY <1>14, <2>1 DEF Closed
<1> QED BY <1>8, <1>13, <1>15

-----------------------------------------------------------------------------
(* The one rule that refers to a loop from outside.                        *)
LEMMA OwnerFacts ==
    ASSUME NEW g \in Inputs, NEW loop \in Loops(g), Owners(g, loop) # {}
    PROVE  /\ Owner(g, loop) \in DOMAIN g /\ g[Owner(g, loop)].name \in NamesOf(g)
           /\ \A p \in Owners(g, loop) : p = Owner(g, loop)
<1>1. \A p \in Owners(g, loop), q \in Owners(g, loop) : p = q
  BY Standing DEF LoopsStand
<1>2. PICK o \in Owners(g, loop) : TRUE
  OBVIOUS
<1>3. o \in DOMAIN g /\ o \in Int
  BY <1>2, Standing DEF Owners
<1>4. \A q \in Owners(g, loop) : o <= q
  BY <1>1, <1>3
<1>5. Owner(g, loop) \in Owners(g, loop)
  BY <1>4 DEF Owner
<1>6. Owner(g, loop) \in DOMAIN g
  BY <1>5 DEF Owners
<1> QED BY <1>1, <1>5, <1>6 DEF NamesOf

(* A push that comes to a zone is made in it, and is one that loop awaits  *)
(* the end of, unless what follows it can vanish.                          *)
LEMMA ZoneIsClosed ==
    ASSUME NEW g \in Inputs, NEW loop \in Loops(g), OwnSuffixCounts(g, loop),
           NEW x \in Places(g), NEW q \in Zone(g, loop), g[q].name = TargetOf(g, x)
    PROVE  /\ x[1] \in Zone(g, loop)
           /\ ~CanVanish(g, x) => Owners(g, loop) # {} /\ x \in Pending(g, loop)
<1>1. x[1] \in DOMAIN g
  BY PlaceFacts
<1> DEFINE carries == RefCallersOf(g, g[Owner(g, loop)].name)
<1>2. ~CanVanish(g, x) => SuffixOf(g, x) # <<>>
  BY DEF CanVanish, SeqVanishes
<1>3. CASE Owners(g, loop) # {} /\ g[q].name \in carries
  <2>1. g[x[1]].name \in carries
    BY <1>3, OwnerFacts, CallersFacts
  <2>2. x[1] \in Zone(g, loop)
    BY <1>1, <1>3, <2>1 DEF Zone
  <2>3. ~CanVanish(g, x) => x \in Pending(g, loop)
    BY <1>2, <1>3 DEF Pending
  <2> QED BY <1>3, <2>2, <2>3
<1>4. CASE ~(Owners(g, loop) # {} /\ g[q].name \in carries)
  <2>1. q = loop
    BY <1>4 DEF Zone
  <2>2. CanVanish(g, x)
    BY <1>4, <2>1 DEF OwnSuffixCounts
  <2>3. CASE x[1] = loop
    BY <1>1, <2>2, <2>3 DEF Zone
  <2>4. CASE x[1] # loop
    <3>1. x[1] \in Owners(g, loop)
      BY <1>1, <2>1, <2>4, RefersByPlace DEF Owners
    <3>2. x[1] = Owner(g, loop)
      BY <3>1, OwnerFacts
    <3>3. g[x[1]].name \in carries
      BY <3>1, <3>2, OwnerFacts, CallersFacts
    <3>4. x[1] \in Zone(g, loop)
      BY <1>1, <3>1, <3>3 DEF Zone
    <3> QED BY <2>2, <3>4
  <2> QED BY <2>3, <2>4
<1> QED BY <1>3, <1>4

(* Loops with one counter compete for the same tokens.                     *)
LEMMA CopiesCompeteAlike ==
    ASSUME NEW g \in Inputs, NEW loop \in Loops(g), NEW copy \in Loops(g),
           g[copy].guard = g[loop].guard, NEW x
    PROVE  Charge(g, copy, x) = Charge(g, loop, x)
<1>1. FirstOfLoop(g, copy) = FirstOfLoop(g, loop)
  BY Standing DEF LoopsStand
<1> QED BY <1>1 DEF Charge, Competing

(* What is awaited of a push is a place that must be followed.              *)
LEMMA PendingFacts ==
    ASSUME NEW g, NEW loop, NEW x \in Pending(g, loop)
    PROVE  x \in Places(g) /\ ~CanVanish(g, x)
BY DEF Pending

(* A zone is made of rules, and 0 is none.                                 *)
LEMMA ZoneFacts ==
    ASSUME NEW g \in Inputs, NEW loop
    PROVE  0 \notin Zone(g, loop)
BY Standing DEF Zone

-----------------------------------------------------------------------------
(* The initial states and each action.                                     *)
LEMMA InitInv == Init => DebtInv
<1> SUFFICES ASSUME Init PROVE DebtInv
  OBVIOUS
<1>1. grammar \in Inputs /\ next = 1 /\ at = 0 /\ owes = {} /\ depth = 0
  BY DEF Init
<1>2. Len(grammar) \in Nat \ {0} /\ DOMAIN grammar = 1..Len(grammar)
  BY <1>1, Standing
<1>3. \A x \in Places(grammar) : debt[x] = NoDebt
  BY DEF Init
<1>4. DOMAIN NoDebt = {} /\ NoDebt = [c \in DOMAIN NoDebt |-> NoDebt[c]]
  BY DEF NoDebt
<1>5. TypeInv
  <2>1. n \in [Counters(grammar) -> Nat]
    BY DEF Init
  <2>2. DOMAIN guard = DOMAIN grammar /\ DOMAIN owed = DOMAIN grammar /\ DOMAIN debt = Places(grammar)
    BY DEF Init
  <2>3. ASSUME NEW x \in Places(grammar) PROVE debt[x] = [c \in DOMAIN debt[x] |-> debt[x][c]]
    BY <1>3, <1>4
  <2>4. next \in 1..(Len(grammar) + 1) /\ at \in 0..Len(grammar) /\ depth \in Nat
    BY <1>1, <1>2
  <2> QED BY <1>1, <2>1, <2>2, <2>3, <2>4 DEF TypeInv
<1>6. LoopsInv
  <2> SUFFICES ASSUME NEW loop \in Loops(grammar)
               PROVE  guard[loop] = grammar[loop].guard /\ ~(loop < next)
    BY DEF LoopsInv
  <2>1. loop \in DOMAIN grammar
    BY DEF Loops
  <2>2. guard = [p \in DOMAIN grammar |-> grammar[p].guard]
    BY DEF Init
  <2>3. guard[loop] = grammar[loop].guard
    BY <2>1, <2>2
  <2>4. ~(loop < 1)
    BY <1>2, <2>1
  <2> QED BY <1>1, <2>3, <2>4
<1>7. DebtsInv
  BY <1>3, <1>4 DEF DebtsInv
<1>8. ParseInv
  <2>1. \A c \in Counters(grammar) : n[c] = 0
    BY DEF Init
  <2>2. \A loop \in Loops(grammar) : at \notin Zone(grammar, loop)
    BY <1>1, ZoneFacts
  <2> QED BY <1>1, <2>1, <2>2 DEF ParseInv
<1> QED BY <1>5, <1>6, <1>7, <1>8 DEF DebtInv

(* While the rules are looked at, no parse has begun.                      *)
LEMMA NotYetParsing ==
    ASSUME DebtInv, next <= Len(grammar)
    PROVE  at = 0
BY Standing DEF DebtInv, TypeInv, ParseInv, Settled

LEMMA ParseKept ==
    ASSUME DebtInv, at = 0, UNCHANGED <<grammar, at, n, depth, owes>>
    PROVE  ParseInv'
<1>1. grammar \in Inputs /\ at' = 0 /\ grammar' = grammar /\ owes' = owes /\ n' = n
  BY DEF DebtInv, TypeInv
<1>2. owes = {} /\ \A c \in Counters(grammar) : n[c] = 0
  BY DEF DebtInv, ParseInv
<1>3. \A loop \in Loops(grammar) : 0 \notin Zone(grammar, loop)
  BY <1>1, ZoneFacts
<1>4. owes' = {} /\ \A c \in Counters(grammar') : n'[c] = 0
  BY <1>1, <1>2
<1>5. \A loop \in Loops(grammar') : at' \notin Zone(grammar', loop)
  BY <1>1, <1>3
<1> QED BY <1>1, <1>4, <1>5 DEF ParseInv

LEMMA PassOverInv == DebtInv /\ PassOver => DebtInv'
<1> SUFFICES ASSUME DebtInv, PassOver PROVE DebtInv'
  OBVIOUS
<1>1. /\ grammar \in Inputs /\ next \in 1..(Len(grammar) + 1)
      /\ DOMAIN guard = DOMAIN grammar /\ DOMAIN owed = DOMAIN grammar /\ DOMAIN debt = Places(grammar)
  BY DEF DebtInv, TypeInv
<1>2. Len(grammar) \in Nat \ {0} /\ DOMAIN grammar = 1..Len(grammar)
  BY <1>1, Standing
<1>3. /\ next <= Len(grammar) /\ (next \in Loops(grammar) => ~Contested(grammar, next))
      /\ guard' = [guard EXCEPT ![next] = NoGuard] /\ next' = next + 1
      /\ UNCHANGED <<grammar, owed, debt>> /\ UNCHANGED parseVars
  BY DEF PassOver
<1>4. next \in DOMAIN grammar
  BY <1>1, <1>2, <1>3
<1>5. DOMAIN guard' = DOMAIN guard /\ guard'[next] = NoGuard
      /\ \A p \in DOMAIN grammar : p # next => guard'[p] = guard[p]
  BY <1>1, <1>3, <1>4
<1>6. TypeInv'
  <2>1. next' \in 1..(Len(grammar) + 1)
    BY <1>1, <1>2, <1>3
  <2> QED BY <1>1, <1>3, <1>5, <2>1 DEF DebtInv, TypeInv, parseVars
<1>7. LoopsInv'
  <2> SUFFICES ASSUME NEW loop \in Loops(grammar)
               PROVE  /\ next' <= loop => guard'[loop] = grammar[loop].guard
                      /\ loop < next' /\ ~Contested(grammar, loop) => guard'[loop] = NoGuard
                      /\ loop < next' /\ Contested(grammar, loop) =>
                            /\ guard'[loop] = grammar[loop].guard
                            /\ owed[loop] = Owed(grammar, loop)
                            /\ \A x \in Pending(grammar, loop) : grammar[loop].guard \in DOMAIN debt[x]
    BY <1>3 DEF LoopsInv
  <2>1. loop \in DOMAIN grammar
    BY DEF Loops
  <2>2. loop \in Int /\ next \in Int /\ next' = next + 1
    BY <1>1, <1>2, <1>3, <2>1
  <2>3. CASE loop = next
    <3>1. ~Contested(grammar, loop) /\ guard'[loop] = NoGuard /\ ~(next' <= loop)
      BY <1>3, <1>5, <2>2, <2>3
    <3> QED BY <3>1
  <2>4. CASE loop # next
    <3>1. guard'[loop] = guard[loop]
      BY <1>5, <2>1, <2>4
    <3>2. (next' <= loop => next <= loop) /\ (loop < next' => loop < next)
      BY <2>2, <2>4
    <3> QED BY <3>1, <3>2 DEF DebtInv, LoopsInv
  <2> QED BY <2>3, <2>4
<1>8. DebtsInv'
  <2> SUFFICES ASSUME NEW x \in Places(grammar), NEW c \in DOMAIN debt[x]
               PROVE  \E loop \in Loops(grammar) :
                         /\ loop < next' /\ Contested(grammar, loop) /\ grammar[loop].guard = c
                         /\ x \in Pending(grammar, loop)
                         /\ debt[x][c] = Charge(grammar, loop, x)
    BY <1>3 DEF DebtsInv
  <2>1. PICK loop \in Loops(grammar) :
               /\ loop < next /\ Contested(grammar, loop) /\ grammar[loop].guard = c
               /\ x \in Pending(grammar, loop)
               /\ debt[x][c] = Charge(grammar, loop, x)
    BY DEF DebtInv, DebtsInv
  <2>2. loop < next'
    BY <1>1, <1>2, <1>3, <2>1 DEF Loops
  <2> QED BY <2>1, <2>2
<1>9. ParseInv'
  BY <1>3, NotYetParsing, ParseKept DEF parseVars
<1> QED BY <1>6, <1>7, <1>8, <1>9 DEF DebtInv

LEMMA SettleLoopInv == DebtInv /\ SettleLoop => DebtInv'
<1> SUFFICES ASSUME DebtInv, SettleLoop PROVE DebtInv'
  OBVIOUS
<1>1. /\ grammar \in Inputs /\ next \in 1..(Len(grammar) + 1)
      /\ DOMAIN guard = DOMAIN grammar /\ DOMAIN owed = DOMAIN grammar /\ DOMAIN debt = Places(grammar)
  BY DEF DebtInv, TypeInv
<1>2. Len(grammar) \in Nat \ {0} /\ DOMAIN grammar = 1..Len(grammar)
  BY <1>1, Standing
<1>3. /\ next <= Len(grammar) /\ next \in Loops(grammar) /\ Contested(grammar, next)
      /\ owed' = [owed EXCEPT ![next] = Owed(grammar, next)] /\ next' = next + 1
      /\ debt' = [x \in DOMAIN debt |-> IF x \in Pending(grammar, next) THEN Charged(x, next) ELSE debt[x]]
      /\ UNCHANGED <<grammar, guard>> /\ UNCHANGED parseVars
  BY DEF SettleLoop
<1>4. next \in DOMAIN grammar
  BY <1>1, <1>2, <1>3
<1>5. PICK counter : counter = grammar[next].guard
  OBVIOUS
<1>6. /\ DOMAIN owed' = DOMAIN owed /\ owed'[next] = Owed(grammar, next)
      /\ \A p \in DOMAIN grammar : p # next => owed'[p] = owed[p]
  BY <1>1, <1>3, <1>4
<1>7. DOMAIN debt' = Places(grammar)
  BY <1>1, <1>3
<1>8. ASSUME NEW x \in Pending(grammar, next)
      PROVE  /\ DOMAIN debt'[x] = DOMAIN debt[x] \cup {counter}
             /\ debt'[x][counter] = Charge(grammar, next, x)
             /\ \A c \in DOMAIN debt[x] : c # counter => debt'[x][c] = debt[x][c]
             /\ debt'[x] = [c \in DOMAIN debt'[x] |-> debt'[x][c]]
  <2>1. x \in Places(grammar)
    BY PendingFacts
  <2>2. debt'[x] = Charged(x, next)
    BY <1>1, <1>3, <2>1
  <2>3. debt'[x] = [d \in DOMAIN debt[x] \cup {counter} |->
                      IF d = counter THEN Charge(grammar, next, x) ELSE debt[x][d]]
    BY <1>5, <2>2 DEF Charged, With, Charge
  <2> QED BY <2>3
<1>9. ASSUME NEW x \in Places(grammar), x \notin Pending(grammar, next)
      PROVE  debt'[x] = debt[x]
  BY <1>1, <1>3, <1>9
<1>10. TypeInv'
  <2>1. next' \in 1..(Len(grammar) + 1)
    BY <1>1, <1>2, <1>3
  <2>2. ASSUME NEW x \in Places(grammar) PROVE debt'[x] = [c \in DOMAIN debt'[x] |-> debt'[x][c]]
    <3>1. CASE x \in Pending(grammar, next)
      BY <1>8, <3>1
    <3>2. CASE x \notin Pending(grammar, next)
      BY <1>9, <3>2 DEF DebtInv, TypeInv
    <3> QED BY <3>1, <3>2
  <2> QED BY <1>1, <1>3, <1>6, <1>7, <2>1, <2>2 DEF DebtInv, TypeInv, parseVars
<1>11. LoopsInv'
  <2> SUFFICES ASSUME NEW loop \in Loops(grammar)
               PROVE  /\ next' <= loop => guard[loop] = grammar[loop].guard
                      /\ loop < next' /\ ~Contested(grammar, loop) => guard[loop] = NoGuard
                      /\ loop < next' /\ Contested(grammar, loop) =>
                            /\ guard[loop] = grammar[loop].guard
                            /\ owed'[loop] = Owed(grammar, loop)
                            /\ \A x \in Pending(grammar, loop) : grammar[loop].guard \in DOMAIN debt'[x]
    BY <1>3 DEF LoopsInv
  <2>1. loop \in DOMAIN grammar
    BY DEF Loops
  <2>2. loop \in Int /\ next \in Int /\ next' = next + 1
    BY <1>1, <1>2, <1>3, <2>1
  <2>3. CASE loop = next
    <3>1. guard[loop] = grammar[loop].guard
      BY <2>2, <2>3 DEF DebtInv, LoopsInv
    <3>2. ~(next' <= loop)
      BY <2>2, <2>3
    <3>3. \A x \in Pending(grammar, loop) : grammar[loop].guard \in DOMAIN debt'[x]
      BY <1>5, <1>8, <2>3
    <3> QED BY <1>3, <1>6, <2>3, <3>1, <3>2, <3>3
  <2>4. CASE loop # next
    <3>1. owed'[loop] = owed[loop]
      BY <1>6, <2>1, <2>4
    <3>2. (next' <= loop => next <= loop) /\ (loop < next' => loop < next)
      BY <2>2, <2>4
    <3>3. \A x \in Places(grammar) : DOMAIN debt[x] \subseteq DOMAIN debt'[x]
      BY <1>8, <1>9
    <3>4. \A x \in Pending(grammar, loop) : x \in Places(grammar)
      BY PendingFacts
    <3> QED BY <3>1, <3>2, <3>3, <3>4 DEF DebtInv, LoopsInv
  <2> QED BY <2>3, <2>4
<1>12. DebtsInv'
  <2> SUFFICES ASSUME NEW x \in Places(grammar), NEW c \in DOMAIN debt'[x]
               PROVE  \E loop \in Loops(grammar) :
                         /\ loop < next' /\ Contested(grammar, loop) /\ grammar[loop].guard = c
                         /\ x \in Pending(grammar, loop)
                         /\ debt'[x][c] = Charge(grammar, loop, x)
    BY <1>3 DEF DebtsInv
  <2>1. CASE x \in Pending(grammar, next) /\ c = counter
    <3>1. debt'[x][c] = Charge(grammar, next, x)
      BY <1>8, <2>1
    <3>2. next < next'
      BY <1>1, <1>3
    <3> QED BY <1>3, <1>5, <2>1, <3>1, <3>2
  <2>2. CASE ~(x \in Pending(grammar, next) /\ c = counter)
    <3>1. c \in DOMAIN debt[x] /\ debt'[x][c] = debt[x][c]
      <4>1. CASE x \in Pending(grammar, next)
        BY <1>8, <2>2, <4>1
      <4>2. CASE x \notin Pending(grammar, next)
        BY <1>9, <4>2
      <4> QED BY <4>1, <4>2
    <3>2. PICK loop \in Loops(grammar) :
                 /\ loop < next /\ Contested(grammar, loop) /\ grammar[loop].guard = c
                 /\ x \in Pending(grammar, loop)
                 /\ debt[x][c] = Charge(grammar, loop, x)
      BY <3>1 DEF DebtInv, DebtsInv
    <3>3. loop < next'
      BY <1>1, <1>2, <1>3, <3>2 DEF Loops
    <3> QED BY <3>1, <3>2, <3>3
  <2> QED BY <2>1, <2>2
<1>13. ParseInv'
  BY <1>3, NotYetParsing, ParseKept DEF parseVars
<1> QED BY <1>10, <1>11, <1>12, <1>13 DEF DebtInv

(* A parse keeps what the annotation left.                                 *)
LEMMA AnnotationKept ==
    ASSUME DebtInv, UNCHANGED <<grammar, next, guard, owed, debt>>
    PROVE  LoopsInv' /\ DebtsInv'
BY DEF DebtInv, LoopsInv, DebtsInv

(* Nothing competes with a loop when nothing is needed.                    *)
LEMMA NothingNeeded ==
    ASSUME NEW g, NEW loop
    PROVE  Competing(g, loop, {}) = {}
BY DEF Competing

LEMMA EnterInv == DebtInv /\ Enter => DebtInv'
<1> SUFFICES ASSUME DebtInv, Enter PROVE DebtInv'
  OBVIOUS
<1>1. grammar \in Inputs /\ Len(grammar) \in Nat \ {0}
  BY Standing DEF DebtInv, TypeInv
<1>2. /\ Settled /\ at = 0 /\ at' = 1
      /\ UNCHANGED <<grammar, next, guard, owed, debt>> /\ UNCHANGED <<n, depth, owes>>
  BY DEF Enter
<1>3. LoopsInv' /\ DebtsInv'
  BY <1>2, AnnotationKept
<1>4. TypeInv'
  <2>1. at' \in 0..Len(grammar)
    BY <1>1, <1>2
  <2> QED BY <1>2, <2>1 DEF DebtInv, TypeInv
<1>5. ParseInv'
  <2>1. owes = {} /\ \A c \in Counters(grammar) : n[c] = 0
    BY <1>2 DEF DebtInv, ParseInv
  <2>2. ASSUME NEW loop \in Loops(grammar)
        PROVE  n[grammar[loop].guard] # 0 <=> Competing(grammar, loop, owes) # {}
    <3>1. grammar[loop].guard \in Counters(grammar)
      BY DEF Counters
    <3> QED BY <2>1, <3>1, NothingNeeded
  <2>3. Settled' /\ at' # 0
    BY <1>2 DEF Settled
  <2> QED BY <1>2, <2>1, <2>2, <2>3 DEF ParseInv
<1> QED BY <1>3, <1>4, <1>5 DEF DebtInv

(* Only a push that something must follow is charged.                      *)
LEMMA ChargedMustMatch ==
    ASSUME DebtInv, NEW x \in Places(grammar), NEW c \in DOMAIN debt[x]
    PROVE  ~CanVanish(grammar, x) /\ debt[x][c] \in {0, 1}
<1>1. PICK loop \in Loops(grammar) :
             x \in Pending(grammar, loop) /\ debt[x][c] = Charge(grammar, loop, x)
  BY DEF DebtInv, DebtsInv
<1>2. Charge(grammar, loop, x) \in {0, 1}
  BY DEF Charge
<1> QED BY <1>1, <1>2, PendingFacts

LEMMA PushInv == ASSUME NEW x \in Places(grammar) PROVE DebtInv /\ Push(x) => DebtInv'
<1> SUFFICES ASSUME DebtInv, Push(x) PROVE DebtInv'
  OBVIOUS
<1> DEFINE g == grammar
           q == CHOOSE p \in DOMAIN grammar : grammar[p].name = TargetOf(grammar, x)
<1>1. g \in Inputs /\ Len(g) \in Nat \ {0} /\ DOMAIN g = 1..Len(g)
  BY Standing DEF DebtInv, TypeInv
<1>2. q \in DOMAIN g /\ g[q].name = TargetOf(g, x)
  BY <1>1, PlaceFacts
<1>3. /\ at = x[1] /\ at' = q /\ depth' = depth + 1
      /\ n' = [c \in DOMAIN n |-> IF c \notin DOMAIN debt[x] THEN n[c]
                                  ELSE IF debt[x][c] = 0 THEN 0 ELSE n[c] + debt[x][c]]
      /\ owes' = IF CanVanish(g, x) THEN owes ELSE Needs(g, x)
      /\ UNCHANGED <<grammar, next, guard, owed, debt>>
  BY DEF Push
<1> HIDE DEF q
<1>4. at \in DOMAIN g /\ at # 0 /\ Settled
  <2>1. at \in DOMAIN g
    BY <1>1, <1>3, PlaceFacts
  <2>2. at # 0
    BY <1>1, <2>1
  <2> QED BY <2>1, <2>2 DEF DebtInv, ParseInv
<1>5. LoopsInv' /\ DebtsInv'
  BY <1>3, AnnotationKept
<1>6. n \in [Counters(g) -> Nat] /\ DOMAIN n = Counters(g)
  BY DEF DebtInv, TypeInv
<1>7. TypeInv'
  <2>1. at' \in 0..Len(g)
    BY <1>1, <1>2, <1>3
  <2>2. ASSUME NEW c \in Counters(g) PROVE n'[c] \in Nat
    <3>1. CASE c \notin DOMAIN debt[x]
      BY <1>3, <1>6, <3>1
    <3>2. CASE c \in DOMAIN debt[x]
      <4>1. debt[x][c] \in {0, 1}
        BY <3>2, ChargedMustMatch
      <4> QED BY <1>3, <1>6, <3>2, <4>1
    <3> QED BY <3>1, <3>2
  <2>3. n' \in [Counters(g) -> Nat]
    BY <1>3, <1>6, <2>2
  <2>4. depth' \in Nat
    BY <1>3 DEF DebtInv, TypeInv
  <2> QED BY <1>3, <2>1, <2>3, <2>4 DEF DebtInv, TypeInv
<1>8. ASSUME NEW loop \in Loops(g), OwnSuffixCounts(g, loop), q \in Zone(g, loop)
      PROVE  /\ \/ owes' = {}
                \/ Owners(g, loop) # {} /\ \E y \in Pending(g, loop) : owes' = Needs(g, y)
             /\ Contested(g, loop) => (n'[g[loop].guard] # 0 <=> Competing(g, loop, owes') # {})
  <2>1. PICK c \in Counters(g) : c = g[loop].guard
    BY DEF Counters
  <2>2. /\ at \in Zone(g, loop)
        /\ ~CanVanish(g, x) => Owners(g, loop) # {} /\ x \in Pending(g, loop)
    BY <1>1, <1>2, <1>3, <1>8, ZoneIsClosed
  <2>3. CASE CanVanish(g, x)
    <3>1. owes' = owes /\ c \notin DOMAIN debt[x]
      BY <1>3, <2>3, ChargedMustMatch
    <3>2. n'[c] = n[c]
      BY <1>3, <1>6, <3>1
    <3>3. /\ \/ owes = {}
             \/ Owners(g, loop) # {} /\ \E y \in Pending(g, loop) : owes = Needs(g, y)
          /\ Contested(g, loop) => (n[c] # 0 <=> Competing(g, loop, owes) # {})
      BY <1>8, <2>1, <2>2 DEF DebtInv, ParseInv
    <3> QED BY <2>1, <3>1, <3>2, <3>3
  <2>4. CASE ~CanVanish(g, x)
    <3>1. owes' = Needs(g, x) /\ Owners(g, loop) # {} /\ x \in Pending(g, loop)
      BY <1>3, <2>2, <2>4
    <3>2. ASSUME Contested(g, loop) PROVE n'[c] # 0 <=> Competing(g, loop, owes') # {}
      <4>1. loop < next
        BY <1>1, <1>4 DEF Settled, Loops, DebtInv, TypeInv
      <4>2. c \in DOMAIN debt[x]
        BY <2>1, <3>1, <3>2, <4>1 DEF DebtInv, LoopsInv
      <4>3. debt[x][c] = Charge(g, loop, x)
        <5>1. PICK copy \in Loops(g) : g[copy].guard = c /\ debt[x][c] = Charge(g, copy, x)
          BY <4>2 DEF DebtInv, DebtsInv
        <5> QED BY <1>1, <2>1, <5>1, CopiesCompeteAlike
      <4>4. n'[c] = IF Charge(g, loop, x) = 0 THEN 0 ELSE n[c] + Charge(g, loop, x)
        BY <1>3, <1>6, <4>2, <4>3
      <4>5. n[c] \in Nat
        BY <1>6
      <4>6. CASE Competing(g, loop, Needs(g, x)) # {}
        <5>1. n'[c] = n[c] + 1
          BY <4>4, <4>6 DEF Charge
        <5> QED BY <3>1, <4>5, <4>6, <5>1
      <4>7. CASE Competing(g, loop, Needs(g, x)) = {}
        <5>1. n'[c] = 0
          BY <4>4, <4>7 DEF Charge
        <5> QED BY <3>1, <4>7, <5>1
      <4> QED BY <4>6, <4>7
    <3> QED BY <2>1, <3>1, <3>2
  <2> QED BY <2>3, <2>4
<1>9. ParseInv'
  <2>1. Settled' /\ at' # 0
    BY <1>1, <1>2, <1>3, <1>4 DEF Settled
  <2> QED BY <1>3, <1>8, <2>1 DEF ParseInv
<1> QED BY <1>5, <1>7, <1>9 DEF DebtInv

LEMMA NextInv == DebtInv /\ [Next]_vars => DebtInv'
<1> SUFFICES ASSUME DebtInv, [Next]_vars PROVE DebtInv'
  OBVIOUS
<1>1. CASE PassOver
  BY <1>1, PassOverInv
<1>2. CASE SettleLoop
  BY <1>2, SettleLoopInv
<1>3. CASE Enter
  BY <1>3, EnterInv
<1>4. CASE \E x \in Places(grammar) : Push(x)
  BY <1>4, PushInv
<1>5. CASE UNCHANGED vars
  <2>1. UNCHANGED <<grammar, next, guard, owed, debt>> /\ UNCHANGED <<at, n, depth, owes>>
    BY <1>5 DEF vars
  <2> QED BY <2>1 DEF DebtInv, TypeInv, LoopsInv, DebtsInv, ParseInv, Settled
<1> QED BY <1>1, <1>2, <1>3, <1>4, <1>5 DEF Next, Parsed, AtLeaf

(* The annotation and what a parse makes of it, state by state: every loop *)
(* looked at is guarded exactly when some push owes it a token, every      *)
(* charge is for such a loop, and in all the rules from which a parse can  *)
(* come to a loop whose own rule's suffix counts, beside copies that share *)
(* its counter and of which that is not so, the counter tells whether what *)
(* is needed next competes with it (resolve_suffix_debts).                 *)
THEOREM DebtInvariant == Spec => []DebtInv
<1>1. Init => DebtInv
  BY InitInv
<1>2. DebtInv /\ [Next]_vars => DebtInv'
  BY NextInv
<1> QED BY <1>1, <1>2, PTL DEF Spec

-----------------------------------------------------------------------------
(* In a loop whose own rule's suffix counts, through any number of pushes, *)
(* the counters hold back exactly the tokens some frame above needs.       *)
LEMMA HeldBack == DebtInv => HeldIffOwed
<1> SUFFICES ASSUME DebtInv, at # 0, at \in Loops(grammar), OwnSuffixCounts(grammar, at),
                    NEW t \in FirstOfLoop(grammar, at)
             PROVE  /\ (\E u \in owes : Collide(t, u)) => Held(at, t)
                    /\ Held(at, t) => Competing(grammar, at, owes) # {}
  BY DEF HeldIffOwed
<1>1. grammar \in Inputs /\ DOMAIN grammar = 1..Len(grammar) /\ Len(grammar) \in Nat
  BY Standing DEF DebtInv, TypeInv
<1>2. at \in Zone(grammar, at) /\ at < next
  <2>1. at \in DOMAIN grammar
    BY DEF Loops
  <2>2. at < next
    BY <1>1, <2>1 DEF DebtInv, TypeInv, ParseInv, Settled
  <2> QED BY <2>1, <2>2 DEF Zone
<1>3. /\ \/ owes = {}
         \/ Owners(grammar, at) # {} /\ \E x \in Pending(grammar, at) : owes = Needs(grammar, x)
      /\ Contested(grammar, at) =>
            (n[grammar[at].guard] # 0 <=> Competing(grammar, at, owes) # {})
  BY <1>2 DEF DebtInv, ParseInv
<1>4. /\ ~Contested(grammar, at) => guard[at] = NoGuard
      /\ Contested(grammar, at) => guard[at] = grammar[at].guard /\ owed[at] = Owed(grammar, at)
  BY <1>2 DEF DebtInv, LoopsInv
<1>5. ASSUME NEW u \in owes, Collide(t, u) PROVE Held(at, t)
  <2>1. PICK x \in Pending(grammar, at) : Owners(grammar, at) # {} /\ owes = Needs(grammar, x)
    BY <1>3
  <2>2. t \in Competing(grammar, at, owes)
    BY <1>5 DEF Competing
  <2>3. t \in Owed(grammar, at)
    BY <2>1, <2>2 DEF Owed
  <2>4. Contested(grammar, at)
    BY <2>1, <2>3 DEF Contested
  <2>5. n[grammar[at].guard] # 0
    BY <1>3, <2>2, <2>4
  <2>6. grammar[at].guard # NoGuard
    BY DEF Loops
  <2> QED BY <1>4, <2>3, <2>4, <2>5, <2>6 DEF Held
<1>6. ASSUME Held(at, t) PROVE Competing(grammar, at, owes) # {}
  <2>1. guard[at] # NoGuard /\ n[guard[at]] # 0
    BY <1>6 DEF Held
  <2>2. Contested(grammar, at) /\ guard[at] = grammar[at].guard
    BY <1>4, <2>1
  <2> QED BY <1>3, <2>1, <2>2
<1> QED BY <1>5, <1>6

(* A loop whose own rule's suffix counts never eats a token that a frame   *)
(* above it needs next, through any pushes, and is held back only when     *)
(* such a frame competes with it: for every grammar of the shape           *)
(* elimination leaves, the copies of loops that substitution made          *)
(* included, every overlap of tokens and parses of any depth               *)
(* (resolve_suffix_debts).                                                 *)
THEOREM LoopsHeldIffOwed == Spec => []HeldIffOwed
BY DebtInvariant, HeldBack, PTL

(* The item of a loop, which is that item and itself or nothing, can       *)
(* vanish, so what a push of it owes is nothing: emit_repeat_loop never    *)
(* meets an item that carries a debt, and never refuses a grammar for one  *)
(* (loop_item_of).                                                         *)
LEMMA ItemsVanish == DebtInv => ItemsCarryNoDebt
<1> SUFFICES ASSUME DebtInv, NEW x \in Places(grammar),
                    SuffixOf(grammar, x) = << Ref(grammar[x[1]].name) >>,
                    \E k \in DOMAIN grammar[x[1]].alts : grammar[x[1]].alts[k] = <<>>
             PROVE  debt[x] = NoDebt
  BY DEF ItemsCarryNoDebt
<1>1. grammar \in Inputs /\ x[1] \in DOMAIN grammar
  BY PlaceFacts DEF DebtInv, TypeInv
<1>2. grammar[x[1]].name \in NullableOf(grammar)
  BY <1>1, Standing DEF Resolved
<1>3. PICK el : el = Ref(grammar[x[1]].name)
  OBVIOUS
<1>4. Vanishes(el, NullableOf(grammar))
  BY <1>2, <1>3 DEF Vanishes, IsRef, Ref
<1>5. DOMAIN << el >> = {1} /\ << el >>[1] = el
  OBVIOUS
<1>6. CanVanish(grammar, x)
  BY <1>3, <1>4, <1>5 DEF CanVanish, SeqVanishes
<1>7. DOMAIN debt[x] = {}
  BY <1>6, ChargedMustMatch
<1>8. debt[x] = [c \in DOMAIN debt[x] |-> debt[x][c]]
  BY DEF DebtInv, TypeInv
<1>9. debt[x] = [c \in {} |-> debt[x][c]]
  BY <1>7, <1>8
<1> QED BY <1>9 DEF NoDebt

(* No push of the item of a loop is charged, in any grammar: the error     *)
(* that emit_repeat_loop answers such an item with is never returned for   *)
(* one (loop_item_of).                                                     *)
THEOREM LoopItemsCarryNoDebt == Spec => []ItemsCarryNoDebt
BY DebtInvariant, ItemsVanish, PTL
=============================================================================
