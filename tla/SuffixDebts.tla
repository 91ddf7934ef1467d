----------------------------- MODULE SuffixDebts ----------------------------
(***************************************************************************)
(* resolve_suffix_debts (rs/src/analysis.rs), one action per iteration of  *)
(* its loop over the rules, and the pushes of a parse over the grammar it  *)
(* annotates.  A loop that left-recursion elimination wrote eats greedily; *)
(* a token some rule above it still needs is owed, and a counter carried   *)
(* down by the pushes is to hold the loop back exactly then.               *)
(***************************************************************************)
EXTENDS Elements

CONSTANTS
    Inputs,             \* desugared grammars, their loops guarded:
                        \* productions [name, alts, guard]
    FirstSetsOf(_),     \* compute_first_sets of a grammar: FIRST by rule,
    NullableOf(_),      \* and the rules that can vanish
    Overlaps,           \* pairs of tokens the lexer can take for each other
    Pushes              \* how deep a parse is followed

VARIABLES
    grammar,
    next,               \* the rule looked at next
    guard,              \* the counter each rule's branches are held back by
    owed,               \* the tokens those branches begin with
    debt,               \* what a push through each reference does to counters
    at, n, depth,       \* a parse: the rule it is in, its counters, its depth
    owes                \* what the innermost frame that needs something needs

vars == <<grammar, next, guard, owed, debt, at, n, depth, owes>>
parseVars == <<at, n, depth, owes>>

-----------------------------------------------------------------------------
(* Which rule refers to which, and what follows a reference.               *)
Refers(g, p, r) == \E k \in DOMAIN g[p].alts : \E i \in DOMAIN g[p].alts[k] : IsRefTo(g[p].alts[k][i], r)

Needs(g, x)    == FirstOfSeq(SuffixOf(g, x), FirstSetsOf(g), NullableOf(g))
CanVanish(g, x) == SeqVanishes(SuffixOf(g, x), NullableOf(g))

Loops(g)    == { p \in DOMAIN g : g[p].guard # NoGuard }
Counters(g) == { g[p].guard : p \in Loops(g) }

\* "There is exactly one candidate"; the first is taken.
Owners(g, loop) == { p \in DOMAIN g \ {loop} : Refers(g, p, g[loop].name) }
Owner(g, loop)  == CHOOSE p \in Owners(g, loop) : \A q \in Owners(g, loop) : p <= q

\* ref_callers_of: the rules from which target can be reached, itself one.
Back(g, names) ==
    names \cup { g[x[1]].name : x \in { y \in Places(g) : TargetOf(g, y) \in names } }
RefCallersOf(g, target) ==
    LET seen[k \in 0..Len(g)] == IF k = 0 THEN {target} ELSE Back(g, seen[k - 1])
    IN  seen[Len(g)]

Collide(t, u) == t = u \/ <<t, u>> \in Overlaps
FirstOfLoop(g, loop) == FirstSetsOf(g)[g[loop].name]
\* The tokens of the loop that one of the tokens can be taken for.
Competing(g, loop, tokens) == { t \in FirstOfLoop(g, loop) : \E u \in tokens : Collide(t, u) }

\* The pushes that can end inside the loop and leave something to match.
\* A bug: what can vanish is taken to be needed.
PendingAny(g, loop) ==
    LET carries == RefCallersOf(g, g[Owner(g, loop)].name)
    IN  { x \in Places(g) : TargetOf(g, x) \in carries /\ SuffixOf(g, x) # <<>> }
Pending(g, loop) ==
    LET carries == RefCallersOf(g, g[Owner(g, loop)].name)
    IN  { x \in Places(g) : TargetOf(g, x) \in carries /\ SuffixOf(g, x) # <<>> /\ ~CanVanish(g, x) }
Owed(g, loop) == UNION { Competing(g, loop, Needs(g, x)) : x \in Pending(g, loop) }

\* Whether some push owes the loop a token.
Contested(g, loop) == Owners(g, loop) # {} /\ FirstOfLoop(g, loop) # {} /\ Owed(g, loop) # {}

-----------------------------------------------------------------------------
(* What desugaring hands over: rules told apart by name, references to     *)
(* them, and what can vanish among them those with an empty alternative.   *)
Resolved(g) ==
    /\ Len(g) \in Nat \ {0} /\ DOMAIN g = 1..Len(g)
    /\ \A p \in DOMAIN g, q \in DOMAIN g : g[p].name = g[q].name => p = q
    /\ \A x \in Places(g) : TargetOf(g, x) \in NamesOf(g)
    /\ \A p \in DOMAIN g : (\E k \in DOMAIN g[p].alts : g[p].alts[k] = <<>>) => g[p].name \in NullableOf(g)

(* A guarded loop as elimination leaves it, in the rule it was written for *)
(* or in one that substitution copied it to: one rule refers to it besides *)
(* itself, and a copy, which has its counter, begins with what it begins   *)
(* with.                                                                   *)
LoopsStand(g) ==
    \A loop \in Loops(g) :
       /\ \A p \in Owners(g, loop), q \in Owners(g, loop) : p = q
       /\ \A copy \in Loops(g) : g[copy].guard = g[loop].guard => FirstOfLoop(g, copy) = FirstOfLoop(g, loop)

ASSUME InputsAssumption == \A g \in Inputs : Resolved(g) /\ LoopsStand(g)

-----------------------------------------------------------------------------
NoDebt == [c \in {} |-> 0]
With(f, c, v) == [ d \in DOMAIN f \cup {c} |-> IF d = c THEN v ELSE f[d] ]

Init == /\ grammar \in Inputs
        /\ next = 1
        /\ guard = [p \in DOMAIN grammar |-> grammar[p].guard]
        /\ owed = [p \in DOMAIN grammar |-> {}]
        /\ debt = [x \in Places(grammar) |-> NoDebt]
        /\ at = 0 /\ n = [c \in Counters(grammar) |-> 0] /\ depth = 0 /\ owes = {}

\* A rule that is no loop, or a loop that nothing competes with.
PassOver ==
    /\ next <= Len(grammar)
    /\ next \in Loops(grammar) => ~Contested(grammar, next)
    /\ guard' = [guard EXCEPT ![next] = NoGuard]
    /\ next' = next + 1
    /\ UNCHANGED <<grammar, owed, debt, parseVars>>

\* A bug: a suffix that does not compete leaves the counter as it is.
AddOnly(x, loop) == IF Competing(grammar, loop, Needs(grammar, x)) # {}
                    THEN With(debt[x], grammar[loop].guard, 1) ELSE debt[x]
Charged(x, loop) == With(debt[x], grammar[loop].guard,
                         IF Competing(grammar, loop, Needs(grammar, x)) # {} THEN 1 ELSE 0)

SettleLoop ==
    /\ next <= Len(grammar)
    /\ next \in Loops(grammar) /\ Contested(grammar, next)
    /\ owed' = [owed EXCEPT ![next] = Owed(grammar, next)]
    /\ LET pending == Pending(grammar, next)
       IN  debt' = [x \in DOMAIN debt |-> IF x \in pending THEN Charged(x, next) ELSE debt[x]]
    /\ next' = next + 1
    /\ UNCHANGED <<grammar, guard, parseVars>>

Settled == next > Len(grammar)

-----------------------------------------------------------------------------
(* A parse: it enters the first rule, and then pushes.  A push adds to a   *)
(* counter, or clears it when the annotation is 0; the rule pushed starts  *)
(* from the counters of the one that pushes it.                            *)
Enter == /\ Settled /\ at = 0
         /\ at' = 1
         /\ UNCHANGED <<grammar, next, guard, owed, debt, n, depth, owes>>

Push(x) ==
    /\ at = x[1] /\ depth < Pushes
    /\ at' = CHOOSE p \in DOMAIN grammar : grammar[p].name = TargetOf(grammar, x)
    /\ n' = [c \in DOMAIN n |-> IF c \notin DOMAIN debt[x] THEN n[c]
                                ELSE IF debt[x][c] = 0 THEN 0 ELSE n[c] + debt[x][c]]
    /\ depth' = depth + 1
    /\ owes' = IF CanVanish(grammar, x) THEN owes ELSE Needs(grammar, x)
    /\ UNCHANGED <<grammar, next, guard, owed, debt>>

Parsed == Settled /\ depth = Pushes /\ UNCHANGED vars

\* Every rule but a leaf pushes something: a parse ends in one or the other.
AtLeaf == /\ at # 0 /\ \A x \in Places(grammar) : x[1] # at
          /\ UNCHANGED vars

Next == PassOver \/ SettleLoop \/ Enter \/ (\E x \in Places(grammar) : Push(x)) \/ Parsed \/ AtLeaf

Spec == Init /\ [][Next]_vars

-----------------------------------------------------------------------------
\* apply_debt_guard: the branches of a loop that may not run.
Held(loop, t) == guard[loop] # NoGuard /\ t \in owed[loop] /\ n[guard[loop]] # 0

(* What its own rule still needs after a loop counts as owed: nothing must *)
(* follow the loop there, or the loop can come back to that rule, and its  *)
(* push is charged.  Neither holds of a copy that substitution leaves      *)
(* before something mandatory (S = E "+" "x"): that push is never charged. *)
OwnSuffixCounts(g, loop) ==
    \A x \in Places(g) : TargetOf(g, x) = g[loop].name =>
       \/ CanVanish(g, x)
       \/ Owners(g, loop) # {} /\ g[loop].name \in RefCallersOf(g, g[Owner(g, loop)].name)

(* A loop whose own rule's suffix counts never eats a token that a frame   *)
(* above it needs next, through any pushes and beside copies of which that *)
(* is not so, and is held back only when such a frame competes with it:    *)
(* the counter is above zero exactly while the nearest frame that needs    *)
(* something needs a token of the loop (resolve_suffix_debts).             *)
HeldIffOwed ==
    (at # 0 /\ at \in Loops(grammar) /\ OwnSuffixCounts(grammar, at)) =>
       \A t \in FirstOfLoop(grammar, at) :
          /\ (\E u \in owes : Collide(t, u)) => Held(at, t)
          /\ Held(at, t) => Competing(grammar, at, owes) # {}

(* emit_repeat_loop refuses the grammar, with an error that speaks of a    *)
(* defect of the compiler, when an item carries a debt: no push of the     *)
(* item of a loop, which is that item and itself or nothing, is ever       *)
(* charged, so it refuses none (loop_item_of).                             *)
ItemsCarryNoDebt ==
    \A x \in Places(grammar) :
       LET rule == grammar[x[1]]
       IN  SuffixOf(grammar, x) = << Ref(rule.name) >> /\ (\E k \in DOMAIN rule.alts : rule.alts[k] = <<>>)
             => debt[x] = NoDebt
=============================================================================
