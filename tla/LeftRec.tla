------------------------------ MODULE LeftRec ------------------------------
(***************************************************************************)
(* eliminate_left_recursion_keeping (rs/src/leftrec.rs): Elimination, with *)
(* the source tree the pass keeps of every element, the charges that may   *)
(* refuse a rewrite before it is made, the counters that guard a loop, and *)
(* the check of the result that emission makes before it throws the source *)
(* trees away.                                                             *)
(***************************************************************************)
EXTENDS Elimination, RewriteSources, TLC

\* A member of Inputs has a field limits too, which stands for
\* MAX_LEFT_RECURSION_EXPANSION and MAX_LEFT_RECURSION_ELEMENTS.
CONSTANTS
    DebtBase,           \* the counter name of each rule, as its words
    WordLength          \* the words the languages are compared up to

VARIABLES
    limits,             \* [expansion, elements]
    sources,            \* the source tree of every element of prods
    added,              \* elements and alternatives added so far
    gained,             \* alternatives rule i has gained
    debts,              \* the counter names handed out, by rule
    blamed              \* what a refusal says, and of which rule

vars == <<rulesVars, limits, sources, added, gained, debts, blamed>>

Nothing == [what |-> "nothing", rule |-> "none"]

-----------------------------------------------------------------------------
\* A bug: what is left of the repetition has no source.
PresentSourcesShort(el, src) == <<src.kids[1]>>
PresentSources(el, src) ==
    IF Len(Present(el)) = 1 THEN <<src.kids[1]>> ELSE <<src.kids[1], src>>

\* What a substitution or a split adds, floored at zero alternative by
\* alternative as the charge is.
Floor(n) == IF n < 0 THEN 0 ELSE n
ExpansionCost(alt) ==
    Floor(1 + SeqSize(Present(alt[1])) + SeqSize(Tail(alt)) - DeepSize(alt[1]))
SubstitutionCost(p, src) ==
    LET m    == Len(src.alts)
        held == SumOver(src.alts, SeqSize)
        rest(alt) == IF m > 1 THEN SeqSize(Tail(alt)) ELSE 0
        led  == SelectSeq(p.alts, LAMBDA alt : LedBy(alt, src.name))
    IN  SumOver(led, LAMBDA alt : Floor(m * (1 + rest(alt)) + held - (2 + rest(alt))))
AltGain(p, src) ==
    Cardinality({ a \in DOMAIN p.alts : LedBy(p.alts[a], src.name) }) * Floor(Len(src.alts) - 1)

-----------------------------------------------------------------------------
Init ==
    /\ \E given \in Inputs : Begins(given.grammar) /\ limits = given.limits
    /\ sources = [n \in Names |-> AuthoredSources(Find(input, n))]
    /\ added = 0 /\ gained = 0
    /\ debts = <<>>
    /\ blamed = Nothing

Refuse(what, rule) ==
    /\ GiveUp
    /\ blamed' = [what |-> what, rule |-> rule]
    /\ UNCHANGED <<limits, sources, added, gained, debts>>

SplitAlternative ==
    /\ WriteOut
    /\ ExpansionCost(Split) <= limits.elements - added
    /\ LET n == prods[at].name
           s == sources[n][Hiding]
       IN  sources' = [sources EXCEPT ![n] =
              Splice(@, Hiding, <<PresentSources(Split[1], s[1]) \o Tail(s), Tail(s)>>)]
    /\ added' = added + ExpansionCost(Split)
    /\ UNCHANGED <<limits, gained, debts, blamed>>

SplitTooLarge ==
    /\ Splitting
    /\ ExpansionCost(Split) > limits.elements - added
    /\ Refuse("size", prods[at].name)

\* charge_expansion and charge_elements, before anything is copied.
\* A bug: only the first of the two.
FitsAlts(p, src) == AltGain(p, src) <= limits.expansion - gained
Fits(p, src) == /\ AltGain(p, src) <= limits.expansion - gained
                /\ SubstitutionCost(p, src) <= limits.elements - added

Substitute ==
    /\ Inline
    /\ LET p == prods[i]
       IN  /\ Fits(p, Leader)
           /\ gained' = gained + AltGain(p, Leader)
           /\ added' = added + SubstitutionCost(p, Leader)
           /\ sources' = [sources EXCEPT ![p.name] = Inlined(p, Leader, @, sources[Leader.name])]
    /\ UNCHANGED <<limits, debts, blamed>>

SubstituteTooLarge ==
    /\ Substituting /\ Led # {}
    /\ Leader.name \notin TokenClasses(input)
    /\ ~Fits(prods[i], Leader)
    /\ Refuse("size", prods[i].name)

KeepSeeds ==
    /\ DropRecursion
    /\ sources' = [sources EXCEPT ![prods[i].name] = Seeds(prods[i], @)]
    /\ gained' = 0
    /\ UNCHANGED <<limits, added, debts, blamed>>

NoSeed ==
    /\ Settled
    /\ TailsOf(prods[i]) # <<>> /\ SeedsOf(prods[i]) = <<>>
    /\ Refuse("no seed", prods[i].name)

\* fresh_debt_counter: the base name, then base_1, base_2, ... until unused.
Handed == { debts[n] : n \in DOMAIN debts }
Suffixed(n, k) == IF k = 0 THEN DebtBase[n] ELSE Append(DebtBase[n], ToString(k))
FreshDebtCounter(n) ==
    Suffixed(n, CHOOSE k \in 0..Cardinality(Handed) :
                  /\ Suffixed(n, k) \notin Handed
                  /\ \A m \in 0..(k - 1) : Suffixed(n, m) \in Handed)

\* What a wrapped choice is the source of.
WrappedSource(alts, rule) ==
    IF Len(alts) = 1 /\ Len(alts[1]) = 1 THEN alts[1][1] ELSE GroupSource(alts, rule)

RewriteLoop ==
    LET p == prods[i]
        s == sources[p.name]
        contested == \E k \in DOMAIN SeedsOf(p) : p.name \in RefsIn(Seeds(p, p.alts)[k])
        guard == IF contested THEN FreshDebtCounter(p.name) ELSE NoGuard
        tailSource == WrappedSource(Tails(p, s), p.name)
    IN  /\ MakeLoop(guard)
        /\ sources' = [sources EXCEPT ![p.name] =
              << <<WrappedSource(Seeds(p, s), p.name), WithInner(tailSource, tailSource)>> >>]
        /\ debts' = IF contested THEN (p.name :> guard) @@ debts ELSE debts
        /\ gained' = 0
        /\ UNCHANGED <<limits, added, blamed>>

-----------------------------------------------------------------------------
Accept ==
    /\ Finish
    /\ BoundRefusals(prods, sources) \o LoopRefusals(prods, sources) = <<>>
    /\ UNCHANGED <<limits, sources, added, gained, debts, blamed>>

RefuseBounds ==
    /\ phase = "validate"
    /\ BoundRefusals(prods, sources) # <<>>
    /\ Refuse("bounds", Head(BoundRefusals(prods, sources)))

RefuseLoop ==
    /\ phase = "validate"
    /\ BoundRefusals(prods, sources) = <<>>
    /\ LoopRefusals(prods, sources) # <<>>
    /\ Refuse("loop", Head(LoopRefusals(prods, sources)))

Ended == phase \in {"done", "refused"}

\* The pass has returned: the only state it may stop in.
Returned == Ended /\ UNCHANGED vars

\* The steps of Elimination that cost nothing.
Uncharged ==
    /\ \/ SplitNextRule \/ BeginOrder \/ OrderStep \/ BeginCycles \/ CycleStep \/ BeginPaull
       \/ InlineToken \/ NextRound \/ Restore
    /\ UNCHANGED <<limits, sources, added, gained, debts, blamed>>

Next == \/ Uncharged
        \/ SplitAlternative \/ SplitTooLarge
        \/ Substitute \/ SubstituteTooLarge
        \/ KeepSeeds \/ NoSeed \/ RewriteLoop
        \/ Accept \/ RefuseBounds \/ RefuseLoop \/ Returned

Spec == Init /\ [][Next]_vars

-----------------------------------------------------------------------------
(* The pass changes how a rule is written, never what it matches: every    *)
(* rule derives the words it derived, up to the bound.                     *)
LanguagePreserved == Rewritten => Words(prods, WordLength) = Words(input, WordLength)

(* No rule can re-enter itself at the same position any more, if in the    *)
(* input only a rule's own leading reference could: what the split and the *)
(* rewrite of direct recursion are for.                                    *)
OnlyDirect ==
    LET nullable == NonConsumingRules(input)
        corners  == [n \in Names |-> CornersOf(Find(input, n), nullable)]
    IN  /\ \A n, m \in Names :
             n # m /\ m \in ReachFrom(corners[n], corners) => n \notin ReachFrom(corners[m], corners)
        /\ \A p \in ToSet(input) : p.name \in corners[p.name] =>
             \A a \in DOMAIN p.alts : \/ p.name \notin CornersOf(Prod(p.name, <<p.alts[a]>>), nullable)
                                      \/ LedBy(p.alts[a], p.name)
                                      \/ Hidden(p.alts[a], p.name)
DirectRecursionRemoved == Rewritten /\ OnlyDirect => LeftRecursive(prods) = {}

(* "rewriting a left-recursive rule into iterative form so it runs on a    *)
(* push-down engine" (README.md): no rule re-enters itself without input.  *)
NoLeftRecursion == Rewritten => LeftRecursive(prods) = {}

(* What is added stays within MAX_LEFT_RECURSION_ELEMENTS however long the *)
(* pass runs, but for three elements for each loop written: rewriting      *)
(* direct recursion is not charged.                                        *)
LimitHolds == GrammarSize(prods) <= GrammarSize(input) + limits.elements + 3 * (i - 1)

(* Every element has a source of its own shape.  zip would drop what has   *)
(* none, and a loop inside it would never be checked.                      *)
SourcesMirror ==
    \A k \in DOMAIN prods :
       LET p == prods[k]
           s == sources[p.name]
       IN  /\ DOMAIN s = DOMAIN p.alts
           /\ \A a \in DOMAIN s :
                /\ DOMAIN s[a] = DOMAIN p.alts[a]
                /\ \A m \in DOMAIN s[a] : Mirrors(p.alts[a][m], s[a][m])

(* A grammar refused for a repetition is refused at a rule that holds, as  *)
(* its author wrote it, the bad bounds, or something that can match        *)
(* nothing; unless rules of the input stand for each other alone in a      *)
(* ring, which turns into an empty loop of the pass's own making.          *)
AliasRing ==
    LET units == [n \in Names |-> { alt[1].name : alt \in { x \in ToSet(Find(input, n).alts) :
                                                       Len(x) = 1 /\ IsRef(x[1]) } }]
    IN  \E n \in Names : n \in ReachFrom(units[n], units)
Authored(Test(_)) ==
    \E alt \in ToSet(Find(input, blamed.rule).alts) : \E k \in DOMAIN alt : Test(alt[k])
BlameIsAuthored ==
    /\ blamed.what = "loop" /\ ~AliasRing =>
          Authored(LAMBDA el : MayMatchEmpty(el, NonConsumingRules(input)))
    /\ blamed.what = "bounds" =>
          Authored(LAMBDA el : BadBounds(el, Leaf(blamed.rule)) # <<>>)
=============================================================================
