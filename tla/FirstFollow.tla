----------------------------- MODULE FirstFollow ----------------------------
(***************************************************************************)
(* compute_first_sets, compute_follow_sets and compute_follow_pairs        *)
(* (rs/src/analysis.rs): three fixed points, one after the other, each     *)
(* updated while it is read.  One action per alternative, or per reference *)
(* of one, in the order of the code's loops.                               *)
(***************************************************************************)
EXTENDS Elements

CONSTANTS
    Inputs,             \* desugared grammars; the first rule is the start
    ClassSets,          \* the token set of each rule that is a token class
    Depth               \* how deep derivations are followed in the reference

VARIABLES
    grammar,
    phase,              \* "first", "follow", "pairs" or "done"
    places,             \* what is left of the current round
    changed,            \* whether the round has added anything
    first, nullable, follow, pairs

vars == <<grammar, phase, places, changed, first, nullable, follow, pairs>>

Rules == NamesOf(grammar)
EmptySets(g) == [ r \in NamesOf(g) |-> {} ]
End == "#ZZ"

\* The alternatives of a grammar, and their order and that of references.
AltPlaces(g) == UNION { { <<p, k>> : k \in DOMAIN g[p].alts } : p \in DOMAIN g }
OfNoClass(g) == { x \in AltPlaces(g) : g[x[1]].name \notin DOMAIN ClassSets }
Before(x, y) == \E k \in DOMAIN x : x[k] < y[k] /\ \A m \in 1..(k - 1) : x[m] = y[m]
IsNext(x) == x \in places /\ \A y \in places : y = x \/ Before(x, y)

Init == /\ grammar \in Inputs
        /\ phase = "first" /\ places = OfNoClass(grammar) /\ changed = FALSE
        /\ first = [ r \in Rules |-> IF r \in DOMAIN ClassSets THEN {ClassSets[r]} ELSE {} ]
        /\ nullable = {}
        /\ follow = EmptySets(grammar) /\ pairs = EmptySets(grammar)

-----------------------------------------------------------------------------
RuleAt(x) == grammar[x[1]].name
AltAt(g, x) == g[x[1]].alts[x[2]]
Named(x) == TargetOf(grammar, x)
Rest(x)  == SuffixOf(grammar, x)

Add(set, r, new) == [set EXCEPT ![r] = @ \cup new]

FirstOfAlt(x) ==
    /\ phase = "first" /\ IsNext(x)
    /\ LET alt == AltAt(grammar, x)
       IN  /\ first' = Add(first, RuleAt(x), FirstOfSeq(alt, first, nullable))
           /\ nullable' = IF SeqVanishes(alt, nullable) THEN nullable \cup {RuleAt(x)} ELSE nullable
    /\ changed' = (changed \/ first' # first \/ nullable' # nullable)
    /\ places' = places \ {x}
    /\ UNCHANGED <<grammar, phase, follow, pairs>>

\* What can come next: the rest of the alternative, then what follows the
\* rule it is of.
NextTokens(rest, inherited) ==
    FirstOfSeq(rest, first, nullable) \cup (IF SeqVanishes(rest, nullable) THEN inherited ELSE {})

FollowOfRef(x) ==
    /\ phase = "follow" /\ IsNext(x)
    /\ follow' = IF Named(x) \notin DOMAIN follow THEN follow
                 ELSE Add(follow, Named(x), NextTokens(Rest(x), follow[RuleAt(x)]))
    /\ changed' = (changed \/ follow' # follow)
    /\ places' = places \ {x}
    /\ UNCHANGED <<grammar, phase, first, nullable, pairs>>

\* The pairs that come of what follows a reference in its alternative: its
\* first token, unless a reference that cannot vanish comes before it.
\* A bug: a reference that cannot vanish is skipped like the others.
TokensPast(rest) ==
    { j \in DOMAIN rest : ~IsRef(rest[j]) /\ \A m \in 1..(j - 1) : IsRef(rest[m]) }
FirstToken(rest) == { j \in Reached(rest, nullable) : ~IsRef(rest[j]) }
PairsOf(rest, r) ==
    (IF SeqVanishes(rest, nullable) THEN pairs[r] ELSE {})
    \cup UNION { {rest[j].name} \X NextTokens(SubSeq(rest, j + 1, Len(rest)), follow[r]) :
                   j \in FirstToken(rest) }

PairsOfRef(x) ==
    /\ phase = "pairs" /\ IsNext(x)
    /\ pairs' = IF Named(x) \notin DOMAIN pairs THEN pairs
                ELSE Add(pairs, Named(x), PairsOf(Rest(x), RuleAt(x)))
    /\ changed' = (changed \/ pairs' # pairs)
    /\ places' = places \ {x}
    /\ UNCHANGED <<grammar, phase, first, nullable, follow>>

\* A round that added something is followed by another.
PlacesOf(p) == IF p = "first" THEN OfNoClass(grammar) ELSE Places(grammar)
NextPhase == [first |-> "follow", follow |-> "pairs", pairs |-> "done"]
\* A bug: two rounds are taken to be enough.
Once == changed /\ phase = "first"
Again == changed

NextRound ==
    /\ phase \in DOMAIN NextPhase /\ places = {}
    /\ IF Again
       THEN places' = PlacesOf(phase) /\ UNCHANGED <<phase, follow>>
       ELSE /\ phase' = NextPhase[phase]
            /\ places' = IF phase' = "done" THEN {} ELSE PlacesOf(phase')
            \* the end of the source can follow the start rule
            /\ follow' = IF phase = "first" THEN Add(follow, grammar[1].name, {End}) ELSE follow
    /\ changed' = FALSE
    /\ UNCHANGED <<grammar, first, nullable, pairs>>

Analysing == (\E x \in places : FirstOfAlt(x) \/ FollowOfRef(x) \/ PairsOfRef(x)) \/ NextRound

Analysis == Init /\ [][Analysing]_vars

-----------------------------------------------------------------------------
(* The reference for all three, by what rules derive: the first n tokens   *)
(* of each rule's words, a token class read as its set, and the first two  *)
(* of what can come after it.  Either is a set of pairs of a rule and a    *)
(* sequence of tokens.                                                     *)
Of(env, r) == { p[2] : p \in { q \in env : q[1] = r } }

Short(w, n) == SubSeq(w, 1, IF Len(w) < n THEN Len(w) ELSE n)
Join(A, B, n) == { Short(p[1] \o p[2], n) : p \in A \X B }
Starts(el, env) == IF IsRef(el) THEN Of(env, el.name) ELSE {<<el.name>>}
SeqStarts(seq, env, n) ==
    LET upto[k \in 0..Len(seq)] == IF k = 0 THEN {<<>>} ELSE Join(upto[k - 1], Starts(seq[k], env), n)
    IN  upto[Len(seq)]

\* One step deeper.
Derived(g, env, n) ==
    { <<r, << ClassSets[r] >> >> : r \in NamesOf(g) \cap DOMAIN ClassSets }
    \cup UNION { {g[x[1]].name} \X SeqStarts(AltAt(g, x), env, n) : x \in OfNoClass(g) }
WordStarts(g, n) ==
    LET env[k \in 0..Depth] == IF k = 0 THEN {} ELSE Derived(g, env[k - 1], n) IN env[Depth]

\* What each reference adds to what can come after the rule it is to.
Passed(g, env, starts) ==
    env \cup UNION { {TargetOf(g, x)} \X Join(SeqStarts(SuffixOf(g, x), starts, 2), Of(env, g[x[1]].name), 2) :
                       x \in Places(g) }
Continuations(g) ==
    LET starts == WordStarts(g, 2)
        env[k \in 0..Depth] == IF k = 0 THEN { <<g[1].name, <<End>> >> } ELSE Passed(g, env[k - 1], starts)
    IN  env[Depth]

\* Derivations deep enough that no deeper one begins with anything new.
DeepEnough(g, n) == Derived(g, WordStarts(g, n), n) = WordStarts(g, n)
FollowedFar(g) == Passed(g, Continuations(g), WordStarts(g, 2)) = Continuations(g)

\* A grammar as desugaring hands it over: sequences, of at least one rule.
WellFormed(g) == /\ IsSequence(g) /\ g # <<>>
                 /\ \A p \in DOMAIN g : /\ IsSequence(g[p].alts)
                                        /\ \A k \in DOMAIN g[p].alts : IsSequence(g[p].alts[k])

ASSUME InputsAssumption ==
    /\ Depth \in Nat
    /\ \A g \in Inputs : WellFormed(g) /\ DeepEnough(g, 2) /\ FollowedFar(g)

\* Every reference can be read to its end, and every rule that refers to
\* another comes up.
NoDeadEnd(g) == \A x \in Places(g) : TargetOf(g, x) \in NamesOf(g) /\ Of(WordStarts(g, 2), TargetOf(g, x)) # {}
NoOrphan(g)  == \A x \in Places(g) : Of(Continuations(g), g[x[1]].name) # {}

Heads(words) == { w[1] : w \in words \ {<<>>} }

(* FIRST and nullable are exactly what the rule's words begin with, though *)
(* the sets grow while they are read; where some rule has no words at all, *)
(* FIRST is still never too small (compute_first_sets).                    *)
FirstIsExact ==
    phase = "done" =>
       LET starts == WordStarts(grammar, 2)
       IN  \A r \in Rules : /\ r \in nullable <=> <<>> \in Of(starts, r)
                            /\ Heads(Of(starts, r)) \subseteq first[r]
                            /\ NoDeadEnd(grammar) => first[r] = Heads(Of(starts, r))

(* A repetition's empty alternative has to name every token that may come  *)
(* next, or the lexer never offers it: FOLLOW has those, and only those    *)
(* unless a rule has no words or never comes up (compute_follow_sets).     *)
FollowIsExact ==
    phase = "done" =>
       LET after == Continuations(grammar)
       IN  \A r \in Rules : /\ Heads(Of(after, r)) \subseteq follow[r]
                            /\ NoDeadEnd(grammar) /\ NoOrphan(grammar) => follow[r] = Heads(Of(after, r))

(* "Approximate in one direction": a pair is kept only if the two tokens   *)
(* can really follow the rule, one after the other (compute_follow_pairs). *)
PairsReallyFollow ==
    phase = "done" /\ NoDeadEnd(grammar) /\ NoOrphan(grammar) =>
       LET after == Continuations(grammar) IN \A r \in Rules : pairs[r] \subseteq Of(after, r)

=============================================================================
