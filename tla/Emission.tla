------------------------------ MODULE Emission -----------------------------
(***************************************************************************)
(* emit_production and what it calls (rs/src/emit.rs): the rules the       *)
(* engine is given for a desugared grammar, one production at a time, from *)
(* its FIRST and FOLLOW sets (FirstFollow).  A choice that one segment     *)
(* cannot hold is decided by Dispatch.  Token names, tree building, marks, *)
(* value annotations and debts are left out.                               *)
(*                                                                         *)
(* A production is [name, alts, helper, loop]: helper and loop are its     *)
(* repeat_helper and repeat_loop.                                          *)
(***************************************************************************)
EXTENDS FirstFollow, Grammar, TLC
LOCAL INSTANCE SequencesExt
LOCAL INSTANCE FiniteSetsExt

CONSTANTS
    Covers,             \* the characters each token can begin with
    ClassHeads,         \* the tokens of character classes
    MaxK                \* LOOKAHEAD_K

VARIABLES
    rules,              \* the rules written so far: open and close alternates
    at,                 \* the production being emitted
    choice, exits, step, i, heads, empties, contested, deep, out  \* of Dispatch

ASSUME WindowAssumption == \A g \in Inputs : DeepEnough(g, MaxK)

D == INSTANCE Dispatch

dispatching == <<choice, exits, step, i, heads, empties, contested, deep, out>>
analysed == <<grammar, places, changed, first, nullable, follow, pairs>>

-----------------------------------------------------------------------------
\* An alternate of a rule: it matches the tokens s and gives b of them back;
\* it pushes ("p") a rule, or replaces its own by one ("r"), or neither.  of
\* is the alternative it was made from, if any.  entering: only while the
\* loop counter is 0; count is what it sets that counter to.
NoRule == "none"
Kept == -1
Alternate(s, b, go, to, of) ==
    [s |-> s, b |-> b, go |-> go, to |-> to, of |-> of, entering |-> FALSE, count |-> Kept]
Bare == Alternate(<<>>, 0, "end", NoRule, <<>>)
Rule(open, close) == [open |-> open, close |-> close]

\* peek_copy
PeekCopy(o, s, b) == [o EXCEPT !.s = s, !.b = b]

\* The members of a set in some order: they all lead to the same rule.
AnyOrder(S) == FoldSet(LAMBDA x, acc : Append(acc, x), <<>>, S)
\* An entry for each token, which is only looked at.  A bug: it is taken.
PeeksTaken(o, tokens) == AnyOrder({ PeekCopy(o, <<t>>, 0) : t \in tokens })
Peeks(o, tokens) == AnyOrder({ PeekCopy(o, <<t>>, 1) : t \in tokens })

\* segmentize: runs of tokens, each but the last ended by a reference.
Segment(terms, ref) == [terms |-> terms, ref |-> ref]
Segmentize(alt) ==
    LET all == FoldLeft(LAMBDA acc, el :
                  IF IsRef(el)
                  THEN [done |-> Append(acc.done, Segment(acc.terms, el.name)), terms |-> <<>>]
                  ELSE [acc EXCEPT !.terms = Append(@, el.name)],
                  [done |-> <<>>, terms |-> <<>>], alt)
    IN  IF all.terms # <<>> \/ all.done = <<>>
        THEN Append(all.done, Segment(all.terms, NoRule)) ELSE all.done
IsSingleSegment(alt) == Len(Segmentize(alt)) = 1

\* segment_to_alt
SegmentToAlt(seg, of) ==
    Alternate(seg.terms, 0, IF seg.ref = NoRule THEN "end" ELSE "p", seg.ref, of)

-----------------------------------------------------------------------------
(* What the entries of a choice compete with.                              *)
TokensOverlap(t, u) == Covers[t] \cap Covers[u] # {}
IsLiteralHead(t) == t \notin ClassHeads \cup {End}
\* first_of_alt: nothing for an alternative that can vanish.
FirstOfAlternative(alt) == IF SeqVanishes(alt, nullable) THEN {} ELSE FirstOfSeq(alt, first, nullable)

Others(alts, k) == { j \in DOMAIN alts \ {k} : alts[j] # <<>> }
AltHeadContested(alts, k) ==
    \E j \in Others(alts, k) :
       \E t \in FirstOfAlternative(alts[k]), u \in FirstOfAlternative(alts[j]) : TokensOverlap(t, u)
AltHeadSharesToken(alts, k) ==
    \E j \in Others(alts, k) :
       \E t \in FirstOfAlternative(alts[k]), u \in FirstOfAlternative(alts[j]) :
          t = u \/ (t \in ClassHeads /\ u \in ClassHeads /\ TokensOverlap(t, u))
ContestedByFollow(p, alt) ==
    p.helper /\ \E t \in FirstOfAlternative(alt), f \in follow[p.name] : f = t \/ TokensOverlap(t, f)

\* The exits of a contested repetition that two tokens decide.
PairExitGuards(p, o) ==
    AnyOrder({ PeekCopy(o, tu, 2) : tu \in { x \in pairs[p.name] :
                 x[1] # End /\ \E f \in first[p.name] : f # x[1] /\ TokensOverlap(x[1], f) } })
\* The empty alternative names what may follow, or the lexer is not asked
\* for it.  A bug: it does not.
UnnamedExit(p, o, entries) == Append(entries, o)
Exit(p, o, entries) ==
    IF p.helper
    THEN PairExitGuards(p, o) \o entries \o Peeks(o, follow[p.name]) \o <<o>>
    ELSE Append(entries, o)

-----------------------------------------------------------------------------
(* The order of the entries.                                               *)
DescentOf(o) == o.to
SameDescent(o, q) == DescentOf(o) # NoRule /\ DescentOf(o) = DescentOf(q)
IsClassEntry(o) == o.s # <<>> /\ o.s[1] \in ClassHeads
HeadsOverlap(o, q) == TokensOverlap(o.s[1], q.s[1])

\* specificity_permute: class entries that overlap and lead elsewhere, the
\* longest lookahead first and then the longest alternative, in their slots.
SpecificityPermute(entries) ==
    LET classes == { k \in DOMAIN entries : IsClassEntry(entries[k]) /\ entries[k].of # <<>> }
        slots   == SelectSeq([k \in DOMAIN entries |-> k], LAMBDA k :
                     k \in classes /\ \E j \in classes \ {k} :
                        /\ ~SameDescent(entries[k], entries[j])
                        /\ HeadsOverlap(entries[k], entries[j]))
        span(k) == SpanOf(entries[k].of, grammar, MaxK)
        before(k, j) == \/ Len(entries[k].s) > Len(entries[j].s)
                        \/ /\ Len(entries[k].s) = Len(entries[j].s)
                           /\ span(k) > span(j) \/ (span(k) = span(j) /\ k < j)
        sorted  == SortSeq(slots, before)
    IN  [k \in DOMAIN entries |->
           IF \E n \in DOMAIN slots : slots[n] = k
           THEN entries[sorted[CHOOSE n \in DOMAIN slots : slots[n] = k]] ELSE entries[k]]

\* synth_keyword_guards: what can come after the keyword that o begins with.
MaxSeconds == 16
KeywordSeconds(p, o) ==
    LET mine == { q \in { x.tokens : x \in D!PathsOf(o.of, 2, {}, {D!AnyHead}) } :
                    q # <<>> /\ q[1] = o.s[1] }
        seconds == UNION { IF Len(q) = 2 THEN {q[2]} ELSE follow[p.name] : q \in mine }
    IN  IF Cardinality(seconds) > MaxSeconds
           \/ \E q \in mine : Len(q) = 1 /\ follow[p.name] = {}
        THEN {} ELSE seconds
KeywordGuards(p, o) ==
    AnyOrder({ PeekCopy(o, <<o.s[1], u>>, o.b + 1) : u \in KeywordSeconds(p, o) })

\* The class entries a keyword may be taken for.
Shadows(entries, k) ==
    IF entries[k].s = <<>> \/ entries[k].of = <<>> THEN {}
    ELSE IF ~IsLiteralHead(entries[k].s[1]) THEN {}
    ELSE { c \in DOMAIN entries : /\ IsClassEntry(entries[c])
                                  /\ HeadsOverlap(entries[k], entries[c])
                                  /\ ~SameDescent(entries[k], entries[c]) }

\* reorder_keyword_shadow: a keyword's guards go before the class entries it
\* may be taken for and the keyword itself behind them; an entry with a
\* longer lookahead only goes before them.  Ranks are doubled.
Ranked(entries, rank) == [k \in DOMAIN entries |-> [o |-> entries[k], rank |-> rank]]
\* A bug: the keyword alone is moved before them.
KeywordFirst(p, entries, k) ==
    Ranked(<<entries[k]>>, IF Shadows(entries, k) = {} THEN 2 * k
                           ELSE Min({2 * k, 2 * Min(Shadows(entries, k)) - 1}))
Place(p, entries, k) ==
    LET shadows == Shadows(entries, k)
        o       == entries[k]
        front   == Min({2 * k, 2 * Min(shadows) - 1})
        back    == Max({2 * k, 2 * Max(shadows) + 1})
    IN  IF shadows = {} THEN Ranked(<<o>>, 2 * k)
        ELSE IF Len(o.s) >= 2 THEN Ranked(<<o>>, front)
        ELSE IF KeywordSeconds(p, o) = {} THEN Ranked(<<o>>, 2 * k)
        ELSE Ranked(KeywordGuards(p, o), front) \o Ranked(<<o>>, back)
ReorderKeywordShadow(p, entries) ==
    LET placed == FlattenSeq([k \in DOMAIN entries |-> Place(p, entries, k)])
        before(k, j) == placed[k].rank < placed[j].rank \/ (placed[k].rank = placed[j].rank /\ k < j)
        order  == SortSeq([k \in DOMAIN placed |-> k], before)
    IN  [k \in DOMAIN order |-> placed[order[k]].o]

InOrder(p, entries) == ReorderKeywordShadow(p, SpecificityPermute(entries))

-----------------------------------------------------------------------------
(* A production whose alternatives are single segments.                    *)

\* Empty alternatives come last.
Ordered(p) == SelectSeq(p.alts, LAMBDA a : a # <<>>) \o SelectSeq(p.alts, LAMBDA a : a = <<>>)

\* loop_entry
LoopEntry(p) == [Alternate(<<>>, 0, "r", p.name, <<>>) EXCEPT !.entering = TRUE, !.count = 1]

\* A reference alone is guarded by its first tokens, or by the prefixes it
\* takes when one token is contested.
MaxPeeks == 64
AltPrefixes(alt) == { x.tokens : x \in D!PathsOf(alt, MaxK, {}, {D!AnyHead}) } \ {<<>>}
RefPeeks(p, alts, k) ==
    LET deeper == AltHeadContested(alts, k) \/ ContestedByFollow(p, alts[k])
        o      == SegmentToAlt(Segmentize(alts[k])[1], alts[k])
    IN  IF deeper /\ AltPrefixes(alts[k]) # {} /\ Cardinality(AltPrefixes(alts[k])) <= MaxPeeks
        THEN AnyOrder({ PeekCopy(o, s, Len(s)) : s \in AltPrefixes(alts[k]) })
        ELSE Peeks(o, FirstOfAlternative(alts[k]))

\* Tokens and a reference, where a sibling may be handed the same token: the
\* reference's first token is named as well.
NeedsRefPeek(seg, alts, k) ==
    /\ Len(alts) > 1 /\ seg.terms # <<>>
    /\ seg.ref \notin nullable \cup {NoRule}
    /\ AltHeadSharesToken(alts, k)
    /\ first[seg.ref] # {} /\ Cardinality(first[seg.ref]) <= MaxPeeks

SimpleEntries(p, alts, k) ==
    LET alt == alts[k]
        seg == Segmentize(alt)[1]
        o   == IF p.loop /\ alt # <<>> THEN Alternate(seg.terms, 0, "r", p.name, alt)
               ELSE SegmentToAlt(seg, alt)
    IN  CASE Len(alts) > 1 /\ alt # <<>> /\ seg.terms = <<>> /\ ~SeqVanishes(alt, nullable)
               -> RefPeeks(p, alts, k)
          [] NeedsRefPeek(seg, alts, k)
               -> AnyOrder({ PeekCopy(o, Append(seg.terms, t), 1) : t \in first[seg.ref] })
          [] OTHER -> <<o>>

AllSimple(p) == \A k \in DOMAIN p.alts : IsSingleSegment(p.alts[k])
Content(p) == LET alts == Ordered(p)
              IN  FlattenSeq([k \in DOMAIN alts |->
                    IF alts[k] = <<>> THEN <<>> ELSE SimpleEntries(p, alts, k)])
Empties(alts) == SelectSeq(alts, LAMBDA a : a = <<>>)
HasRef(p) == \E k \in DOMAIN p.alts : \E m \in DOMAIN p.alts[k] : IsRef(p.alts[k][m])

SimpleRule(p) ==
    LET entries == FoldLeft(LAMBDA es, a : Exit(p, Bare, es), Content(p), Empties(p.alts))
        placed  == InOrder(p, entries)
    IN  IF p.loop THEN Rule(<<LoopEntry(p)>> \o placed, <<>>)
        ELSE Rule(placed, IF HasRef(p) THEN <<Bare>> ELSE <<>>)

\* emit_chain: a rule for each segment, each replaced by the next on its
\* close.
ChainName(head, k) == IF k = 1 THEN head ELSE head \o "$step" \o ToString(k - 1)
CloseOf(head, segs, k) ==
    IF k < Len(segs) THEN << Alternate(<<>>, 0, "r", ChainName(head, k + 1), <<>>) >>
    ELSE IF segs[k].ref = NoRule THEN <<>> ELSE <<Bare>>
Chain(head, alt) ==
    LET segs == Segmentize(alt)
    IN  FoldLeft(LAMBDA acc, k : (ChainName(head, k) :> Rule(<<SegmentToAlt(segs[k], <<>>)>>,
                                                            CloseOf(head, segs, k))) @@ acc,
                 [n \in {} |-> 0], [k \in DOMAIN segs |-> k])

-----------------------------------------------------------------------------
(* A choice: each alternative has a rule of its own.                       *)
Impl(p, k) == p.name \o "$alt" \o ToString(k - 1)

\* emit_repeat_loop: the counter is cleared for what the item pushes, and
\* the way back to the loop is by replacement.  A bug: it is not cleared;
\* another: the loop is pushed.
LoopRules(p, k, pushed, go) ==
    LET impl == Impl(p, k)
        back == impl \o "$step1"
    IN  (impl :> Rule(<< [Alternate(<<>>, 0, "p", p.alts[k][1].name, <<>>) EXCEPT !.count = pushed] >>,
                      << [Alternate(<<>>, 0, "r", back, <<>>) EXCEPT !.count = 1] >>))
        @@ (back :> Rule(<< Alternate(<<>>, 0, go, p.name, <<>>) >>, <<>>))
UnclearedLoop(p, k) == LoopRules(p, k, Kept, "r")
PushedLoop(p, k) == LoopRules(p, k, 0, "p")
RepeatLoop(p, k) == LoopRules(p, k, 0, "r")

ImplRules(p) ==
    FoldLeft(LAMBDA acc, k : IF p.alts[k] = <<>> THEN acc
                             ELSE (IF p.loop THEN RepeatLoop(p, k) ELSE Chain(Impl(p, k), p.alts[k]))
                                    @@ acc,
             [n \in {} |-> 0], [k \in DOMAIN p.alts |-> k])

\* An alternative without a prefix is dispatched on its first tokens.
Undecided(p) == \E k \in DOMAIN p.alts : /\ p.alts[k] # <<>> /\ out[k] = {}
                                         /\ SeqVanishes(p.alts[k], nullable)
ContentOf(p, k) ==
    LET o == Alternate(<<>>, 0, IF p.loop THEN "r" ELSE "p", Impl(p, k), p.alts[k])
    IN  IF p.alts[k] = <<>> THEN <<>>
        ELSE IF out[k] # {} THEN AnyOrder({ PeekCopy(o, s, Len(s)) : s \in out[k] })
        ELSE Peeks(o, FirstOfAlternative(p.alts[k]))

\* An alternative that can vanish is taken on what may follow, and at last
\* on anything; not a loop's, which would go round on nothing.
Vanishing(p, k) ==
    LET o == Alternate(<<>>, 0, "p", Impl(p, k), <<>>)
    IN  IF empties[k] /\ ~p.loop THEN Append(Peeks(o, follow[p.name]), o) ELSE <<>>

DispatchEntries(p) ==
    LET ks      == [k \in DOMAIN p.alts |-> k]
        content == FlattenSeq([k \in DOMAIN p.alts |-> ContentOf(p, k)])
                   \o FlattenSeq([k \in DOMAIN p.alts |-> Vanishing(p, k)])
    IN  IF Empties(p.alts) = <<>> THEN content ELSE Exit(p, Bare, content)

DispatchRule(p) ==
    LET placed == InOrder(p, DispatchEntries(p))
    IN  IF p.loop THEN Rule(<<LoopEntry(p)>> \o placed, <<>>) ELSE Rule(placed, <<Bare>>)

\* The ways out of a choice of which an alternative can vanish.
ExitPaths(p) ==
    IF \E k \in DOMAIN p.alts : SeqVanishes(p.alts[k], nullable)
    THEN { <<t>> : t \in follow[p.name] } \cup pairs[p.name] ELSE {}

-----------------------------------------------------------------------------
EmissionInit ==
    /\ Init
    /\ rules = [n \in {} |-> 0] /\ at = 1
    /\ D!NoChoice

Analyse == Analysing /\ UNCHANGED <<rules, at, dispatching>>

BeginEmission ==
    /\ phase = "done"
    /\ phase' = "emit"
    /\ UNCHANGED <<analysed, rules, at, dispatching>>

Emitting == phase = "emit" /\ at <= Len(grammar)
Commit(new) == /\ rules' = new @@ rules
               /\ at' = at + 1
               /\ UNCHANGED <<phase, analysed, dispatching>>

EmitSimple == /\ Emitting /\ AllSimple(grammar[at])
              /\ Commit(grammar[at].name :> SimpleRule(grammar[at]))

EmitChain == /\ Emitting /\ ~AllSimple(grammar[at]) /\ Len(grammar[at].alts) = 1
             /\ Commit(Chain(grammar[at].name, grammar[at].alts[1]))

IsDispatched(p) == ~AllSimple(p) /\ Len(p.alts) > 1

BeginChoice == /\ Emitting /\ IsDispatched(grammar[at]) /\ choice # at
               /\ D!Begin(at, ExitPaths(grammar[at]))
               /\ UNCHANGED <<phase, places, changed, first, nullable, follow, pairs, rules, at>>

Decide == /\ Emitting /\ choice = at
          /\ D!Deciding
          /\ UNCHANGED <<phase, places, changed, first, nullable, follow, pairs, rules, at>>

EmitChoice == /\ Emitting /\ choice = at /\ step = "decided" /\ ~Undecided(grammar[at])
              /\ rules' = (grammar[at].name :> DispatchRule(grammar[at])) @@ ImplRules(grammar[at])
                          @@ rules
              /\ at' = at + 1
              /\ D!Forget
              /\ UNCHANGED <<phase, analysed>>

Refuse == /\ Emitting /\ choice = at /\ step = "decided" /\ Undecided(grammar[at])
          /\ phase' = "refused"
          /\ UNCHANGED <<analysed, rules, at, dispatching>>

\* The wrapper: the start rule, and then the end of the source.
StartWrapper == "__start__"
EmitStart ==
    /\ phase = "emit" /\ at > Len(grammar)
    /\ phase' = "emitted"
    /\ rules' = (StartWrapper :> Rule(<< Alternate(<<>>, 0, "p", grammar[1].name, <<>>) >>,
                                      << Alternate(<<End>>, 0, "end", NoRule, <<>>) >>)) @@ rules
    /\ UNCHANGED <<analysed, at, dispatching>>

EmissionNext ==
    \/ Analyse \/ BeginEmission \/ EmitSimple \/ EmitChain
    \/ BeginChoice \/ Decide \/ EmitChoice \/ Refuse \/ EmitStart

-----------------------------------------------------------------------------
\* What the words of the alternatives of the choice begin with.
ChoiceStarts == LET env == WordStarts(grammar, MaxK)
                IN  [k \in DOMAIN D!Alts |-> SeqStarts(D!Alts[k], env, MaxK)]

Begins(p, w) == Len(p) <= Len(w) /\ SubSeq(w, 1, Len(p)) = p
Collides(p, w) == \A k \in 1..Min({Len(p), Len(w)}) : D!Contest(p[k], w[k])
Decided == choice # 0 /\ step = "decided"

(* Every word of an alternative can choose it: it begins with one of the   *)
(* kept prefixes, or is empty and the alternative is told to be nullable   *)
(* (dispatch_prefixes).                                                    *)
EveryWordChosen ==
    Decided =>
       LET starts == ChoiceStarts
       IN  \A k \in DOMAIN D!Alts : D!Alts[k] # <<>> =>
              /\ \A w \in starts[k] \ {<<>>} : \E p \in out[k] : Begins(p, w)
              /\ empties[k] <=> <<>> \in starts[k]

(* "The lookahead deepens ... until the paths through that head no longer  *)
(* collide, or the window runs out and the paths are emitted whole": a     *)
(* prefix that is not a whole path is met by no word of another            *)
(* alternative and no way out (dispatch_prefixes).                         *)
CutOnlyWhereApart ==
    Decided =>
       LET starts == ChoiceStarts
       IN  \A k \in DOMAIN D!Alts : \A p \in out[k] :
              \/ p \in deep[k]
              \/ /\ \A j \in DOMAIN D!Alts \ {k} : \A w \in starts[j] \ {<<>>} : ~Collides(p, w)
                 /\ \A e \in exits : ~Collides(p, e)
=============================================================================
