------------------------------ MODULE Desugar ------------------------------
(***************************************************************************)
(* The last rewrites before analysis.  rewrite_tail_repeats (rs/src/       *)
(* leftrec.rs) turns X = prefix [ sep X ] into a loop over X itself;       *)
(* validate_repetitions (rs/src/prose.rs) bounds what numeric repetitions  *)
(* may expand to and refuses loops that consume nothing; desugar           *)
(* (rs/src/desugar.rs) then replaces every group, option and repetition by *)
(* a reference to a helper rule it mints.                                  *)
(***************************************************************************)
EXTENDS Grammar, TLC
LOCAL INSTANCE SequencesExt
LOCAL INSTANCE FiniteSetsExt

CONSTANT
    MaxUnits            \* MAX_REPEAT_EXPANSION

VARIABLES
    input,
    phase,              \* "tails", "bounds", "walk", "desugar", "done" or "refused"
    grammar,            \* the productions, once tail repeats are rewritten
    tails,              \* the separator of each rule that became a loop
    at,                 \* the production being walked or desugared
    units,              \* the expansion charged so far
    rewritten,          \* the productions desugared so far
    extra,              \* the helpers minted, in order
    used,               \* the names taken
    why                 \* what a refusal says, and of which rule

vars == <<input, phase, grammar, tails, at, units, rewritten, extra, used, why>>

Nothing == [what |-> "nothing", rule |-> "none"]
Size == Len(input)

BeginDesugar(g) ==
    /\ input' = g
    /\ phase' = "tails"
    /\ grammar' = g /\ tails' = <<>>
    /\ at' = 1 /\ units' = 0
    /\ rewritten' = <<>> /\ extra' = <<>>
    /\ used' = NamesOf(g)
    /\ why' = Nothing

Refuse(what, p) == /\ phase' = "refused"
                   /\ why' = [what |-> what, rule |-> p.name]
                   /\ UNCHANGED <<input, grammar, tails, at, units, rewritten, extra, used>>

-----------------------------------------------------------------------------
(* rewrite_tail_repeats.                                                   *)
Start == input[1].name

AllTerminal(seq) == \A k \in DOMAIN seq : IsTerminal(seq[k])

\* [ a b ] is an option of a group of one alternative, [ a ] of an element.
OptionBody(opt) == CASE opt.inner.kind # "group"   -> <<opt.inner>>
                     [] Len(opt.inner.alts) = 1    -> opt.inner.alts[1]
                     [] OTHER                      -> <<>>

\* A bug: the rule may recur anywhere in the option.
RecursOnce(alt, n) ==
    LET body == OptionBody(Last(alt))
    IN  \E k \in DOMAIN body : IsRefTo(body[k], n) /\ AllTerminal(SubSeq(body, 1, k - 1))
RecursLast(alt, n) ==
    LET body == OptionBody(Last(alt))
    IN  Len(body) >= 2 /\ IsRefTo(Last(body), n) /\ AllTerminal(Front(body))

IsTailRepeat(p) ==
    /\ ~p.fixed /\ p.name # Start
    /\ Len(p.alts) = 1
    /\ LET alt == p.alts[1]
       IN  /\ Len(alt) >= 2
           /\ Last(alt).kind = "opt"
           /\ RecursLast(alt, p.name)
           /\ AllTerminal(Front(alt))

RewriteTails ==
    /\ phase = "tails"
    /\ LET loops == { k \in 1..Size : IsTailRepeat(input[k]) }
       IN  /\ grammar' = [k \in 1..Size |-> IF k \in loops
                             THEN [input[k] EXCEPT !.alts = <<Front(@[1])>>] ELSE input[k]]
           /\ tails' = [n \in { input[k].name : k \in loops } |->
                           Front(OptionBody(Last(Find(input, n).alts[1])))]
    /\ phase' = "bounds"
    /\ UNCHANGED <<input, at, units, rewritten, extra, used, why>>

-----------------------------------------------------------------------------
(* The checks.                                                             *)
RECURSIVE BoundsOK(_)
BoundsOK(el) ==
    /\ el.kind = "rep" => el.max = NoMax \/ el.min <= el.max
    /\ IsSugar(el) => BoundsOK(el.inner)
    /\ el.kind = "group" =>
          \A a \in DOMAIN el.alts : \A k \in DOMAIN el.alts[a] : BoundsOK(el.alts[a][k])

\* One unit for the repetition's own helper, one for each mandatory copy,
\* one for an unbounded tail, two for each optional level.
\* A bug: an optional level counts as one helper.
RepUnitsFlat(el) == 1 + el.min + (IF el.max = NoMax THEN 1 ELSE el.max - el.min)
RepUnits(el) == 1 + el.min + (IF el.max = NoMax THEN 1 ELSE 2 * (el.max - el.min))

TooMany(n) == n > MaxUnits

\* walk: acc is the units charged and what was found wrong first, if anything.
RECURSIVE Walk(_, _, _)
Walk(acc, el, nullable) ==
    LET charged == IF el.kind = "rep" THEN acc.units + RepUnits(el) ELSE acc.units
    IN  CASE acc.bad # "nothing" -> acc
          [] el.kind = "group" ->
               FoldLeft(LAMBDA s, child : Walk(s, child, nullable), acc, FlattenSeq(el.alts))
          [] IsSugar(el) /\ IsUnbounded(el) /\ MayMatchEmpty(el.inner, nullable) ->
               [acc EXCEPT !.bad = "loop"]
          [] IsSugar(el) /\ TooMany(charged) -> [acc EXCEPT !.bad = "size"]
          [] IsSugar(el) -> Walk([acc EXCEPT !.units = charged], el.inner, nullable)
          [] OTHER -> acc
WalkWith(p, nullable) ==
    FoldLeft(LAMBDA s, el : Walk(s, el, nullable),
             [units |-> units, bad |-> "nothing"], FlattenSeq(p.alts))

\* A probe helper re-enters itself after each token of its vocabulary.
ReadsNothing(p) == \E t \in p.vocab : MayMatchEmpty(Term(t), {})

\* One turn of a tail repeat: its separator, then the prefix.
TurnIsEmpty(p, nullable) ==
    p.name \in DOMAIN tails /\ AltMayMatchEmpty(tails[p.name] \o p.alts[1], nullable)

\* A bug: the turn of a tail repeat is not looked at.
WalkAltsOnly(p) == WalkWith(p, NonConsumingRules(grammar))
WalkRule(p) ==
    LET nullable == NonConsumingRules(grammar)
        walked   == WalkWith(p, nullable)
    IN  IF walked.bad = "nothing" /\ (ReadsNothing(p) \/ TurnIsEmpty(p, nullable))
        THEN [walked EXCEPT !.bad = "loop"] ELSE walked

Offending(g) == { k \in DOMAIN g : ~BoundsOK(Group(g[k].alts)) }

CheckBounds ==
    /\ phase = "bounds"
    /\ IF Offending(grammar) # {} THEN Refuse("bounds", grammar[Min(Offending(grammar))])
       ELSE /\ phase' = "walk"
            /\ UNCHANGED <<input, grammar, tails, at, units, rewritten, extra, used, why>>

Charge ==
    /\ phase = "walk" /\ at <= Size
    /\ WalkRule(grammar[at]).bad = "nothing"
    /\ units' = WalkRule(grammar[at]).units
    /\ at' = at + 1
    /\ UNCHANGED <<input, grammar, tails, phase, rewritten, extra, used, why>>

RefuseWalk ==
    /\ phase = "walk" /\ at <= Size
    /\ WalkRule(grammar[at]).bad # "nothing"
    /\ Refuse(WalkRule(grammar[at]).bad, grammar[at])

Walked ==
    /\ phase = "walk" /\ at > Size
    /\ phase' = "desugar" /\ at' = 1
    /\ UNCHANGED <<input, grammar, tails, units, rewritten, extra, used, why>>

-----------------------------------------------------------------------------
(* The rewrite.  st is what it threads: the helpers, the names taken, and  *)
(* the element or the sequence just built.                                 *)
Helper(name, alts, loop, guard) ==
    [name |-> name, alts |-> alts, repeat_loop |-> loop, debt_guard |-> guard]

\* fresh_name: the number starts after the helpers minted so far.
\* A bug: whether the name is taken is not asked.
FirstName(st, hint) == "_gen" \o ToString(Len(st.extra) + 1) \o "_" \o hint
FreshName(st, hint) ==
    LET Gen(k) == "_gen" \o ToString(k) \o "_" \o hint
        from   == Len(st.extra) + 1
    IN  Gen(CHOOSE k \in from..(from + Cardinality(st.used)) :
              /\ Gen(k) \notin st.used
              /\ \A m \in from..(k - 1) : Gen(m) \in st.used)
Take(st, name) == [st EXCEPT !.used = @ \cup {name}]

Mint(st, name, alts) ==
    [st EXCEPT !.extra = Append(@, Helper(name, alts, FALSE, NoGuard)), !.built = Ref(name)]
\* H = inner H / (empty)
MintLoop(st, name, inner, guard) ==
    [st EXCEPT !.extra = Append(@, Helper(name, << <<inner, Ref(name)>>, <<>> >>, TRUE, guard)),
               !.built = Ref(name)]

\* A helper for body, and the optional around it.
\* A bug: the helper alone.
MandatoryLevel(st, body) ==
    LET group == FreshName(st, "group") IN Mint(Take(st, group), group, <<body>>)
OptionalLevel(st, body) ==
    LET group == FreshName(st, "group")
        s1    == Mint(Take(st, group), group, <<body>>)
        opt   == FreshName(s1, "opt_" \o group)
    IN  Mint(Take(s1, opt), opt, << <<Ref(group)>>, <<>> >>)

Copies(inner, k) == [x \in 1..k |-> inner]

\* [inner [inner [inner ...]]], k deep, from the innermost out.
NestedOptionals(st, inner, k) ==
    FoldLeft(LAMBDA s, x : OptionalLevel(s, <<inner, s.built>>),
             OptionalLevel(st, <<inner>>), Copies(inner, k - 1))

RECURSIVE Desugared(_, _)
DesugaredSeq(st, alt) ==
    FoldLeft(LAMBDA acc, el : LET s == Desugared(acc.st, el)
                              IN  [st |-> s, seq |-> Append(acc.seq, s.built)],
             [st |-> st, seq |-> <<>>], alt)
DesugaredAlts(st, alts) ==
    FoldLeft(LAMBDA acc, alt : LET s == DesugaredSeq(acc.st, alt)
                               IN  [st |-> s.st, alts |-> Append(acc.alts, s.seq)],
             [st |-> st, alts |-> <<>>], alts)
Desugared(st, el) ==
    IF el.kind = "group"
    THEN LET body == DesugaredAlts(st, el.alts)
             name == FreshName(body.st, "group")
         IN  Mint(Take(body.st, name), name, body.alts)
    ELSE IF ~IsSugar(el) THEN [st EXCEPT !.built = el]
    ELSE LET s0    == Desugared(st, el.inner)
             inner == s0.built
             hint  == IF inner.kind = "term" THEN "term" ELSE inner.name
         IN  CASE el.kind = "opt" ->
                    LET name == FreshName(s0, "opt_" \o hint)
                    IN  Mint(Take(s0, name), name, << <<inner>>, <<>> >>)
               [] el.kind = "star" ->
                    LET name == FreshName(s0, "star_" \o hint)
                    IN  MintLoop(Take(s0, name), name, inner, el.guard)
               [] el.kind = "plus" ->
                    LET tail == FreshName(s0, "star_" \o hint)
                        s1   == Take(s0, tail)
                        plus == FreshName(s1, "plus_" \o hint)
                        s2   == MintLoop(Take(s1, plus), tail, inner, NoGuard)
                    IN  Mint(s2, plus, << <<inner, s2.built>> >>)
               [] el.kind = "rep" /\ el.max = NoMax ->
                    LET rep  == FreshName(s0, "rep_" \o hint)
                        s1   == Take(s0, rep)
                        tail == FreshName(s1, "star_" \o hint)
                        s2   == MintLoop(Take(s1, tail), tail, inner, NoGuard)
                    IN  Mint(s2, rep, << Append(Copies(inner, el.min), s2.built) >>)
               [] el.kind = "rep" /\ el.max # NoMax ->
                    LET rep  == FreshName(s0, "rep_" \o hint)
                        s1   == Take(s0, rep)
                        more == el.max - el.min
                        s2   == NestedOptionals(s1, inner, more)
                    IN  IF more = 0 THEN Mint(s1, rep, << Copies(inner, el.min) >>)
                        ELSE Mint(s2, rep, << Append(Copies(inner, el.min), s2.built) >>)

DesugarRule ==
    /\ phase = "desugar" /\ at <= Size
    /\ LET out == DesugaredAlts([extra |-> extra, used |-> used, built |-> Eps], grammar[at].alts)
       IN  /\ rewritten' = Append(rewritten, [grammar[at] EXCEPT !.alts = out.alts])
           /\ extra' = out.st.extra
           /\ used' = out.st.used
    /\ at' = at + 1
    /\ UNCHANGED <<input, grammar, tails, phase, units, why>>

Finish ==
    /\ phase = "desugar" /\ at > Size
    /\ phase' = "done"
    /\ UNCHANGED <<input, grammar, tails, at, units, rewritten, extra, used, why>>

Desugaring == RewriteTails \/ CheckBounds \/ Charge \/ RefuseWalk \/ Walked \/ DesugarRule \/ Finish

-----------------------------------------------------------------------------
\* The grammar handed on: the author's rules first, then the helpers.
Result == rewritten \o extra

\* How the emitter compiles a tail repeat: after the prefix, as long as the
\* separator follows, the rule replaces itself.
Turn(p) == Group(<< tails[p.name] \o p.alts[1] >>)
Compiled(p) == IF p.name \in DOMAIN tails
               THEN [p EXCEPT !.alts = << Append(@[1], Star(Turn(p), NoGuard)) >>] ELSE p
Meaning == [k \in DOMAIN Result |-> Compiled(Result[k])]

(* No helper takes a name another rule has, an author's or a helper's: two *)
(* rules of one name would be compiled as one.                             *)
NamesDistinct ==
    \A k, m \in DOMAIN Result : Result[k].name = Result[m].name => k = m

(* "One unit is one mandatory copy or one generated helper": the units     *)
(* charged beforehand are exactly the helpers and copies numeric           *)
(* repetitions turn into, nested ones included.                            *)
RECURSIVE OtherHelpers(_), MandatoryCopies(_)
OtherHelpers(el) ==
    CASE el.kind = "group" -> 1 + SumOver(FlattenSeq(el.alts), OtherHelpers)
      [] el.kind \in {"opt", "star"} -> 1 + OtherHelpers(el.inner)
      [] el.kind = "plus"  -> 2 + OtherHelpers(el.inner)
      [] el.kind = "rep"   -> OtherHelpers(el.inner)
      [] OTHER             -> 0
MandatoryCopies(el) ==
    CASE el.kind = "group" -> SumOver(FlattenSeq(el.alts), MandatoryCopies)
      [] el.kind = "rep"   -> el.min + MandatoryCopies(el.inner)
      [] IsSugar(el)       -> MandatoryCopies(el.inner)
      [] OTHER             -> 0
UnitsExact ==
    phase = "done" =>
       LET all == FlattenSeq(FlattenSeq([k \in DOMAIN grammar |-> grammar[k].alts]))
       IN  units + SumOver(all, OtherHelpers) = Len(extra) + SumOver(all, MandatoryCopies)

(* Every loop the engine will be given consumes: the item of a helper      *)
(* loop, the turn of a tail repeat and the tokens of a probe, as desugared,*)
(* can no longer match nothing (validate_repetitions judges them before).  *)
LoopsConsume ==
    phase = "done" =>
       LET nullable == NonConsumingRules(Result)
       IN  /\ \A k \in DOMAIN extra :
                 extra[k].repeat_loop => ~MayMatchEmpty(extra[k].alts[1][1], nullable)
           /\ \A k \in DOMAIN rewritten :
                 /\ Eps \notin rewritten[k].vocab
                 /\ rewritten[k].name \in DOMAIN tails => ~MayMatchEmpty(Turn(rewritten[k]), nullable)
=============================================================================
