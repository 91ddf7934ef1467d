--------------------------- MODULE RewriteSources ---------------------------
(***************************************************************************)
(* The source trees of rs/src/leftrec.rs: beside every element the pass    *)
(* keeps the rule it was written in, in a tree of the same shape, so that  *)
(* a loop the pass invents is still reported against the author's rule.    *)
(* Source spans are left out.                                              *)
(***************************************************************************)
EXTENDS Grammar
LOCAL INSTANCE SequencesExt

\* RewriteSource: kids is <<>>, <<source>> of the inner element, or the
\* sources of a group's alternatives.
Source(rule, shape, kids) == [rule |-> rule, shape |-> shape, kids |-> kids]
Leaf(rule) == Source(rule, "none", <<>>)
WithInner(src, inner) == [src EXCEPT !.shape = "inner", !.kids = <<inner>>]
WithGroup(src, alts)  == [src EXCEPT !.shape = "group", !.kids = alts]

RECURSIVE AuthoredSource(_, _)
AuthoredSource(el, rule) ==
    CASE IsSugar(el)       -> WithInner(Leaf(rule), AuthoredSource(el.inner, rule))
      [] el.kind = "group" ->
           WithGroup(Leaf(rule), [a \in DOMAIN el.alts |->
                 [k \in DOMAIN el.alts[a] |-> AuthoredSource(el.alts[a][k], rule)]])
      [] OTHER             -> Leaf(rule)

AuthoredSources(p) ==
    [a \in DOMAIN p.alts |-> [k \in DOMAIN p.alts[a] |-> AuthoredSource(p.alts[a][k], p.name)]]

\* generated_group_source: the rule of the first source, or of the fallback.
GroupSource(alts, rule) ==
    LET all == FlattenSeq(alts)
    IN  WithGroup(IF all = <<>> THEN Leaf(rule) ELSE Leaf(Head(all).rule), alts)

-----------------------------------------------------------------------------
(* What can refuse the rewritten grammar: each walk gives the rules whose  *)
(* source is to blame, in the order the walk meets them; it stops at the   *)
(* first.  zip pairs an element with its source and drops what is left     *)
(* over, so an element without a source is never looked at.                *)
Paired(alt, srcs) == [k \in 1..(IF Len(alt) < Len(srcs) THEN Len(alt) ELSE Len(srcs)) |->
                      <<alt[k], srcs[k]>>]

\* The pairs of an element's children, when its source has the same shape.
Children(el, src) ==
    IF IsSugar(el) /\ src.shape = "inner" THEN << <<el.inner, src.kids[1]>> >>
    ELSE IF el.kind = "group" /\ src.shape = "group"
         THEN FlattenSeq([a \in 1..Len(Paired(el.alts, src.kids)) |-> Paired(el.alts[a], src.kids[a])])
         ELSE <<>>

\* non_consuming_source: the source of what lets el match nothing.
\* A bug: the source of el itself.
OwnSource(el, src, nullable) == src
RECURSIVE NonConsumingSource(_, _, _)
NonConsumingSource(el, src, nullable) ==
    IF el.kind = "group" /\ src.shape = "group"
    THEN LET a == CHOOSE x \in DOMAIN el.alts :
                    /\ AltMayMatchEmpty(el.alts[x], nullable)
                    /\ \A y \in 1..(x - 1) : ~AltMayMatchEmpty(el.alts[y], nullable)
         IN  IF el.alts[a] = <<>> THEN src
             ELSE NonConsumingSource(el.alts[a][1], src.kids[a][1], nullable)
    ELSE IF src.shape = "inner" /\ (el.kind = "plus" \/ (el.kind = "rep" /\ el.min > 0))
         THEN NonConsumingSource(el.inner, src.kids[1], nullable)
         ELSE src

\* validate_bounds
RECURSIVE BadBounds(_, _)
BadBounds(el, src) ==
    (IF el.kind = "rep" /\ el.max # NoMax /\ el.max < el.min THEN <<src.rule>> ELSE <<>>)
    \o FlattenSeq([k \in DOMAIN Children(el, src) |->
                     BadBounds(Children(el, src)[k][1], Children(el, src)[k][2])])

\* walk
RECURSIVE EmptyLoops(_, _, _)
EmptyLoops(el, src, nullable) ==
    LET innerSrc == IF src.shape = "inner" THEN src.kids[1] ELSE src
        loops    == IsSugar(el) /\ IsUnbounded(el) /\ MayMatchEmpty(el.inner, nullable)
        here     == IF loops THEN <<NonConsumingSource(el.inner, innerSrc, nullable).rule>>
                    ELSE <<>>
        below    == IF IsSugar(el) THEN << <<el.inner, innerSrc>> >> ELSE Children(el, src)
    IN  here \o FlattenSeq([k \in DOMAIN below |->
                              EmptyLoops(below[k][1], below[k][2], nullable)])

OverGrammar(prods, sources, Walk(_, _)) ==
    FlattenSeq([i \in DOMAIN prods |->
       FlattenSeq([a \in 1..Len(Paired(prods[i].alts, sources[prods[i].name])) |->
          LET pairs == Paired(prods[i].alts[a], sources[prods[i].name][a])
          IN  FlattenSeq([k \in DOMAIN pairs |-> Walk(pairs[k][1], pairs[k][2])])])])

\* validate_rewrite_repetitions: bounds first, then loops.
BoundRefusals(prods, sources) == OverGrammar(prods, sources, BadBounds)
LoopRefusals(prods, sources) ==
    LET nullable == NonConsumingRules(prods)
    IN  OverGrammar(prods, sources, LAMBDA el, src : EmptyLoops(el, src, nullable))

-----------------------------------------------------------------------------
\* The source tree has the shape of the element, all the way down.
RECURSIVE Mirrors(_, _)
Mirrors(el, src) ==
    CASE IsSugar(el)       -> src.shape = "inner" /\ Mirrors(el.inner, src.kids[1])
      [] el.kind = "group" ->
           /\ src.shape = "group"
           /\ Len(el.alts) = Len(src.kids)
           /\ \A a \in DOMAIN el.alts :
                /\ Len(el.alts[a]) = Len(src.kids[a])
                /\ \A k \in DOMAIN el.alts[a] : Mirrors(el.alts[a][k], src.kids[a][k])
      [] OTHER             -> src.shape = "none"
=============================================================================
