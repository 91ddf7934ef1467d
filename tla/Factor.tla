------------------------------- MODULE Factor -------------------------------
(***************************************************************************)
(* left_factor (rs/src/factor.rs): alternatives that begin alike, further  *)
(* than the dispatcher looks ahead, are merged into one that ends in a     *)
(* helper for their tails; helpers join the queue and are factored in      *)
(* their turn.  Every question about another rule is asked of the grammar  *)
(* as it was given.                                                        *)
(***************************************************************************)
EXTENDS Grammar, TLC
LOCAL INSTANCE SequencesExt
LOCAL INSTANCE FiniteSetsExt

CONSTANTS
    LookaheadK,         \* LOOKAHEAD_K
    CharsOf             \* the ranges of the characters each terminal begins with

VARIABLES
    input,
    queue,              \* the productions still to factor
    cur,                \* the one being factored, if any
    out,                \* those factored
    used,               \* the names taken
    refused             \* whether an annotated rule was about to be dissolved

vars == <<input, queue, cur, out, used, refused>>

NoProduction == Production("none", <<>>)

BeginFactor(g) ==
    /\ input' = g
    /\ queue' = g /\ cur' = NoProduction /\ out' = <<>>
    /\ used' = NamesOf(g)
    /\ refused' = FALSE

-----------------------------------------------------------------------------
(* What alternatives are compared by.                                      *)

\* elem_equal: names, bounds and guards, sugar and groups all the way down.
ElemEqual(x, y) == x = y

\* An alternative that is one group of one alternative is seen through.
RECURSIVE UnwrapAlt(_)
UnwrapAlt(alt) ==
    IF Len(alt) = 1 /\ alt[1].kind = "group" /\ Len(alt[1].alts) = 1
    THEN UnwrapAlt(alt[1].alts[1])
    ELSE alt

\* A prefix the dispatcher's lookahead cannot see past.
BeyondLookahead(prefix) == SpanOf(prefix, input, LookaheadK) > LookaheadK

\* The ranges of an element's first characters, as the walk meets them, or
\* Unknown: an element that may match nothing is not told.
Unknown == [known |-> FALSE, ranges |-> <<>>]
Known(ranges) == [known |-> TRUE, ranges |-> ranges]

RECURSIVE FirstRanges(_, _)
FirstOfAlts(alts, visited) ==
    FoldLeft(LAMBDA acc, alt :
               IF ~acc.known \/ alt = <<>> THEN Unknown
               ELSE LET first == FirstRanges(alt[1], visited)
                    IN  IF first.known THEN Known(acc.ranges \o first.ranges) ELSE Unknown,
             Known(<<>>), alts)
FirstRanges(el, visited) ==
    CASE el.kind = "term" -> IF el.name = Eps THEN Unknown ELSE Known(CharsOf[el.name])
      [] el.kind = "plus" -> FirstRanges(el.inner, visited)
      [] el.kind = "rep" /\ el.min > 0 -> FirstRanges(el.inner, visited)
      [] el.kind = "group" -> FirstOfAlts(el.alts, visited)
      [] el.kind = "ref" /\ el.name \notin visited /\ el.name \in NamesOf(input) ->
           IF Find(input, el.name).alts = <<>> THEN Unknown
           ELSE FirstOfAlts(Find(input, el.name).alts, visited \cup {el.name})
      [] OTHER -> Unknown

\* char_ranges_overlap: one sweep of both, made for sorted ranges.
RECURSIVE Sweep(_, _)
Sweep(r, s) ==
    /\ r # <<>> /\ s # <<>>
    /\ \/ r[1][1] <= s[1][2] /\ s[1][1] <= r[1][2]
       \/ r[1][2] < s[1][2] /\ Sweep(Tail(r), s)
       \/ r[1][2] >= s[1][2] /\ Sweep(r, Tail(s))

Disjoint(el, f) == /\ FirstRanges(el, {}).known
                   /\ FirstRanges(f, {}).known
                   /\ ~Sweep(FirstRanges(el, {}).ranges, FirstRanges(f, {}).ranges)

-----------------------------------------------------------------------------
(* Which alternatives run together.                                        *)

\* inline_head_ref: v begins with a rule whose one alternative begins with
\* head, and can be written out.
Body(v) == UnwrapAlt(Find(input, v[1].name).alts[1])
Inlines(v, head) ==
    /\ IsRef(v[1]) /\ v[1].name \in NamesOf(input)
    /\ LET target == Find(input, v[1].name)
       IN  /\ Len(target.alts) = 1 /\ ~target.fixed
           /\ Body(v) # <<>> /\ ElemEqual(Body(v)[1], head)

Joins(v, head) == v # <<>> /\ (ElemEqual(v[1], head) \/ Inlines(v, head))
\* A bug: what follows the rule that is written out is lost.
ViewHead(v, head) == IF ElemEqual(v[1], head) THEN v ELSE Body(v)
MemberView(v, head) == IF ElemEqual(v[1], head) THEN v ELSE Body(v) \o Tail(v)
PassedOver(v, head) == v # <<>> /\ Disjoint(head, v[1])

\* The alternatives that can be merged with the i-th: those that join it,
\* with only alternatives that join or are passed over in between.
RunOf(views, i) ==
    {i} \cup { j \in (i + 1)..Len(views) :
                 /\ Joins(views[j], views[i][1])
                 /\ \A k \in (i + 1)..(j - 1) : \/ Joins(views[k], views[i][1])
                                                \/ PassedOver(views[k], views[i][1]) }

\* What the alternatives of a run have in common, element by element.
Shares(vs, n) == \A v \in vs, w \in vs : /\ Len(v) >= n
                                         /\ \A k \in 1..n : ElemEqual(v[k], w[k])
Common(vs) == Max({ n \in 1..Min({ Len(v) : v \in vs }) : Shares(vs, n) })

Views(alts) == [k \in DOMAIN alts |-> UnwrapAlt(alts[k])]
RunViews(views, i) == [j \in RunOf(views, i) |-> MemberView(views[j], views[i][1])]
SetOfViews(run) == { run[j] : j \in DOMAIN run }
PrefixOf(run, i) == SubSeq(run[i], 1, Common(SetOfViews(run)))

Factors(views, i) ==
    /\ views[i] # <<>>
    /\ Cardinality(RunOf(views, i)) >= 2
    /\ BeyondLookahead(PrefixOf(RunViews(views, i), i))
Candidates(alts) == { i \in 1..(Len(alts) - 1) : Factors(Views(alts), i) }

-----------------------------------------------------------------------------
\* fresh_fact_name
FactName(base, k) == base \o "$fact" \o ToString(k)
FreshFactName(base) ==
    FactName(base, CHOOSE k \in 0..Cardinality(used) :
                     /\ FactName(base, k) \notin used
                     /\ \A m \in 0..(k - 1) : FactName(base, m) \in used)

\* Each tail once, the empty one last: it matches whatever follows.
EmptyLast(tails) == SelectSeq(tails, LAMBDA t : t # <<>>)
                    \o (IF <<>> \in ToSet(tails) THEN << <<>> >> ELSE <<>>)
Once(tails) == FoldLeft(LAMBDA acc, t : IF t \in ToSet(acc) THEN acc ELSE Append(acc, t),
                        <<>>, tails)

Take == /\ cur = NoProduction /\ queue # <<>> /\ ~refused
        /\ cur' = Head(queue)
        /\ queue' = Tail(queue)
        /\ UNCHANGED <<input, out, used, refused>>

\* factor_once, for the i-th alternative of p, which heads a run to factor.
Merged(p, i) ==
    LET views   == Views(p.alts)
        run     == RunViews(views, i)
        members == SetToSortSeq(DOMAIN run, <)
        prefix  == PrefixOf(run, i)
        tails   == EmptyLast(Once([k \in DOMAIN members |->
                      SubSeq(run[members[k]], Len(prefix) + 1, Len(run[members[k]]))]))
        merged  == IF Len(tails) = 1 THEN prefix \o tails[1]
                   ELSE Append(prefix, Ref(FreshFactName(p.name)))
        wrapped == \A j \in DOMAIN run : Len(p.alts[j]) = 1 /\ p.alts[j][1].kind = "group"
        alts    == [p.alts EXCEPT ![i] = IF wrapped THEN << Group(<<merged>>) >> ELSE merged]
        kept    == SetToSortSeq(DOMAIN alts \ (DOMAIN run \ {i}), <)
    IN  [alts  |-> [k \in DOMAIN kept |-> alts[kept[k]]],
         tails |-> tails,
         \* the rules written out for it
         dissolved |-> { views[j][1].name : j \in { m \in DOMAIN run :
                            ~ElemEqual(views[m][1], views[i][1]) } }]

FactorOnce ==
    /\ cur # NoProduction /\ ~cur.fixed /\ ~refused
    /\ Candidates(cur.alts) # {}
    /\ \E merged \in { Merged(cur, Min(Candidates(cur.alts))) } :
          IF \E n \in merged.dissolved : Find(input, n).valued
          THEN refused' = TRUE /\ UNCHANGED <<queue, cur, used>>
          ELSE /\ cur' = [cur EXCEPT !.alts = merged.alts]
               /\ IF Len(merged.tails) = 1 THEN UNCHANGED <<queue, used>>
                  ELSE /\ queue' = Append(queue,
                            [Production(FreshFactName(cur.name), merged.tails) EXCEPT
                               !.repeat_helper = <<>> \in ToSet(merged.tails)])
                       /\ used' = used \cup {FreshFactName(cur.name)}
               /\ UNCHANGED refused
    /\ UNCHANGED <<input, out>>

Keep == /\ cur # NoProduction /\ ~refused
        /\ cur.fixed \/ Candidates(cur.alts) = {}
        /\ out' = Append(out, cur)
        /\ cur' = NoProduction
        /\ UNCHANGED <<input, queue, used, refused>>

Factored == queue = <<>> /\ cur = NoProduction /\ ~refused
Factoring == Take \/ FactorOnce \/ Keep

-----------------------------------------------------------------------------
Productions == out \o queue \o (IF cur = NoProduction THEN <<>> ELSE <<cur>>)

\* The characters of a coverage.
Chars(r) == UNION { r[k][1]..r[k][2] : k \in DOMAIN r }

\* The alternatives a merge would move another one past.
Overtaken(alts) ==
    { <<i, k>> \in (DOMAIN alts) \X (DOMAIN alts) :
        /\ i \in Candidates(alts) /\ k > i
        /\ k \notin RunOf(Views(alts), i)
        /\ \E j \in RunOf(Views(alts), i) : j > k }
BeginApart(alts, i, k) ==
    LET r == FirstRanges(UnwrapAlt(alts[i])[1], {})
        s == FirstRanges(UnwrapAlt(alts[k])[1], {})
    IN  r.known /\ s.known /\ Chars(r.ranges) \cap Chars(s.ranges) = {}

(* "Alternatives between members are skipped over only when their first    *)
(* characters are provably disjoint from the head's" (factor_once).        *)
SkipsApart == \A <<i, k>> \in Overtaken(cur.alts) : BeginApart(cur.alts, i, k)
=============================================================================
