------------------------------ MODULE Patterns ------------------------------
(***************************************************************************)
(* What a character class covers (rs/src/ranges.rs): its spans from its    *)
(* pattern, their normal form, and what a matcher that reads UTF-16 units  *)
(* can start on.  Code points are a scaled-down Unicode: characters of one *)
(* code unit, lead and trail surrogates among them, and the astral ones    *)
(* that PerLead of them begin with each lead.                              *)
(***************************************************************************)
EXTENDS Ranges, SequencesExt

CONSTANTS
    LeadLo, LeadHi,         \* U+D800, U+DBFF
    TrailLo,                \* U+DC00
    MaxUnit,                \* U+FFFF
    PerLead                 \* 0x400

ASSUME ScaleAssumption ==
    /\ LeadLo \in Nat /\ LeadHi \in Nat /\ TrailLo \in Nat /\ MaxUnit \in Nat
    /\ PerLead \in Nat \ {0}
    /\ 0 < LeadLo /\ LeadLo <= LeadHi /\ LeadHi < TrailLo
    /\ TrailLo + PerLead - 1 <= MaxUnit
    /\ MaxCodePoint = MaxUnit + PerLead * (LeadHi - LeadLo + 1)

(* A terminal: the members of its class as written, negated or not; raw    *)
(* members are not escaped.  points: it has a u or v flag.  single: it is  *)
(* one class or one character, and no i flag.                              *)
Class(members, neg, points, single) ==
    [members |-> members, neg |-> neg, points |-> points, single |-> single]
Member(lo, hi, raw) == [lo |-> lo, hi |-> hi, raw |-> raw]
Members == { m \in [lo : CodePoint, hi : CodePoint, raw : BOOLEAN] : m.lo <= m.hi }
Terminals == [members : Seq(Members), neg : BOOLEAN, points : BOOLEAN, single : BOOLEAN]

-----------------------------------------------------------------------------
(* pattern_char_ranges.                                                    *)

LeadOf(c) == LeadLo + (c - MaxUnit - 1) \div PerLead
TrailOf(c) == TrailLo + ((c - MaxUnit - 1) % PerLead)

\* An astral member written as itself, without u, is also its two halves.
Halves(t, raw, c) == IF raw /\ ~t.points /\ c > MaxUnit
                     THEN << Span(LeadOf(c), LeadOf(c)), Span(TrailOf(c), TrailOf(c)) >>
                     ELSE <<>>
SpansOf(t, m) == Halves(t, m.raw, m.lo) \o (IF m.lo = m.hi THEN <<>> ELSE Halves(t, m.raw, m.hi))
                   \o << Span(m.lo, m.hi) >>
MemberSpans(t) == FlattenSeq([ k \in DOMAIN t.members |-> SpansOf(t, t.members[k]) ])

\* sort_by: where one span goes among those sorted before it.
NotAfter(s, t) == s.lo < t.lo \/ (s.lo = t.lo /\ s.hi <= t.hi)
Place(q, s) == CHOOSE p \in 1..Len(q) + 1 : \A k \in DOMAIN q : k < p <=> NotAfter(q[k], s)
ByLow(r) == LET sorted[k \in 0..Len(r)] ==
                    IF k = 0 THEN <<>> ELSE InsertAt(sorted[k - 1], Place(sorted[k - 1], r[k]), r[k])
            IN  sorted[Len(r)]

\* What lies between the spans, those up to from scanned.
Scanned(acc, s) ==
    [gaps |-> IF acc.from < s.lo THEN Append(acc.gaps, Span(acc.from, s.lo - 1)) ELSE acc.gaps,
     from |-> IF s.hi + 1 > acc.from THEN s.hi + 1 ELSE acc.from]
Complement(r) ==
    LET s == ByLow(r)
        scan[k \in 0..Len(s)] ==
            IF k = 0 THEN [gaps |-> <<>>, from |-> 0] ELSE Scanned(scan[k - 1], s[k])
        end == scan[Len(s)]
    IN  IF end.from <= MaxCodePoint THEN Append(end.gaps, Span(end.from, MaxCodePoint)) ELSE end.gaps

PatternRanges(t) == IF t.neg THEN Complement(MemberSpans(t)) ELSE MemberSpans(t)

-----------------------------------------------------------------------------
(* normalize_ranges: sorted, touching and overlapping spans merged.        *)

Merge(acc, s) ==
    IF acc = <<>> \/ Last(acc).hi + 1 < s.lo THEN Append(acc, s)
    ELSE IF Last(acc).hi < s.hi THEN [acc EXCEPT ![Len(acc)].hi = s.hi] ELSE acc
Normalize(r) ==
    LET s == ByLow(r)
        merged[k \in 0..Len(s)] == IF k = 0 THEN <<>> ELSE Merge(merged[k - 1], s[k])
    IN  merged[Len(s)]

\* single_code_point_ranges: a class that is matched by the code unit and
\* takes part of what is past the units is left alone.
TakesPart(t) == /\ t.single
                /\ t.points \/ \A k \in DOMAIN PatternRanges(t) : PatternRanges(t)[k].hi <= MaxUnit

\* code_unit_reach.  A bug: the first character of each lead only.
Astral(lo, hi, last) ==
    Span(MaxUnit + 1 + (lo - LeadLo) * PerLead, MaxUnit + 1 + (hi - LeadLo) * PerLead + last)
LeadsOf(s) == Span(IF s.lo < LeadLo THEN LeadLo ELSE s.lo, IF s.hi > LeadHi THEN LeadHi ELSE s.hi)
Reached(s, last) == IF LeadsOf(s).lo <= LeadsOf(s).hi
                    THEN << Astral(LeadsOf(s).lo, LeadsOf(s).hi, last) >> ELSE <<>>
ReachOf(r, points, last) ==
    IF points THEN r ELSE r \o FlattenSeq([ k \in DOMAIN r |-> Reached(r[k], last) ])
FirstOfEach(r, points) == ReachOf(r, points, 0)
CodeUnitReach(r, points) == ReachOf(r, points, PerLead - 1)

\* lead_surrogates
Leads(r) == { c \in LeadLo..LeadHi : Covers(r, c) }

(* What the canonical matcher takes at a position, given the code point    *)
(* there: with u that code point; without, its first code unit.            *)
FirstUnit(c) == IF c > MaxUnit THEN LeadOf(c) ELSE c
Takes(r, points, c) == Covers(r, IF points THEN c ELSE FirstUnit(c))
=============================================================================
