------------------------------- MODULE Ranges -------------------------------
(***************************************************************************)
(* Coverages (rs/src/ranges.rs): sequences of inclusive spans of code      *)
(* points.                                                                 *)
(***************************************************************************)
EXTENDS Integers, Sequences

CONSTANT MaxCodePoint       \* MAX_CODE_POINT

ASSUME MaxCodePointAssumption == MaxCodePoint \in Nat

CodePoint == 0..MaxCodePoint
Span(lo, hi) == [lo |-> lo, hi |-> hi]
Spans == { s \in [lo : CodePoint, hi : CodePoint] : s.lo <= s.hi }

In(c, s) == s.lo <= c /\ c <= s.hi
Covers(r, c) == \E k \in DOMAIN r : In(c, r[k])

\* What normalize_ranges makes of a coverage: sorted, with a gap between
\* one span and the next.
Normal(r) == \A k \in DOMAIN r, m \in DOMAIN r : k < m => r[k].hi + 1 < r[m].lo
Coverages == { r \in Seq(Spans) : Normal(r) }

\* The two coverages have a character in common.
ShareChar(r, s) == \E c \in CodePoint : Covers(r, c) /\ Covers(s, c)
=============================================================================
