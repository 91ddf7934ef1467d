------------------------------ MODULE Partition -----------------------------
(***************************************************************************)
(* partition_ranges (rs/src/ranges.rs): coverages are cut at every         *)
(* boundary of a span; one action per window between two cuts.             *)
(***************************************************************************)
EXTENDS Ranges

CONSTANT Given              \* the sets of coverages it is called with

ASSUME GivenAssumption == \A cs \in Given : cs \subseteq Seq(Spans)

VARIABLES
    coverages,
    at,                 \* the cut the window starts at
    atoms               \* the spans kept

partitionVars == <<coverages, at, atoms>>

\* A bug: a span is cut at its last character instead of after it.
CutsShort(cs) == UNION { { r[k].lo : k \in DOMAIN r } \cup { r[k].hi : k \in DOMAIN r } : r \in cs }
Cuts(cs) == UNION { { r[k].lo : k \in DOMAIN r } \cup { r[k].hi + 1 : k \in DOMAIN r } : r \in cs }

FirstCut(cs, c) == \A d \in Cuts(cs) : c <= d
NextCut(cs, c, next) == /\ next \in Cuts(cs) /\ c < next
                        /\ \A d \in Cuts(cs) : c < d => next <= d
LastCut(cs, c) == \A d \in Cuts(cs) : d <= c

\* One span of the coverage holds all of s.
Holds(r, s) == \E k \in DOMAIN r : r[k].lo <= s.lo /\ s.hi <= r[k].hi
SomeHolds(cs, s) == \E r \in cs : Holds(r, s)

\* The window from one cut to the next.  A bug: the next cut is in it.
WindowThrough(c, next) == Span(c, next)
WindowTo(c, next) == Span(c, next - 1)

PartitionInit == /\ coverages \in Given
                 /\ at \in Cuts(coverages) /\ FirstCut(coverages, at)
                 /\ atoms = {}

Window == \E next \in Cuts(coverages) :
             /\ NextCut(coverages, at, next)
             /\ at' = next
             /\ atoms' = IF SomeHolds(coverages, WindowTo(at, next))
                         THEN atoms \cup {WindowTo(at, next)} ELSE atoms
             /\ UNCHANGED coverages

AllCut == LastCut(coverages, at)
PartitionSpec == PartitionInit /\ [][Window]_partitionVars

-----------------------------------------------------------------------------
(* "The coarsest set of pairwise-disjoint spans" (partition_ranges): no    *)
(* character is in two atoms, so no two matchers can claim it.             *)
AtomsApart == \A s \in atoms, t \in atoms : \A c \in CodePoint : In(c, s) /\ In(c, t) => s = t

(* "such that every input coverage is an exact union of them": in the end  *)
(* a coverage takes a character exactly when it holds the character's      *)
(* atom, whole.                                                            *)
AtomsExact == AllCut => \A r \in coverages, c \in CodePoint :
                           Covers(r, c) <=> \E t \in atoms : In(c, t) /\ Holds(r, t)
=============================================================================
