------------------------------ MODULE Overlap -------------------------------
(***************************************************************************)
(* char_ranges_overlap (rs/src/ranges.rs): one sweep over two normalized   *)
(* coverages, one action per iteration of its loop, for one question after *)
(* the other.                                                              *)
(***************************************************************************)
EXTENDS Ranges

CONSTANT Asked              \* the coverages it is called with

ASSUME AskedAssumption == Asked \subseteq Coverages

VARIABLES
    a, b,                   \* the coverages
    i, j,                   \* the next span of each
    answer                  \* "none", "open", "yes" or "no"

sweepVars == <<a, b, i, j, answer>>

SweepInit == a = <<>> /\ b = <<>> /\ i = 1 /\ j = 1 /\ answer = "none"

Ask(r, s) == /\ answer # "open"
             /\ a' = r /\ b' = s
             /\ i' = 1 /\ j' = 1
             /\ answer' = "open"

InBoth == answer = "open" /\ i <= Len(a) /\ j <= Len(b)
\* A bug: spans that touch at one character are taken to be apart.
MeetInside(s, t) == s.lo < t.hi /\ t.lo < s.hi
Meet(s, t) == s.lo <= t.hi /\ t.lo <= s.hi

Found == /\ InBoth /\ Meet(a[i], b[j])
         /\ answer' = "yes"
         /\ UNCHANGED <<a, b, i, j>>

\* The coverage whose span ends first moves on.
EndsFirst(s, t) == s.hi < t.hi

NextOfA == /\ InBoth /\ ~Meet(a[i], b[j])
           /\ EndsFirst(a[i], b[j])
           /\ i' = i + 1
           /\ UNCHANGED <<a, b, j, answer>>

NextOfB == /\ InBoth /\ ~Meet(a[i], b[j])
           /\ ~EndsFirst(a[i], b[j])
           /\ j' = j + 1
           /\ UNCHANGED <<a, b, i, answer>>

RunOut == /\ answer = "open" /\ ~InBoth
          /\ answer' = "no"
          /\ UNCHANGED <<a, b, i, j>>

Sweep == Found \/ NextOfA \/ NextOfB \/ RunOut

SweepNext == Sweep \/ \E r \in Asked, s \in Asked : Ask(r, s)

SweepSpec == SweepInit /\ [][SweepNext]_sweepVars

-----------------------------------------------------------------------------
(* The sweep implements the question: it answers each at most once, and    *)
(* says yes exactly when the two coverages share a character, however      *)
(* their spans interleave (char_ranges_overlap).                           *)
TheQuestion == INSTANCE Question WITH a <- a, b <- b, answer <- answer
Answers == TheQuestion!Spec
=============================================================================
