--------------------------- MODULE Classes_proofs ---------------------------
(***************************************************************************)
(* Proofs about character ranges and token classes.  First the algorithms  *)
(* of ranges.rs on coverages of any length and any number of code points:  *)
(* normalize_ranges, the complement of a class and code_unit_reach give    *)
(* the coverage they promise, char_ranges_overlap answers the question it  *)
(* is asked, and the atoms partition_ranges makes are disjoint and every   *)
(* coverage is an exact union of them.  Then Classes: a class laid over    *)
(* the partition reads as it is written, whatever classes share its atoms, *)
(* and the contest checks are told what its tokens can start on.           *)
(***************************************************************************)
EXTENDS Classes, Overlap, Partition, Patterns, Induction

-----------------------------------------------------------------------------
(* char_ranges_overlap.                                                    *)

SweepTypeOK == /\ a \in Coverages /\ b \in Coverages
               /\ i \in Nat \ {0} /\ j \in Nat \ {0}
               /\ i <= Len(a) + 1 /\ j <= Len(b) + 1
               /\ answer \in {"none", "open", "yes", "no"}

\* No span either has left behind meets any span of the other.
LeftBehindApart ==
    \A k \in DOMAIN a, m \in DOMAIN b : (k < i \/ m < j) => ~Meet(a[k], b[m])

SweepInv == /\ SweepTypeOK
            /\ answer # "yes" => LeftBehindApart
            /\ answer = "yes" => ShareChar(a, b)
            /\ answer = "no"  => i > Len(a) \/ j > Len(b)

-----------------------------------------------------------------------------
(* A span of a normalized coverage, and the order of two of them.          *)
LEMMA SpanIn ==
    ASSUME NEW r \in Coverages, NEW k \in DOMAIN r
    PROVE  r[k].lo \in Nat /\ r[k].hi \in Nat /\ r[k].lo <= r[k].hi /\ r[k].hi \in CodePoint
                /\ r[k].lo \in CodePoint
<1>1. r[k] \in Spans
  BY DEF Coverages
<1> QED BY <1>1, MaxCodePointAssumption DEF Spans, CodePoint

(* Ranges that come in order are in order however far apart (normalise).   *)
LEMMA InOrder ==
    ASSUME NEW r \in Coverages, NEW k \in DOMAIN r, NEW m \in DOMAIN r, k < m
    PROVE  r[k].hi + 1 < r[m].lo
BY DEF Coverages, Normal

(* Two spans that meet have a character in common.                         *)
LEMMA MeetShares ==
    ASSUME NEW r \in Coverages, NEW s \in Coverages, NEW k \in DOMAIN r, NEW m \in DOMAIN s
    PROVE  Meet(r[k], s[m]) <=> \E c \in CodePoint : In(c, r[k]) /\ In(c, s[m])
<1>1. /\ r[k].lo \in Nat /\ r[k].hi \in Nat /\ r[k].lo <= r[k].hi
      /\ s[m].lo \in Nat /\ s[m].hi \in Nat /\ s[m].lo <= s[m].hi
      /\ r[k].lo \in CodePoint /\ s[m].lo \in CodePoint
  BY SpanIn
<1>2. ASSUME Meet(r[k], s[m]) PROVE \E c \in CodePoint : In(c, r[k]) /\ In(c, s[m])
  <2>1. CASE r[k].lo <= s[m].lo
    BY <2>1, <1>1, <1>2 DEF Meet, In
  <2>2. CASE s[m].lo <= r[k].lo
    BY <2>2, <1>1, <1>2 DEF Meet, In
  <2> QED BY <1>1, <2>1, <2>2
<1>3. ASSUME NEW c \in CodePoint, In(c, r[k]), In(c, s[m]) PROVE Meet(r[k], s[m])
  BY <1>1, <1>3, MaxCodePointAssumption DEF Meet, In, CodePoint
<1> QED BY <1>2, <1>3

(* The span that ends first, and meets not the other, is left behind for   *)
(* good: all that follows in the other coverage begins after it.           *)
LEMMA LeavesBehind ==
    ASSUME NEW r \in Coverages, NEW s \in Coverages, NEW k \in DOMAIN r, NEW m \in DOMAIN s,
           ~Meet(r[k], s[m]), r[k].hi <= s[m].hi, NEW q \in DOMAIN s, m <= q
    PROVE  ~Meet(r[k], s[q]) /\ ~Meet(s[q], r[k])
<1>1. /\ r[k].lo \in Nat /\ r[k].hi \in Nat /\ r[k].lo <= r[k].hi
      /\ s[m].lo \in Nat /\ s[m].hi \in Nat /\ s[m].lo <= s[m].hi
      /\ s[q].lo \in Nat /\ s[q].hi \in Nat /\ s[q].lo <= s[q].hi
  BY SpanIn
<1>2. r[k].hi < s[m].lo
  BY <1>1 DEF Meet
<1>3. CASE m = q
  BY <1>3, <1>1, <1>2 DEF Meet
<1>4. CASE m < q
  <2>1. s[m].hi + 1 < s[q].lo
    BY <1>4, InOrder
  <2> QED BY <2>1, <1>1, <1>2 DEF Meet
<1>5. m \in Int /\ q \in Int
  BY DEF Coverages
<1> QED BY <1>3, <1>4, <1>5

(* The sweep starts with both scans at the first range (char_ranges_overlap). *)
LEMMA SweepInitInv == SweepInit => SweepInv
<1> SUFFICES ASSUME SweepInit PROVE SweepInv
  OBVIOUS
<1>1. <<>> \in Coverages /\ Len(<<>>) = 0
  BY DEF Coverages, Normal
<1> QED BY <1>1 DEF SweepInit, SweepInv, SweepTypeOK, LeftBehindApart

(* Where the sweep stands.                                                 *)
LEMMA Standing ==
    ASSUME SweepTypeOK
    PROVE  /\ a \in Coverages /\ b \in Coverages
           /\ DOMAIN a = 1..Len(a) /\ DOMAIN b = 1..Len(b)
           /\ Len(a) \in Nat /\ Len(b) \in Nat
           /\ InBoth => i \in DOMAIN a /\ j \in DOMAIN b
<1>1. a \in Coverages /\ b \in Coverages
  BY AskedAssumption DEF SweepTypeOK
<1>2. a \in Seq(Spans) /\ b \in Seq(Spans)
  BY <1>1 DEF Coverages
<1> QED BY <1>1, <1>2 DEF SweepTypeOK, InBoth

(* Two ranges that meet share a character, the answer the scan returns.    *)
LEMMA FoundInv == SweepInv /\ Found => SweepInv' /\ ShareChar(a, b)
<1> SUFFICES ASSUME SweepInv, Found PROVE SweepInv' /\ ShareChar(a, b)
  OBVIOUS
<1>1. SweepTypeOK /\ InBoth /\ Meet(a[i], b[j])
  BY DEF SweepInv, Found
<1>2. a \in Coverages /\ b \in Coverages /\ i \in DOMAIN a /\ j \in DOMAIN b
  BY <1>1, Standing
<1>3. \E c \in CodePoint : In(c, a[i]) /\ In(c, b[j])
  BY <1>1, <1>2, MeetShares
<1>4. ShareChar(a, b)
  BY <1>2, <1>3 DEF ShareChar, Covers
<1> QED BY <1>1, <1>4 DEF Found, SweepInv, SweepTypeOK, ShareChar, Covers, In

(* The first range ends first: what it could share it has shared.          *)
LEMMA NextOfAInv == SweepInv /\ NextOfA => SweepInv'
<1> SUFFICES ASSUME SweepInv, NextOfA PROVE SweepInv'
  OBVIOUS
<1>1. SweepTypeOK /\ InBoth /\ ~Meet(a[i], b[j]) /\ a[i].hi < b[j].hi /\ LeftBehindApart
  BY DEF SweepInv, NextOfA, EndsFirst, InBoth
<1>2. a \in Coverages /\ b \in Coverages /\ i \in DOMAIN a /\ j \in DOMAIN b
      /\ DOMAIN a = 1..Len(a) /\ DOMAIN b = 1..Len(b) /\ Len(a) \in Nat /\ Len(b) \in Nat
  BY <1>1, Standing
<1>3. SweepTypeOK'
  BY <1>1, <1>2 DEF NextOfA, InBoth, SweepTypeOK
<1>4. a[i].hi \in Nat /\ b[j].hi \in Nat
  BY <1>2, SpanIn
<1>5. LeftBehindApart'
  <2> SUFFICES ASSUME NEW k \in DOMAIN a, NEW m \in DOMAIN b, k < i + 1 \/ m < j
               PROVE  ~Meet(a[k], b[m])
    BY DEF NextOfA, LeftBehindApart, Meet
  <2>1. CASE k < i \/ m < j
    BY <2>1, <1>1 DEF LeftBehindApart
  <2>2. CASE k = i /\ j <= m
    BY <2>2, <1>1, <1>2, <1>4, LeavesBehind
  <2> QED BY <2>1, <2>2, <1>2
<1> QED BY <1>1, <1>3, <1>5 DEF SweepInv, NextOfA, InBoth

(* The second range ends first: what it could share it has shared.         *)
LEMMA NextOfBInv == SweepInv /\ NextOfB => SweepInv'
<1> SUFFICES ASSUME SweepInv, NextOfB PROVE SweepInv'
  OBVIOUS
<1>1. SweepTypeOK /\ InBoth /\ ~Meet(a[i], b[j]) /\ ~(a[i].hi < b[j].hi) /\ LeftBehindApart
  BY DEF SweepInv, NextOfB, EndsFirst, InBoth
<1>2. a \in Coverages /\ b \in Coverages /\ i \in DOMAIN a /\ j \in DOMAIN b
      /\ DOMAIN a = 1..Len(a) /\ DOMAIN b = 1..Len(b) /\ Len(a) \in Nat /\ Len(b) \in Nat
  BY <1>1, Standing
<1>3. SweepTypeOK'
  BY <1>1, <1>2 DEF NextOfB, InBoth, SweepTypeOK
<1>4. b[j].hi <= a[i].hi /\ ~Meet(b[j], a[i])
  BY <1>1, <1>2, SpanIn DEF Meet
<1>5. LeftBehindApart'
  <2> SUFFICES ASSUME NEW k \in DOMAIN a, NEW m \in DOMAIN b, k < i \/ m < j + 1
               PROVE  ~Meet(a[k], b[m])
    BY DEF NextOfB, LeftBehindApart, Meet
  <2>1. CASE k < i \/ m < j
    BY <2>1, <1>1 DEF LeftBehindApart
  <2>2. CASE m = j /\ i <= k
    BY <2>2, <1>2, <1>4, LeavesBehind
  <2> QED BY <2>1, <2>2, <1>2
<1> QED BY <1>1, <1>3, <1>5 DEF SweepInv, NextOfB, InBoth

(* When one coverage has run out, every pair of spans has been left        *)
(* behind.                                                                 *)
LEMMA RunOutIsNo ==
    ASSUME SweepTypeOK, LeftBehindApart, i > Len(a) \/ j > Len(b)
    PROVE  ~ShareChar(a, b)
<1>1. a \in Coverages /\ b \in Coverages
      /\ DOMAIN a = 1..Len(a) /\ DOMAIN b = 1..Len(b) /\ Len(a) \in Nat /\ Len(b) \in Nat
  BY Standing
<1> SUFFICES ASSUME NEW c \in CodePoint, Covers(a, c), Covers(b, c) PROVE FALSE
  BY DEF ShareChar
<1>2. PICK k \in DOMAIN a : In(c, a[k])
  BY DEF Covers
<1>3. PICK m \in DOMAIN b : In(c, b[m])
  BY DEF Covers
<1>4. Meet(a[k], b[m])
  BY <1>1, <1>2, <1>3, MeetShares
<1>5. k < i \/ m < j
  BY <1>1 DEF SweepTypeOK
<1> QED BY <1>4, <1>5 DEF LeftBehindApart

(* Once one side has no range left nothing is shared.                      *)
LEMMA RunOutInv == SweepInv /\ RunOut => SweepInv' /\ ~ShareChar(a, b)
<1> SUFFICES ASSUME SweepInv, RunOut PROVE SweepInv' /\ ~ShareChar(a, b)
  OBVIOUS
<1>1. SweepTypeOK /\ LeftBehindApart /\ (i > Len(a) \/ j > Len(b))
  <2>1. SweepTypeOK /\ LeftBehindApart /\ ~(i <= Len(a) /\ j <= Len(b))
    BY DEF SweepInv, RunOut, InBoth
  <2>2. Len(a) \in Nat /\ Len(b) \in Nat
    BY <2>1, Standing
  <2> QED BY <2>1, <2>2 DEF SweepTypeOK
<1>2. ~ShareChar(a, b)
  BY <1>1, RunOutIsNo
<1> QED BY <1>1, <1>2 DEF SweepInv, RunOut, SweepTypeOK, LeftBehindApart, Meet

(* What the sweep does not change keeps its invariant.                     *)
LEMMA StutterInv == SweepInv /\ UNCHANGED sweepVars => SweepInv'
BY DEF sweepVars, SweepInv, SweepTypeOK, LeftBehindApart, Meet, ShareChar, Covers, In

(* A new question starts from the first range of each side.                *)
LEMMA AskInv == ASSUME SweepInv, NEW r \in Coverages, NEW s \in Coverages, Ask(r, s) PROVE SweepInv'
<1>2. Len(r) \in Nat /\ Len(s) \in Nat /\ DOMAIN r = 1..Len(r) /\ DOMAIN s = 1..Len(s)
  <2>1. r \in Seq(Spans) /\ s \in Seq(Spans)
    BY DEF Coverages
  <2> QED BY <2>1
<1> QED BY <1>2 DEF Ask, SweepInv, SweepTypeOK, LeftBehindApart

(* A step of the sweep, or a question about any two coverages.             *)
SweepStep == Sweep \/ \E r \in Coverages, s \in Coverages : Ask(r, s)

LEMMA NextIsStep == SweepNext => SweepStep
BY AskedAssumption DEF SweepNext, SweepStep

(* Every step of the sweep keeps its invariant.                            *)
LEMMA SweepNextInv == SweepInv /\ [SweepStep]_sweepVars => SweepInv'
<1> SUFFICES ASSUME SweepInv, [SweepStep]_sweepVars PROVE SweepInv'
  OBVIOUS
<1> QED BY FoundInv, NextOfAInv, NextOfBInv, RunOutInv, AskInv, StutterInv DEF SweepStep, Sweep

(* What the sweep keeps: no span it has left behind meets any span of the  *)
(* other coverage.                                                         *)
THEOREM SweepInvariant == SweepSpec => []SweepInv
<1> QED BY SweepInitInv, SweepNextInv, NextIsStep, PTL DEF SweepSpec

(* Every step of the sweep is a question put, a stutter or an answer.      *)
LEMMA StepAnswers ==
    ASSUME SweepInv, [SweepStep]_sweepVars
    PROVE  [TheQuestion!Ask \/ TheQuestion!Answer]_<<a, b, answer>>
<1>1. CASE Found
  BY <1>1, FoundInv DEF Found, InBoth, TheQuestion!Answer, TheQuestion!ShareChar, ShareChar,
     TheQuestion!Covers, Covers, TheQuestion!In, In, TheQuestion!CodePoint, CodePoint
<1>2. CASE RunOut
  BY <1>2, RunOutInv DEF RunOut, TheQuestion!Answer, TheQuestion!ShareChar, ShareChar,
     TheQuestion!Covers, Covers, TheQuestion!In, In, TheQuestion!CodePoint, CodePoint
<1>3. CASE NextOfA \/ NextOfB \/ UNCHANGED sweepVars
  BY <1>3 DEF NextOfA, NextOfB, sweepVars
<1>4. ASSUME NEW r \in Coverages, NEW s \in Coverages, Ask(r, s) PROVE TheQuestion!Ask
  <2>2. TheQuestion!Coverages = Coverages
    BY DEF TheQuestion!Coverages, Coverages, TheQuestion!Normal, Normal,
       TheQuestion!Spans, Spans, TheQuestion!CodePoint, CodePoint
  <2> QED BY <1>4, <2>2 DEF Ask, TheQuestion!Ask
<1> QED BY <1>1, <1>2, <1>3, <1>4 DEF SweepStep, Sweep

(* char_ranges_overlap answers the question, for all coverages that are    *)
(* sorted and merged.                                                      *)
THEOREM SweepAnswers == SweepSpec => Answers
<1>1. SweepInit => TheQuestion!Init
  BY DEF SweepInit, TheQuestion!Init
<1> QED BY <1>1, StepAnswers, NextIsStep, SweepInvariant, PTL DEF SweepSpec, Answers, TheQuestion!Spec

-----------------------------------------------------------------------------
(* partition_ranges.                                                       *)

PartitionTypeOK == /\ coverages \subseteq Seq(Spans)
                   /\ at \in Cuts(coverages)
                   /\ atoms \subseteq Spans

\* Any set of coverages, before its first window.
PartitionStart == /\ coverages \subseteq Seq(Spans)
                  /\ at \in Cuts(coverages) /\ FirstCut(coverages, at)
                  /\ atoms = {}

\* Every character before the cut that a coverage takes is in an atom the
\* coverage holds whole.
ExactBelow == \A r \in coverages, c \in CodePoint :
                 c < at => (Covers(r, c) <=> \E t \in atoms : In(c, t) /\ Holds(r, t))
PartitionInv == /\ PartitionTypeOK
                /\ \A t \in atoms : t.hi < at
                /\ ExactBelow

-----------------------------------------------------------------------------
(* A span of a coverage is a span of code points, and its boundaries are   *)
(* cuts.                                                                   *)
LEMMA SpanOfCoverage ==
    ASSUME PartitionTypeOK, NEW r \in coverages, NEW k \in DOMAIN r
    PROVE  /\ r[k].lo \in CodePoint /\ r[k].hi \in CodePoint /\ r[k].lo <= r[k].hi
           /\ r[k].lo \in Cuts(coverages)
           /\ r[k].hi + 1 \in Cuts(coverages)
<1>1. r \in Seq(Spans)
  BY DEF PartitionTypeOK
<1>2. r[k] \in Spans
  BY <1>1
<1>3. r[k].lo \in CodePoint /\ r[k].hi \in CodePoint /\ r[k].lo <= r[k].hi
  BY <1>2 DEF Spans
<1>4. r[k].lo \in Cuts(coverages) /\ r[k].hi + 1 \in Cuts(coverages)
  BY DEF Cuts
<1> QED BY <1>3, <1>4

(* Cuts are natural numbers.                                               *)
LEMMA CutsAreNat ==
    ASSUME PartitionTypeOK, NEW c \in Cuts(coverages)
    PROVE  c \in Nat
<1>1. PICK r \in coverages : \E k \in DOMAIN r : c = r[k].lo \/ c = r[k].hi + 1
  BY DEF Cuts
<1>2. PICK k \in DOMAIN r : c = r[k].lo \/ c = r[k].hi + 1
  BY <1>1
<1>3. r[k].lo \in CodePoint /\ r[k].hi \in CodePoint
  BY SpanOfCoverage
<1> QED BY <1>2, <1>3, MaxCodePointAssumption DEF CodePoint

(* Between two neighbouring cuts a coverage takes all characters or none.  *)
LEMMA WindowIsWhole ==
    ASSUME PartitionTypeOK, NEW next, NextCut(coverages, at, next), NEW r \in coverages,
           NEW c \in CodePoint, at <= c, c < next, Covers(r, c)
    PROVE  Holds(r, WindowTo(at, next))
<1>1. PICK k \in DOMAIN r : In(c, r[k])
  BY DEF Covers
<1>2. /\ r[k].lo \in CodePoint /\ r[k].hi \in CodePoint
      /\ r[k].lo \in Cuts(coverages) /\ r[k].hi + 1 \in Cuts(coverages)
  BY SpanOfCoverage
<1>3. at \in Nat /\ next \in Nat /\ c \in Nat
  BY CutsAreNat, MaxCodePointAssumption DEF PartitionTypeOK, NextCut, CodePoint
<1>4. r[k].lo <= at
  BY <1>1, <1>2, <1>3, MaxCodePointAssumption DEF NextCut, In, CodePoint
<1>5. next <= r[k].hi + 1
  BY <1>1, <1>2, <1>3, MaxCodePointAssumption DEF NextCut, In, CodePoint
<1> QED BY <1>2, <1>3, <1>4, <1>5, MaxCodePointAssumption DEF Holds, WindowTo, Span, CodePoint

(* A window some coverage holds is a span.                                 *)
LEMMA WindowIsSpan ==
    ASSUME PartitionTypeOK, NEW next, NextCut(coverages, at, next), SomeHolds(coverages, WindowTo(at, next))
    PROVE  WindowTo(at, next) \in Spans
<1>1. PICK r \in coverages : \E k \in DOMAIN r : r[k].lo <= at /\ next - 1 <= r[k].hi
  BY DEF SomeHolds, Holds, WindowTo, Span
<1>2. PICK k \in DOMAIN r : r[k].lo <= at /\ next - 1 <= r[k].hi
  BY <1>1
<1>3. r[k].lo \in CodePoint /\ r[k].hi \in CodePoint
  BY SpanOfCoverage
<1>4. at \in Nat /\ next \in Nat /\ at < next
  BY CutsAreNat DEF PartitionTypeOK, NextCut
<1>5. at \in CodePoint /\ next - 1 \in CodePoint /\ at <= next - 1
  BY <1>2, <1>3, <1>4, MaxCodePointAssumption DEF CodePoint
<1> QED BY <1>5 DEF WindowTo, Span, Spans

(* Nothing is covered before the first cut.                                *)
LEMMA FirstCutInv == PartitionStart => PartitionInv
<1> SUFFICES ASSUME PartitionStart PROVE PartitionInv
  OBVIOUS
<1>1. PartitionTypeOK
  BY DEF PartitionStart, PartitionTypeOK
<1>2. ExactBelow
  <2> SUFFICES ASSUME NEW r \in coverages, NEW c \in CodePoint, c < at
               PROVE  ~Covers(r, c)
    BY DEF ExactBelow, PartitionStart
  <2> SUFFICES ASSUME NEW k \in DOMAIN r, In(c, r[k]) PROVE FALSE
    BY DEF Covers
  <2>1. r[k].lo \in CodePoint /\ r[k].lo \in Cuts(coverages)
    BY <1>1, SpanOfCoverage
  <2>2. at <= r[k].lo
    BY <2>1 DEF PartitionStart, FirstCut
  <2>3. at \in Nat
    BY <1>1, CutsAreNat DEF PartitionTypeOK
  <2> QED BY <2>1, <2>2, <2>3, MaxCodePointAssumption DEF In, CodePoint
<1> QED BY <1>1, <1>2 DEF PartitionInv, PartitionStart

LEMMA PartitionInitInv == PartitionInit => PartitionInv
BY FirstCutInv, GivenAssumption DEF PartitionInit, PartitionStart

(* One more window keeps the atoms exact.                                  *)
LEMMA WindowInv == PartitionInv /\ Window => PartitionInv'
<1> SUFFICES ASSUME PartitionInv, Window PROVE PartitionInv'
  OBVIOUS
<1>1. PICK next \in Cuts(coverages) :
         /\ NextCut(coverages, at, next)
         /\ at' = next
         /\ atoms' = IF SomeHolds(coverages, WindowTo(at, next))
                     THEN atoms \cup {WindowTo(at, next)} ELSE atoms
         /\ coverages' = coverages
  BY DEF Window
<1> DEFINE w == WindowTo(at, next)
<1>2. PartitionTypeOK
  BY DEF PartitionInv
<1>3. at \in Nat /\ next \in Nat /\ at < next
  BY <1>1, <1>2, CutsAreNat DEF PartitionTypeOK, NextCut
<1>4. w.lo = at /\ w.hi = next - 1
  BY DEF WindowTo, Span
<1>5. SomeHolds(coverages, w) => w \in Spans
  BY <1>1, <1>2, WindowIsSpan
<1>6. PartitionTypeOK'
  BY <1>1, <1>2, <1>5 DEF PartitionTypeOK, Cuts
<1>7. \A t \in atoms' : t.hi < at'
  <2> SUFFICES ASSUME NEW t \in atoms' PROVE t.hi < at'
    OBVIOUS
  <2>1. CASE t \in atoms
    <3>1. t \in Spans
      BY <2>1, <1>2 DEF PartitionTypeOK
    <3>2. t.hi \in Nat /\ t.hi < at
      BY <2>1, <3>1, MaxCodePointAssumption DEF PartitionInv, Spans, CodePoint
    <3> QED BY <3>2, <1>1, <1>3
  <2>2. CASE t = w
    BY <2>2, <1>1, <1>3, <1>4
  <2> QED BY <2>1, <2>2, <1>1
<1>8. ExactBelow'
  <2> SUFFICES ASSUME NEW r \in coverages, NEW c \in CodePoint, c < next
               PROVE  Covers(r, c) <=> \E t \in atoms' : In(c, t) /\ Holds(r, t)
    BY <1>1 DEF ExactBelow, Covers, Holds, In
  <2>1. c \in Nat
    BY MaxCodePointAssumption DEF CodePoint
  <2>2. ASSUME Covers(r, c), c < at PROVE \E t \in atoms' : In(c, t) /\ Holds(r, t)
    <3>1. PICK t \in atoms : In(c, t) /\ Holds(r, t)
      BY <2>2 DEF PartitionInv, ExactBelow
    <3>2. t \in atoms'
      BY <1>1
    <3> QED BY <3>1, <3>2
  <2>3. ASSUME Covers(r, c), at <= c PROVE \E t \in atoms' : In(c, t) /\ Holds(r, t)
    <3>1. Holds(r, w)
      BY <2>3, <1>1, <1>2, WindowIsWhole
    <3>2. In(c, w)
      BY <2>1, <2>3, <1>3, <1>4 DEF In
    <3>3. w \in atoms'
      BY <3>1, <1>1 DEF SomeHolds
    <3> QED BY <3>1, <3>2, <3>3
  <2>4. ASSUME NEW t \in atoms', In(c, t), Holds(r, t) PROVE Covers(r, c)
    <3>1. PICK k \in DOMAIN r : r[k].lo <= t.lo /\ t.hi <= r[k].hi
      BY <2>4 DEF Holds
    <3>2. r[k].lo \in CodePoint /\ r[k].hi \in CodePoint
      BY <1>2, SpanOfCoverage
    <3>3. t.lo \in Int /\ t.hi \in Int
      <4>1. t \in Spans
        BY <1>6 DEF PartitionTypeOK
      <4> QED BY <4>1, MaxCodePointAssumption DEF Spans, CodePoint
    <3>4. In(c, r[k])
      BY <2>1, <2>4, <3>1, <3>2, <3>3, MaxCodePointAssumption DEF In, CodePoint
    <3> QED BY <3>4 DEF Covers
  <2> QED BY <2>1, <2>2, <2>3, <2>4, <1>3
<1> QED BY <1>6, <1>7, <1>8 DEF PartitionInv

(* Every window scanned keeps the atoms disjoint and exact below the scan. *)
LEMMA PartitionNextInv == PartitionInv /\ [Window]_partitionVars => PartitionInv'
<1> SUFFICES ASSUME PartitionInv, [Window]_partitionVars PROVE PartitionInv'
  OBVIOUS
<1>1. CASE Window
  BY <1>1, WindowInv
<1>2. CASE UNCHANGED partitionVars
  BY <1>2 DEF partitionVars, PartitionInv, PartitionTypeOK, Cuts, ExactBelow, Covers, Holds, In
<1> QED BY <1>1, <1>2

(* The invariant holds throughout partition_char_ranges.                   *)
THEOREM PartitionInvariant == PartitionSpec => []PartitionInv
<1> QED BY PartitionInitInv, PartitionNextInv, PTL DEF PartitionSpec

(* When the search is done every covered character is before the last cut. *)
LEMMA DoneIsExact == PartitionInv => AtomsExact
<1> SUFFICES ASSUME PartitionInv, AllCut, NEW r \in coverages, NEW c \in CodePoint
             PROVE  Covers(r, c) <=> \E t \in atoms : In(c, t) /\ Holds(r, t)
  BY DEF AtomsExact
<1>1. PartitionTypeOK
  BY DEF PartitionInv
<1>2. at \in Nat /\ c \in Nat
  BY <1>1, CutsAreNat, MaxCodePointAssumption DEF PartitionTypeOK, CodePoint
<1>3. ASSUME Covers(r, c) PROVE c < at
  <2>1. PICK k \in DOMAIN r : In(c, r[k])
    BY <1>3 DEF Covers
  <2>2. r[k].hi \in CodePoint /\ r[k].hi + 1 \in Cuts(coverages)
    BY <1>1, SpanOfCoverage
  <2> QED BY <2>1, <2>2, <1>2, MaxCodePointAssumption DEF AllCut, LastCut, In, CodePoint
<1>4. ASSUME NEW t \in atoms, In(c, t) PROVE c < at
  <2>1. t \in Spans /\ t.hi < at
    BY <1>1 DEF PartitionTypeOK, PartitionInv
  <2> QED BY <2>1, <1>2, <1>4, MaxCodePointAssumption DEF In, Spans, CodePoint
<1> QED BY <1>3, <1>4 DEF PartitionInv, ExactBelow

(* "Such that every input coverage is an exact union of them", for every   *)
(* set of coverages (partition_ranges).                                    *)
THEOREM UnionsAreExact == PartitionSpec => []AtomsExact
<1> QED BY PartitionInvariant, DoneIsExact, PTL

(* A window is apart from every atom kept before it.                       *)
LEMMA WindowApart == PartitionInv /\ AtomsApart /\ Window => AtomsApart'
<1> SUFFICES ASSUME PartitionInv, AtomsApart, Window,
                    NEW s \in atoms', NEW t \in atoms', NEW c \in CodePoint, In(c, s), In(c, t)
             PROVE  s = t
  BY DEF AtomsApart, In
<1>1. PICK next \in Cuts(coverages) :
         atoms' = IF SomeHolds(coverages, WindowTo(at, next))
                  THEN atoms \cup {WindowTo(at, next)} ELSE atoms
  BY DEF Window
<1>2. \A u \in atoms : In(c, u) => c < at
  <2> SUFFICES ASSUME NEW u \in atoms, In(c, u) PROVE c < at
    OBVIOUS
  <2>1. u \in Spans /\ u.hi < at /\ at \in Nat
    BY CutsAreNat DEF PartitionInv, PartitionTypeOK
  <2> QED BY <2>1, MaxCodePointAssumption DEF In, Spans, CodePoint
<1>3. In(c, WindowTo(at, next)) => at <= c
  BY DEF In, WindowTo, Span
<1>4. at \in Nat /\ c \in Nat
  BY CutsAreNat, MaxCodePointAssumption DEF PartitionInv, PartitionTypeOK, CodePoint
<1>5. ~(c < at /\ at <= c)
  BY <1>4
<1>6. CASE s \in atoms /\ t \in atoms
  BY <1>6 DEF AtomsApart
<1>7. CASE s = WindowTo(at, next) /\ t = WindowTo(at, next)
  BY <1>7
<1> QED BY <1>1, <1>2, <1>3, <1>5, <1>6, <1>7

(* "No character matches two atoms", for every set of coverages            *)
(* (partition_ranges).                                                     *)
THEOREM NoCharacterInTwo == PartitionSpec => []AtomsApart
<1>1. PartitionInit => AtomsApart
  BY DEF PartitionInit, AtomsApart
<1>2. PartitionInv /\ AtomsApart /\ [Window]_partitionVars => AtomsApart'
  <2>1. CASE UNCHANGED partitionVars
    BY <2>1 DEF partitionVars, AtomsApart, In
  <2> QED BY <2>1, WindowApart
<1> QED BY <1>1, <1>2, PartitionInvariant, PTL DEF PartitionSpec

-----------------------------------------------------------------------------
(* Sorting.                                                                *)

Sorted(q) == \A k \in DOMAIN q, m \in DOMAIN q : k < m => NotAfter(q[k], q[m])
SortedSeqs == { q \in Seq(Spans) : Sorted(q) }

(* A span is two numbers.                                                  *)
LEMMA SpanTypes == ASSUME NEW s \in Spans PROVE s.lo \in Nat /\ s.hi \in Nat /\ s.lo <= s.hi /\ s.hi <= MaxCodePoint
BY MaxCodePointAssumption DEF Spans, CodePoint

(* Two numbers in order are a span.                                        *)
LEMMA SpanIsSpan ==
    ASSUME NEW lo \in Nat, NEW hi \in Nat, lo <= hi, hi <= MaxCodePoint
    PROVE  Span(lo, hi) \in Spans /\ Span(lo, hi).lo = lo /\ Span(lo, hi).hi = hi
BY MaxCodePointAssumption DEF Span, Spans, CodePoint

(* What InsertAt makes of a sequence, place by place.                      *)
LEMMA InsertAtFacts ==
    ASSUME NEW S, NEW q \in Seq(S), NEW e \in S, NEW p \in 1..Len(q) + 1
    PROVE  /\ InsertAt(q, p, e) \in Seq(S)
           /\ Len(InsertAt(q, p, e)) = Len(q) + 1
           /\ \A k \in 1..Len(q) + 1 :
                 InsertAt(q, p, e)[k] = IF k < p THEN q[k] ELSE IF k = p THEN e ELSE q[k - 1]
<1> DEFINE before == SubSeq(q, 1, p - 1)
           after == SubSeq(q, p, Len(q))
<1>1. before \in Seq(S) /\ Len(before) = p - 1 /\ \A k \in 1..p - 1 : before[k] = q[k]
  OBVIOUS
<1>2. after \in Seq(S) /\ Len(after) = Len(q) - p + 1 /\ \A k \in 1..Len(q) - p + 1 : after[k] = q[p + k - 1]
  OBVIOUS
<1>3. InsertAt(q, p, e) = before \o <<e>> \o after
  BY DEF InsertAt
<1> HIDE DEF before, after
<1>4. before \o <<e>> \in Seq(S) /\ Len(before \o <<e>>) = p
      /\ \A k \in 1..p : (before \o <<e>>)[k] = IF k < p THEN q[k] ELSE e
  BY <1>1
<1> DEFINE front == before \o <<e>>
<1> HIDE DEF front
<1>5. front \in Seq(S) /\ Len(front) = p /\ \A k \in 1..p : front[k] = IF k < p THEN q[k] ELSE e
  BY <1>4 DEF front
<1>6. InsertAt(q, p, e) = front \o after
  BY <1>3 DEF front
<1>7. front \o after \in Seq(S) /\ Len(front \o after) = Len(q) + 1
  BY <1>2, <1>5
<1>8. ASSUME NEW k \in 1..Len(q) + 1
      PROVE  (front \o after)[k] = IF k < p THEN q[k] ELSE IF k = p THEN e ELSE q[k - 1]
  <2>1. CASE k <= p
    BY <2>1, <1>5, <1>2
  <2>2. CASE k > p
    <3>1. (front \o after)[k] = after[k - p] /\ k - p \in 1..Len(q) - p + 1
      BY <2>2, <1>5, <1>2
    <3>2. after[k - p] = q[p + (k - p) - 1] /\ p + (k - p) - 1 = k - 1
      BY <3>1, <1>2
    <3> QED BY <3>1, <3>2, <2>2
  <2>3. k <= p \/ k > p
    OBVIOUS
  <2> QED BY <2>1, <2>2, <2>3, Zenon
<1> QED BY <1>6, <1>7, <1>8

(* There is a place for a span among sorted ones.                          *)
LEMMA PlaceFacts ==
    ASSUME NEW q \in SortedSeqs, NEW s \in Spans
    PROVE  /\ Place(q, s) \in 1..Len(q) + 1
           /\ \A k \in DOMAIN q : k < Place(q, s) <=> NotAfter(q[k], s)
<1>1. q \in Seq(Spans) /\ DOMAIN q = 1..Len(q) /\ Len(q) \in Nat /\ Sorted(q)
  BY DEF SortedSeqs
<1> DEFINE Later == { k \in 1..Len(q) + 1 : k = Len(q) + 1 \/ ~NotAfter(q[k], s) }
<1>2. \A k \in 1..Len(q) + 1 : k \in Later <=> (k = Len(q) + 1 \/ ~NotAfter(q[k], s))
  OBVIOUS
<1>3. Later \subseteq Nat /\ Len(q) + 1 \in Later /\ Later \subseteq 1..Len(q) + 1
  BY <1>1
<1> HIDE DEF Later
<1>4. PICK p \in Later : \A k \in Later : p <= k
  BY <1>3, Least
<1>5. ASSUME NEW k \in DOMAIN q PROVE k < p <=> NotAfter(q[k], s)
  <2>1. CASE k < p
    <3>1. k \notin Later
      BY <2>1, <1>1, <1>3, <1>4
    <3> QED BY <2>1, <3>1, <1>1, <1>2
  <2>2. CASE k = p
    BY <2>2, <1>1, <1>2, <1>4
  <2>3. CASE p < k
    <3>1. p \in DOMAIN q /\ ~NotAfter(q[p], s)
      BY <2>3, <1>1, <1>2, <1>3, <1>4
    <3>2. NotAfter(q[p], q[k])
      BY <3>1, <2>3, <1>1 DEF Sorted
    <3>3. q[p] \in Spans /\ q[k] \in Spans
      BY <3>1, <1>1
    <3>4. ~NotAfter(q[k], s)
      BY <3>1, <3>2, <3>3, SpanTypes DEF NotAfter
    <3> QED BY <3>4, <2>3, <1>1, <1>3, <1>4
  <2>4. k \in Nat /\ p \in Nat
    BY <1>1, <1>3, <1>4
  <2> QED BY <2>1, <2>2, <2>3, <2>4
<1>6. \E x \in 1..Len(q) + 1 : \A k \in DOMAIN q : k < x <=> NotAfter(q[k], s)
  BY <1>3, <1>4, <1>5
<1> QED BY <1>6 DEF Place

(* A span put in its place leaves the spans sorted.                        *)
LEMMA InsertedFacts ==
    ASSUME NEW q \in SortedSeqs, NEW s \in Spans
    PROVE  /\ InsertAt(q, Place(q, s), s) \in SortedSeqs
           /\ \A c \in Int : Covers(InsertAt(q, Place(q, s), s), c) <=> Covers(q, c) \/ In(c, s)
<1>1. q \in Seq(Spans) /\ DOMAIN q = 1..Len(q) /\ Len(q) \in Nat /\ Sorted(q)
  BY DEF SortedSeqs
<1> DEFINE p == Place(q, s)
           z == InsertAt(q, p, s)
<1>2. p \in 1..Len(q) + 1 /\ \A k \in DOMAIN q : k < p <=> NotAfter(q[k], s)
  BY PlaceFacts
<1> HIDE DEF p
<1>3. /\ z \in Seq(Spans) /\ Len(z) = Len(q) + 1
      /\ \A k \in 1..Len(q) + 1 : z[k] = IF k < p THEN q[k] ELSE IF k = p THEN s ELSE q[k - 1]
  BY <1>1, <1>2, InsertAtFacts
<1> HIDE DEF z
<1>4. DOMAIN z = 1..Len(q) + 1
  BY <1>3
<1>5. ASSUME NEW k \in DOMAIN z, NEW m \in DOMAIN z, k < m PROVE NotAfter(z[k], z[m])
  <2>1. CASE m < p
    <3>1. k \in DOMAIN q /\ m \in DOMAIN q /\ z[k] = q[k] /\ z[m] = q[m]
      BY <2>1, <1>1, <1>2, <1>3, <1>4, <1>5
    <3> QED BY <3>1, <1>1, <1>5 DEF Sorted
  <2>2. CASE m = p
    <3>1. k \in DOMAIN q /\ z[k] = q[k] /\ z[m] = s /\ k < p
      BY <2>2, <1>1, <1>2, <1>3, <1>4, <1>5
    <3> QED BY <3>1, <1>2
  <2>3. CASE p < m /\ k < p
    <3>1. k \in DOMAIN q /\ m - 1 \in DOMAIN q /\ z[k] = q[k] /\ z[m] = q[m - 1]
      BY <2>3, <1>1, <1>2, <1>3, <1>4, <1>5
    <3>2. k < m - 1
      BY <2>3, <1>2, <1>4
    <3> QED BY <3>1, <3>2, <1>1 DEF Sorted
  <2>4. CASE p < m /\ k = p
    <3>1. m - 1 \in DOMAIN q /\ z[k] = s /\ z[m] = q[m - 1] /\ ~(m - 1 < p)
      BY <2>4, <1>1, <1>2, <1>3, <1>4, <1>5
    <3>2. ~NotAfter(q[m - 1], s) /\ q[m - 1] \in Spans
      BY <3>1, <1>1, <1>2
    <3> QED BY <3>1, <3>2, SpanTypes DEF NotAfter
  <2>5. CASE p < m /\ p < k
    <3>1. k - 1 \in DOMAIN q /\ m - 1 \in DOMAIN q /\ z[k] = q[k - 1] /\ z[m] = q[m - 1] /\ k - 1 < m - 1
      BY <2>5, <1>1, <1>2, <1>3, <1>4, <1>5
    <3> QED BY <3>1, <1>1 DEF Sorted
  <2>6. k \in Nat /\ m \in Nat /\ p \in Nat
    BY <1>2, <1>4
  <2> QED BY <2>1, <2>2, <2>3, <2>4, <2>5, <2>6
<1>6. z \in SortedSeqs
  BY <1>3, <1>5 DEF SortedSeqs, Sorted
<1>7. ASSUME NEW c \in Int PROVE Covers(z, c) <=> Covers(q, c) \/ In(c, s)
  <2>1. ASSUME NEW k \in DOMAIN z, In(c, z[k]) PROVE Covers(q, c) \/ In(c, s)
    <3>1. CASE k < p
      BY <3>1, <2>1, <1>1, <1>2, <1>3, <1>4 DEF Covers
    <3>2. CASE k = p
      BY <3>2, <2>1, <1>2, <1>3, <1>4
    <3>3. CASE p < k
      <4>1. k - 1 \in DOMAIN q /\ z[k] = q[k - 1]
        BY <3>3, <1>1, <1>2, <1>3, <1>4
      <4> QED BY <4>1, <2>1 DEF Covers
    <3> QED BY <3>1, <3>2, <3>3, <1>2, <1>4
  <2>2. ASSUME NEW k \in DOMAIN q, In(c, q[k]) PROVE Covers(z, c)
    <3>1. CASE k < p
      <4>1. k \in DOMAIN z /\ z[k] = q[k]
        BY <3>1, <1>1, <1>3, <1>4
      <4> QED BY <4>1, <2>2 DEF Covers
    <3>2. CASE p <= k
      <4>1. k + 1 \in DOMAIN z /\ z[k + 1] = q[k]
        BY <3>2, <1>1, <1>2, <1>3, <1>4
      <4> QED BY <4>1, <2>2 DEF Covers
    <3> QED BY <3>1, <3>2, <1>1, <1>2
  <2>3. p \in DOMAIN z /\ z[p] = s
    BY <1>2, <1>3, <1>4
  <2> QED BY <2>1, <2>2, <2>3 DEF Covers
<1> QED BY <1>6, <1>7 DEF z, p

(* The sort of normalize_ranges and of a negated class: the same spans, in *)
(* order.                                                                  *)
LEMMA ByLowFacts ==
    ASSUME NEW r \in Seq(Spans)
    PROVE  ByLow(r) \in SortedSeqs /\ \A c \in Int : Covers(ByLow(r), c) <=> Covers(r, c)
<1>1. PICK size \in Nat : size = Len(r) /\ DOMAIN r = 1..size /\ \A k \in 1..size : r[k] \in Spans
  OBVIOUS
<1>2. <<>> \in SortedSeqs
  BY DEF SortedSeqs, Sorted
<1> DEFINE step == [k \in 1..size |-> [q \in SortedSeqs |-> InsertAt(q, Place(q, r[k]), r[k])]]
<1>3. \A k \in 1..size, q \in SortedSeqs :
         step[k][q] = InsertAt(q, Place(q, r[k]), r[k]) /\ step[k][q] \in SortedSeqs
  BY <1>1, InsertedFacts
<1> HIDE DEF step
<1>4. Steps(step, SortedSeqs, size)
  BY <1>3 DEF Steps
<1>5. PICK f : Follows(f, step, SortedSeqs, <<>>, size)
  BY <1>2, <1>4, Recursion
<1> DEFINE Defines(h) == h = [k \in 0..size |-> IF k = 0 THEN <<>>
                                ELSE InsertAt(h[k - 1], Place(h[k - 1], r[k]), r[k])]
           sorted == CHOOSE h : Defines(h)
<1>6. Defines(f)
  <2>1. ASSUME NEW k \in 0..size
        PROVE  f[k] = IF k = 0 THEN <<>> ELSE InsertAt(f[k - 1], Place(f[k - 1], r[k]), r[k])
    <3>1. CASE k = 0
      BY <3>1, <1>5 DEF Follows
    <3>2. CASE k # 0
      <4>1. k \in 1..size
        BY <3>2
      <4>2. f[k - 1] \in SortedSeqs /\ f[k] = step[k][f[k - 1]]
        BY <4>1, <1>5 DEF Follows
      <4> QED BY <4>1, <4>2, <1>3, <3>2
    <3> QED BY <3>1, <3>2
  <2>2. f = [k \in 0..size |-> f[k]]
    BY <1>5 DEF Follows
  <2> HIDE DEF sorted
  <2> QED BY <2>1, <2>2
<1>7. Defines(sorted)
  <2> HIDE DEF Defines
  <2> QED BY <1>6
<1>8. sorted[0] = <<>> /\ \A k \in 1..size :
         sorted[k] = InsertAt(sorted[k - 1], Place(sorted[k - 1], r[k]), r[k])
  <2> HIDE DEF sorted
  <2> QED BY <1>7
<1>9. ByLow(r) = sorted[size]
  BY <1>1 DEF ByLow
<1> HIDE DEF sorted
<1> DEFINE Upto(k) == /\ sorted[k] \in SortedSeqs
                      /\ \A c \in Int : Covers(sorted[k], c) <=> \E m \in 1..k : In(c, r[m])
           H == { k \in 0..size : Upto(k) }
<1>10. Upto(0)
  BY <1>2, <1>8 DEF Covers
<1>11. ASSUME NEW k \in 1..size, Upto(k - 1) PROVE Upto(k)
  <2>1. r[k] \in Spans /\ sorted[k] = InsertAt(sorted[k - 1], Place(sorted[k - 1], r[k]), r[k])
    BY <1>1, <1>8
  <2>2. sorted[k] \in SortedSeqs /\ \A c \in Int : Covers(sorted[k], c) <=> Covers(sorted[k - 1], c) \/ In(c, r[k])
    BY <2>1, <1>11, InsertedFacts
  <2>3. 1..k = (1..k - 1) \cup {k}
    BY <1>1
  <2> QED BY <2>2, <2>3, <1>11
<1>12. Upto(size)
  <2> HIDE DEF Upto
  <2>1. \A k \in 0..size : k \in H
    <3>1. 0 \in H
      BY <1>1, <1>10
    <3>2. \A k \in 1..size : k - 1 \in H => k \in H
      BY <1>1, <1>11
    <3> HIDE DEF H
    <3> QED BY <3>1, <3>2, <1>1, Induct
  <2> QED BY <2>1, <1>1
<1> QED BY <1>1, <1>9, <1>12 DEF Covers

-----------------------------------------------------------------------------
(* normalize_ranges.                                                       *)

(* Merging a span into any sequence of spans gives one.                    *)
LEMMA MergeType == ASSUME NEW q \in Seq(Spans), NEW s \in Spans PROVE Merge(q, s) \in Seq(Spans)
<1>1. CASE q = <<>>
  BY <1>1 DEF Merge
<1>2. CASE q # <<>>
  <2>1. Len(q) \in DOMAIN q /\ Last(q) = q[Len(q)] /\ q[Len(q)] \in Spans
    BY <1>2 DEF Last
  <2>2. CASE Last(q).hi < s.hi
    <3>1. [q[Len(q)] EXCEPT !.hi = s.hi] \in Spans
      BY <2>1, <2>2 DEF Spans, CodePoint
    <3>2. [q EXCEPT ![Len(q)].hi = s.hi] \in Seq(Spans)
      BY <3>1, <2>1
    <3> QED BY <3>2 DEF Merge
  <2>3. CASE ~(Last(q).hi < s.hi)
    BY <2>3 DEF Merge
  <2> QED BY <2>2, <2>3
<1> QED BY <1>1, <1>2

(* Merging a span that begins no earlier than the last one keeps the       *)
(* coverage normal and adds the characters of the span.                    *)
LEMMA MergeFacts ==
    ASSUME NEW q \in Coverages, NEW s \in Spans, q # <<>> => Last(q).lo <= s.lo
    PROVE  /\ Merge(q, s) \in Coverages
           /\ Merge(q, s) # <<>> /\ Last(Merge(q, s)).lo <= s.lo
           /\ \A c \in Int : Covers(Merge(q, s), c) <=> Covers(q, c) \/ In(c, s)
<1> DEFINE z == Merge(q, s)
<1>1. q \in Seq(Spans) /\ Normal(q) /\ DOMAIN q = 1..Len(q) /\ Len(q) \in Nat
  BY DEF Coverages
<1>2. z \in Seq(Spans)
  BY <1>1, MergeType
<1>3. s.lo \in Nat /\ s.hi \in Nat /\ s.lo <= s.hi
  BY SpanTypes
<1>4. CASE q = <<>>
  <2>1. z = <<s>> /\ Len(z) = 1 /\ z[1] = s /\ DOMAIN z = {1}
    BY <1>4 DEF Merge
  <2>2. Normal(z)
    BY <2>1 DEF Normal
  <2> HIDE DEF z
  <2> QED BY <2>1, <2>2, <1>2, <1>3, <1>4 DEF Coverages, Covers, Last, z
<1>5. CASE q # <<>>
  <2> DEFINE last == q[Len(q)]
  <2>1. Len(q) \in DOMAIN q /\ Last(q) = last /\ last \in Spans /\ last.lo <= s.lo
    BY <1>1, <1>5 DEF Last
  <2>2. last.lo \in Nat /\ last.hi \in Nat /\ last.lo <= last.hi
    BY <2>1, SpanTypes
  <2> HIDE DEF last
  <2>3. CASE last.hi + 1 < s.lo
    <3>1. z = Append(q, s)
      BY <2>1, <2>3, <1>5 DEF Merge
    <3> HIDE DEF z
    <3>2. Len(z) = Len(q) + 1 /\ DOMAIN z = 1..Len(q) + 1 /\ z[Len(q) + 1] = s /\ \A k \in DOMAIN q : z[k] = q[k]
      BY <3>1, <1>1
    <3>3. ASSUME NEW k \in DOMAIN z, NEW m \in DOMAIN z, k < m PROVE z[k].hi + 1 < z[m].lo
      <4>1. CASE m \in DOMAIN q
        BY <4>1, <3>2, <3>3, <1>1 DEF Normal
      <4>2. CASE m = Len(q) + 1 /\ k = Len(q)
        BY <4>2, <3>2, <2>3, <1>1, <2>1 DEF last
      <4>3. CASE m = Len(q) + 1 /\ k < Len(q)
        <5>1. k \in DOMAIN q /\ z[k] = q[k] /\ z[m] = s
          BY <4>3, <3>2, <1>1
        <5>2. q[k].hi + 1 < last.lo /\ q[k] \in Spans
          BY <5>1, <4>3, <2>1, <1>1 DEF Normal, last
        <5> QED BY <5>1, <5>2, <2>2, <2>3, <1>3, SpanTypes
      <4> QED BY <4>1, <4>2, <4>3, <3>2, <3>3, <1>1
    <3>4. Normal(z)
      BY <3>3 DEF Normal
    <3>5. ASSUME NEW c \in Int PROVE Covers(z, c) <=> Covers(q, c) \/ In(c, s)
      BY <3>2, <1>1 DEF Covers
    <3>6. z # <<>> /\ Last(z) = s
      BY <3>2, <1>1, <1>2 DEF Last
    <3> QED BY <3>4, <3>5, <3>6, <1>2, <1>3 DEF Coverages, z
  <2>4. CASE ~(last.hi + 1 < s.lo) /\ last.hi < s.hi
    <3>1. z = [q EXCEPT ![Len(q)].hi = s.hi]
      BY <2>1, <2>4, <1>5 DEF Merge
    <3> DEFINE top == [last EXCEPT !.hi = s.hi]
    <3>2. top.lo = last.lo /\ top.hi = s.hi
      BY <2>1 DEF Spans
    <3>3. Len(z) = Len(q) /\ DOMAIN z = DOMAIN q /\ z[Len(q)] = top /\ \A k \in DOMAIN q : k # Len(q) => z[k] = q[k]
      BY <3>1, <1>1, <1>2, <2>1 DEF last
    <3> HIDE DEF z, top
    <3>4. ASSUME NEW k \in DOMAIN z, NEW m \in DOMAIN z, k < m PROVE z[k].hi + 1 < z[m].lo
      <4>1. k # Len(q) /\ z[k] = q[k] /\ z[m].lo = q[m].lo
        BY <3>4, <3>2, <3>3, <1>1 DEF last
      <4> QED BY <4>1, <3>3, <3>4, <1>1 DEF Normal
    <3>5. Normal(z)
      BY <3>4 DEF Normal
    <3>6. ASSUME NEW c \in Int PROVE Covers(z, c) <=> Covers(q, c) \/ In(c, s)
      <4>1. In(c, top) <=> In(c, last) \/ In(c, s)
        BY <3>2, <2>1, <2>2, <2>4, <1>3 DEF In
      <4>2. Covers(z, c) <=> In(c, top) \/ \E k \in DOMAIN q : k # Len(q) /\ In(c, q[k])
        BY <3>3, <2>1 DEF Covers
      <4>3. Covers(q, c) <=> In(c, last) \/ \E k \in DOMAIN q : k # Len(q) /\ In(c, q[k])
        BY <2>1 DEF Covers, last
      <4> QED BY <4>1, <4>2, <4>3
    <3>7. z # <<>> /\ Last(z) = top
      BY <3>3, <2>1 DEF Last
    <3> QED BY <3>5, <3>6, <3>7, <3>2, <2>1, <1>2 DEF Coverages, z
  <2>5. CASE ~(last.hi + 1 < s.lo) /\ ~(last.hi < s.hi)
    <3>1. z = q
      BY <2>1, <2>5, <1>5 DEF Merge
    <3>2. ASSUME NEW c \in Int, In(c, s) PROVE Covers(q, c)
      <4>1. In(c, last)
        BY <3>2, <2>1, <2>2, <2>5, <1>3 DEF In
      <4> QED BY <4>1, <2>1 DEF Covers, last
    <3> QED BY <3>1, <3>2, <2>1, <1>5
  <2> QED BY <2>3, <2>4, <2>5
<1> QED BY <1>4, <1>5

(* The merging loop of normalize_ranges, over sorted spans.                *)
LEMMA MergedFacts ==
    ASSUME NEW s \in SortedSeqs, NEW size \in Nat, size = Len(s), NEW merged, merged[0] = <<>>,
           \A k \in 1..size : merged[k] = Merge(merged[k - 1], s[k])
    PROVE  merged[size] \in Coverages /\ \A c \in Int : Covers(merged[size], c) <=> Covers(s, c)
<1> DEFINE Upto(k) == /\ merged[k] \in Coverages
                      /\ k > 0 => merged[k] # <<>> /\ Last(merged[k]).lo <= s[k].lo
                      /\ k = 0 => merged[k] = <<>>
                      /\ \A c \in Int : Covers(merged[k], c) <=> \E m \in 1..k : In(c, s[m])
           H == { k \in 0..size : Upto(k) }
<1>1. s \in Seq(Spans) /\ DOMAIN s = 1..size /\ Sorted(s)
  BY DEF SortedSeqs
<1>2. merged[0] = <<>> /\ \A k \in 1..size : merged[k] = Merge(merged[k - 1], s[k])
  OBVIOUS
<1>3. Upto(0)
  BY <1>2 DEF Coverages, Normal, Covers
<1>4. ASSUME NEW k \in 1..size, Upto(k - 1) PROVE Upto(k)
  <2>1. s[k] \in Spans /\ merged[k] = Merge(merged[k - 1], s[k]) /\ merged[k - 1] \in Coverages
    BY <1>1, <1>2, <1>4
  <2>2. merged[k - 1] # <<>> => Last(merged[k - 1]).lo <= s[k].lo
    <3>1. CASE k - 1 = 0
      BY <3>1, <1>4
    <3>2. CASE k - 1 > 0
      <4>0. k - 1 \in DOMAIN s /\ k \in DOMAIN s /\ k - 1 < k
        BY <3>2, <1>1
      <4>1. NotAfter(s[k - 1], s[k]) /\ s[k - 1] \in Spans
        BY <4>0, <1>1 DEF Sorted
      <4>2. s[k - 1].lo <= s[k].lo
        BY <4>1, <2>1, SpanTypes DEF NotAfter
      <4>3. Last(merged[k - 1]).lo <= s[k - 1].lo /\ merged[k - 1] # <<>>
        BY <3>2, <1>4
      <4>4. Last(merged[k - 1]) \in Spans
        BY <2>1, <4>3 DEF Last, Coverages
      <4> QED BY <4>1, <4>2, <4>3, <4>4, <2>1, SpanTypes
    <3> QED BY <3>1, <3>2
  <2>3. /\ merged[k] \in Coverages /\ merged[k] # <<>> /\ Last(merged[k]).lo <= s[k].lo
        /\ \A c \in Int : Covers(merged[k], c) <=> Covers(merged[k - 1], c) \/ In(c, s[k])
    BY <2>1, <2>2, MergeFacts
  <2>4. 1..k = (1..k - 1) \cup {k}
    OBVIOUS
  <2>5. \A c \in Int : Covers(merged[k - 1], c) <=> \E m \in 1..k - 1 : In(c, s[m])
    BY <1>4
  <2>6. ASSUME NEW c \in Int PROVE Covers(merged[k], c) <=> \E m \in 1..k : In(c, s[m])
    <3>1. Covers(merged[k], c) <=> Covers(merged[k - 1], c) \/ In(c, s[k])
      BY <2>3
    <3>2. Covers(merged[k - 1], c) <=> \E m \in 1..k - 1 : In(c, s[m])
      BY <2>5
    <3>3. (\E m \in 1..k : In(c, s[m])) <=> In(c, s[k]) \/ \E m \in 1..k - 1 : In(c, s[m])
      BY <2>4
    <3> QED BY <3>1, <3>2, <3>3
  <2> QED BY <2>3, <2>6
<1>5. Upto(size)
  <2> HIDE DEF Upto
  <2>1. \A k \in 0..size : k \in H
    <3>1. 0 \in H
      BY <1>3
    <3>2. \A k \in 1..size : k - 1 \in H => k \in H
      BY <1>4
    <3> HIDE DEF H
    <3> QED BY <3>1, <3>2, Induct
  <2> QED BY <2>1
<1> QED BY <1>1, <1>5 DEF Covers

(* normalize_ranges gives a sorted, merged coverage of the same            *)
(* characters, for spans in any number and order.                          *)
THEOREM NormalizeExact ==
    ASSUME NEW r \in Seq(Spans)
    PROVE  Normalize(r) \in Coverages /\ \A c \in Int : Covers(Normalize(r), c) <=> Covers(r, c)
<1>1. PICK s \in SortedSeqs : s = ByLow(r) /\ \A c \in Int : Covers(s, c) <=> Covers(r, c)
  BY ByLowFacts
<1>2. PICK size \in Nat : size = Len(s) /\ DOMAIN s = 1..size /\ \A k \in 1..size : s[k] \in Spans
  BY <1>1 DEF SortedSeqs
<1> DEFINE step == [k \in 1..size |-> [q \in Seq(Spans) |-> Merge(q, s[k])]]
<1>3. \A k \in 1..size, q \in Seq(Spans) : step[k][q] = Merge(q, s[k]) /\ step[k][q] \in Seq(Spans)
  BY <1>2, MergeType
<1> HIDE DEF step
<1>4. Steps(step, Seq(Spans), size)
  BY <1>3 DEF Steps
<1>5. <<>> \in Seq(Spans)
  OBVIOUS
<1>6. PICK f : Follows(f, step, Seq(Spans), <<>>, size)
  BY <1>4, <1>5, Recursion
<1> DEFINE Defines(h) == h = [k \in 0..size |-> IF k = 0 THEN <<>> ELSE Merge(h[k - 1], s[k])]
           merged == CHOOSE h : Defines(h)
<1>7. Defines(f)
  <2>1. ASSUME NEW k \in 0..size PROVE f[k] = IF k = 0 THEN <<>> ELSE Merge(f[k - 1], s[k])
    <3>1. CASE k = 0
      BY <3>1, <1>6 DEF Follows
    <3>2. CASE k # 0
      <4>1. k \in 1..size
        BY <3>2
      <4>2. f[k - 1] \in Seq(Spans) /\ f[k] = step[k][f[k - 1]]
        BY <4>1, <1>6 DEF Follows
      <4> QED BY <4>1, <4>2, <1>3, <3>2
    <3> QED BY <3>1, <3>2
  <2>2. f = [k \in 0..size |-> f[k]]
    BY <1>6 DEF Follows
  <2> HIDE DEF merged
  <2> QED BY <2>1, <2>2
<1>8. Defines(merged)
  <2> HIDE DEF Defines
  <2> QED BY <1>7
<1>9. Normalize(r) = merged[size]
  BY <1>1, <1>2 DEF Normalize
<1> HIDE DEF merged
<1>10. merged = [k \in 0..size |-> IF k = 0 THEN <<>> ELSE Merge(merged[k - 1], s[k])]
  BY <1>8
<1>11. merged[0] = <<>> /\ \A k \in 1..size : merged[k] = Merge(merged[k - 1], s[k])
  BY <1>10
<1>12. merged[size] \in Coverages /\ \A c \in Int : Covers(merged[size], c) <=> Covers(s, c)
  BY <1>2, <1>11, MergedFacts
<1> QED BY <1>1, <1>9, <1>12

-----------------------------------------------------------------------------
(* The complement of a negated class.                                      *)

Scans == [gaps : Seq(Spans), from : 0..MaxCodePoint + 1]

(* One more span scanned.                                                  *)
LEMMA ScannedFacts ==
    ASSUME NEW acc \in Scans, NEW s \in Spans
    PROVE  /\ Scanned(acc, s) \in Scans
           /\ Scanned(acc, s).from = IF s.hi + 1 > acc.from THEN s.hi + 1 ELSE acc.from
           /\ \A c \in Int : Covers(Scanned(acc, s).gaps, c)
                               <=> Covers(acc.gaps, c) \/ (acc.from <= c /\ c < s.lo)
<1> DEFINE z == Scanned(acc, s)
<1>1. s.lo \in Nat /\ s.hi \in Nat /\ s.lo <= s.hi /\ s.hi <= MaxCodePoint
  BY SpanTypes
<1>2. acc.gaps \in Seq(Spans) /\ acc.from \in 0..MaxCodePoint + 1
  BY DEF Scans
<1>3. z.gaps = (IF acc.from < s.lo THEN Append(acc.gaps, Span(acc.from, s.lo - 1)) ELSE acc.gaps)
      /\ z.from = (IF s.hi + 1 > acc.from THEN s.hi + 1 ELSE acc.from)
      /\ z = [gaps |-> z.gaps, from |-> z.from]
  BY DEF Scanned
<1> HIDE DEF z
<1>4. z.from \in 0..MaxCodePoint + 1
  BY <1>1, <1>2, <1>3, MaxCodePointAssumption
<1>5. CASE acc.from < s.lo
  <2> DEFINE gap == Span(acc.from, s.lo - 1)
  <2>1. gap \in Spans /\ gap.lo = acc.from /\ gap.hi = s.lo - 1
    <3>1. acc.from \in Nat /\ s.lo - 1 \in Nat /\ acc.from <= s.lo - 1 /\ s.lo - 1 <= MaxCodePoint
      BY <1>1, <1>2, <1>5, MaxCodePointAssumption
    <3> QED BY <3>1, SpanIsSpan
  <2> HIDE DEF gap
  <2>2. z.gaps = Append(acc.gaps, gap)
    BY <1>3, <1>5 DEF gap
  <2>3. z.gaps \in Seq(Spans)
    BY <2>1, <2>2, <1>2
  <2>4. ASSUME NEW c \in Int PROVE Covers(z.gaps, c) <=> Covers(acc.gaps, c) \/ In(c, gap)
    <3>1. DOMAIN z.gaps = DOMAIN acc.gaps \cup {Len(acc.gaps) + 1} /\ z.gaps[Len(acc.gaps) + 1] = gap
          /\ \A k \in DOMAIN acc.gaps : z.gaps[k] = acc.gaps[k]
      BY <2>2, <1>2
    <3> QED BY <3>1 DEF Covers
  <2>5. \A c \in Int : In(c, gap) <=> (acc.from <= c /\ c < s.lo)
    BY <2>1, <1>1, <1>2 DEF In
  <2> QED BY <2>3, <2>4, <2>5, <1>3, <1>4 DEF Scans, z
<1>6. CASE ~(acc.from < s.lo)
  <2>1. z.gaps = acc.gaps /\ \A c \in Int : ~(acc.from <= c /\ c < s.lo)
    BY <1>1, <1>2, <1>3, <1>6
  <2> QED BY <2>1, <1>2, <1>3, <1>4 DEF Scans, z
<1> QED BY <1>5, <1>6

(* The scan of a negated class, over sorted spans: a character before from *)
(* is in a gap exactly when no span scanned has it.                        *)
LEMMA ScanFacts ==
    ASSUME NEW s \in SortedSeqs, NEW size \in Nat, size = Len(s), NEW scan,
           scan[0] = [gaps |-> <<>>, from |-> 0],
           \A k \in 1..size : scan[k - 1] \in Scans /\ scan[k] = Scanned(scan[k - 1], s[k])
    PROVE  /\ scan[size] \in Scans
           /\ \A c \in Nat : Covers(scan[size].gaps, c) <=> c < scan[size].from /\ ~Covers(s, c)
           /\ \A c \in Nat : Covers(s, c) => c < scan[size].from
<1> DEFINE Upto(k) == /\ scan[k] \in Scans
                      /\ \A c \in Nat : Covers(scan[k].gaps, c)
                                         <=> c < scan[k].from /\ ~(\E m \in 1..k : In(c, s[m]))
                      /\ \A c \in Nat : (\E m \in 1..k : In(c, s[m])) => c < scan[k].from
                      /\ \A c \in Nat : Covers(scan[k].gaps, c) => k > 0 /\ c < s[k].lo
           H == { k \in 0..size : Upto(k) }
<1>1. s \in Seq(Spans) /\ DOMAIN s = 1..size /\ Sorted(s)
  BY DEF SortedSeqs
<1>2. Upto(0)
  <2>1. scan[0].gaps = <<>> /\ scan[0].from = 0 /\ scan[0] \in Scans
    BY MaxCodePointAssumption DEF Scans
  <2> QED BY <2>1 DEF Covers
<1>3. ASSUME NEW k \in 1..size, Upto(k - 1) PROVE Upto(k)
  <2> DEFINE acc == scan[k - 1]
             sk == s[k]
             new == scan[k]
  <2>1. acc \in Scans /\ sk \in Spans /\ new = Scanned(acc, sk)
    BY <1>1
  <2>2. sk.lo \in Nat /\ sk.hi \in Nat /\ sk.lo <= sk.hi /\ sk.hi <= MaxCodePoint
    BY <2>1, SpanTypes
  <2>3. acc.from \in Nat
    BY <2>1, MaxCodePointAssumption DEF Scans
  <2>4. /\ new \in Scans
        /\ new.from = IF sk.hi + 1 > acc.from THEN sk.hi + 1 ELSE acc.from
        /\ \A c \in Int : Covers(new.gaps, c) <=> Covers(acc.gaps, c) \/ (acc.from <= c /\ c < sk.lo)
    BY <2>1, ScannedFacts
  <2>5. ASSUME NEW c \in Nat, Covers(acc.gaps, c) PROVE c < sk.lo
    <3>1. k - 1 > 0 /\ c < s[k - 1].lo
      BY <1>3, <2>5
    <3>2. k - 1 \in DOMAIN s /\ k \in DOMAIN s /\ k - 1 < k
      BY <3>1, <1>1
    <3>3. NotAfter(s[k - 1], s[k]) /\ s[k - 1] \in Spans
      BY <3>2, <1>1 DEF Sorted
    <3>4. s[k - 1].lo <= sk.lo
      BY <3>3, <2>1, SpanTypes DEF NotAfter
    <3> QED BY <3>1, <3>3, <3>4, <2>2, SpanTypes
  <2>6. ASSUME NEW c \in Nat
        PROVE  (\E m \in 1..k : In(c, s[m])) <=> In(c, sk) \/ \E m \in 1..k - 1 : In(c, s[m])
    <3>1. 1..k = (1..k - 1) \cup {k}
      OBVIOUS
    <3> QED BY <3>1
  <2> HIDE DEF acc, sk, new
  <2>7. ASSUME NEW c \in Nat
        PROVE  /\ Covers(acc.gaps, c) <=> c < acc.from /\ ~(\E m \in 1..k - 1 : In(c, s[m]))
               /\ (\E m \in 1..k - 1 : In(c, s[m])) => c < acc.from
    BY <1>3 DEF acc
  <2>8. ASSUME NEW c \in Nat
        PROVE  /\ Covers(new.gaps, c) <=> c < new.from /\ ~(\E m \in 1..k : In(c, s[m]))
               /\ (\E m \in 1..k : In(c, s[m])) => c < new.from
               /\ Covers(new.gaps, c) => c < sk.lo
    <3>1. In(c, sk) <=> sk.lo <= c /\ c <= sk.hi
      BY DEF In
    <3>2. Covers(acc.gaps, c) => c < sk.lo
      BY <2>5
    <3>3. Covers(new.gaps, c) <=> Covers(acc.gaps, c) \/ (acc.from <= c /\ c < sk.lo)
      BY <2>4
    <3>4. (\E m \in 1..k : In(c, s[m])) <=> In(c, sk) \/ \E m \in 1..k - 1 : In(c, s[m])
      BY <2>6
    <3>5. /\ Covers(acc.gaps, c) <=> c < acc.from /\ ~(\E m \in 1..k - 1 : In(c, s[m]))
          /\ (\E m \in 1..k - 1 : In(c, s[m])) => c < acc.from
      BY <2>7
    <3>6. ASSUME Covers(new.gaps, c) PROVE c < new.from /\ ~In(c, sk) /\ c < sk.lo
                                            /\ ~(\E m \in 1..k - 1 : In(c, s[m]))
      <4>1. CASE Covers(acc.gaps, c)
        BY <4>1, <3>1, <3>2, <3>5, <2>2, <2>3, <2>4
      <4>2. CASE acc.from <= c /\ c < sk.lo
        BY <4>2, <3>1, <3>5, <2>2, <2>3, <2>4
      <4> QED BY <4>1, <4>2, <3>3, <3>6
    <3>7. ASSUME c < new.from, ~In(c, sk), ~(\E m \in 1..k - 1 : In(c, s[m])) PROVE Covers(new.gaps, c)
      <4>1. CASE c < acc.from
        BY <4>1, <3>3, <3>5, <3>7
      <4>2. CASE ~(c < acc.from)
        <5>1. acc.from <= c /\ c < sk.lo
          BY <4>2, <3>1, <3>7, <2>2, <2>3, <2>4
        <5> QED BY <5>1, <3>3
      <4> QED BY <4>1, <4>2
    <3>8. ASSUME In(c, sk) PROVE c < new.from
      BY <3>1, <3>8, <2>2, <2>3, <2>4
    <3>9. ASSUME \E m \in 1..k - 1 : In(c, s[m]) PROVE c < new.from
      <4>1. c < acc.from
        BY <3>5, <3>9
      <4> QED BY <4>1, <2>2, <2>3, <2>4
    <3> QED BY <3>4, <3>6, <3>7, <3>8, <3>9
  <2> QED BY <2>4, <2>8 DEF new, sk
<1>4. Upto(size)
  <2> HIDE DEF Upto
  <2>1. \A k \in 0..size : k \in H
    <3>1. 0 \in H
      BY <1>2
    <3>2. \A k \in 1..size : k - 1 \in H => k \in H
      BY <1>3
    <3> HIDE DEF H
    <3> QED BY <3>1, <3>2, Induct
  <2> QED BY <2>1
<1> QED BY <1>1, <1>4 DEF Covers

(* What a negated class covers is what its members do not, for members in  *)
(* any number and order (pattern_char_ranges).                             *)
THEOREM ComplementExact ==
    ASSUME NEW r \in Seq(Spans)
    PROVE  /\ Complement(r) \in Seq(Spans)
           /\ \A c \in CodePoint : Covers(Complement(r), c) <=> ~Covers(r, c)
<1>1. PICK s \in SortedSeqs : s = ByLow(r) /\ \A c \in Int : Covers(s, c) <=> Covers(r, c)
  BY ByLowFacts
<1>2. PICK size \in Nat : size = Len(s) /\ DOMAIN s = 1..size /\ \A k \in 1..size : s[k] \in Spans
  BY <1>1 DEF SortedSeqs
<1> DEFINE step == [k \in 1..size |-> [acc \in Scans |-> Scanned(acc, s[k])]]
           first == [gaps |-> <<>>, from |-> 0]
<1>3. \A k \in 1..size, acc \in Scans : step[k][acc] = Scanned(acc, s[k]) /\ step[k][acc] \in Scans
  BY <1>2, ScannedFacts
<1>4. first \in Scans
  BY MaxCodePointAssumption DEF Scans
<1> HIDE DEF step, first
<1>5. Steps(step, Scans, size)
  BY <1>3 DEF Steps
<1>6. PICK f : Follows(f, step, Scans, first, size)
  BY <1>4, <1>5, Recursion
<1> DEFINE Defines(h) == h = [k \in 0..size |-> IF k = 0 THEN [gaps |-> <<>>, from |-> 0] ELSE Scanned(h[k - 1], s[k])]
           scan == CHOOSE h : Defines(h)
<1>7. Defines(f)
  <2>1. ASSUME NEW k \in 0..size
        PROVE  f[k] = IF k = 0 THEN [gaps |-> <<>>, from |-> 0] ELSE Scanned(f[k - 1], s[k])
    <3>1. CASE k = 0
      BY <3>1, <1>6 DEF Follows, first
    <3>2. CASE k # 0
      <4>1. k \in 1..size
        BY <3>2
      <4>2. f[k - 1] \in Scans /\ f[k] = step[k][f[k - 1]]
        BY <4>1, <1>6 DEF Follows
      <4> QED BY <4>1, <4>2, <1>3, <3>2
    <3> QED BY <3>1, <3>2
  <2>2. f = [k \in 0..size |-> f[k]]
    BY <1>6 DEF Follows
  <2> HIDE DEF scan
  <2> QED BY <2>1, <2>2
<1>8. Defines(scan)
  <2> HIDE DEF Defines
  <2> QED BY <1>7
<1>9. Complement(r) = IF scan[size].from <= MaxCodePoint
                      THEN Append(scan[size].gaps, Span(scan[size].from, MaxCodePoint)) ELSE scan[size].gaps
  BY <1>1, <1>2 DEF Complement
<1> HIDE DEF scan
<1>10. scan = [k \in 0..size |-> IF k = 0 THEN [gaps |-> <<>>, from |-> 0] ELSE Scanned(scan[k - 1], s[k])]
  BY <1>8
<1>11. scan[0] = [gaps |-> <<>>, from |-> 0] /\ \A k \in 1..size : scan[k] = Scanned(scan[k - 1], s[k])
  BY <1>10
<1>12. \A k \in 0..size : scan[k] \in Scans
  <2> DEFINE H == { k \in 0..size : scan[k] \in Scans }
  <2>1. 0 \in H
    BY <1>4, <1>11 DEF first
  <2>2. ASSUME NEW k \in 1..size, k - 1 \in H PROVE k \in H
    <3>1. scan[k - 1] \in Scans /\ s[k] \in Spans /\ scan[k] = Scanned(scan[k - 1], s[k])
      BY <2>2, <1>2, <1>11
    <3> QED BY <3>1, ScannedFacts
  <2>3. \A k \in 0..size : k \in H
    <3> HIDE DEF H
    <3> QED BY <2>1, <2>2, Induct
  <2> QED BY <2>3
<1>13. /\ scan[size] \in Scans
       /\ \A c \in Nat : Covers(scan[size].gaps, c) <=> c < scan[size].from /\ ~Covers(s, c)
       /\ \A c \in Nat : Covers(s, c) => c < scan[size].from
  BY <1>2, <1>11, <1>12, ScanFacts
<1>14. \A c \in CodePoint : c \in Nat /\ c <= MaxCodePoint /\ (Covers(s, c) <=> Covers(r, c))
  BY <1>1, MaxCodePointAssumption DEF CodePoint
<1>15. scan[size].gaps \in Seq(Spans) /\ scan[size].from \in Nat
  BY <1>13, MaxCodePointAssumption DEF Scans
<1>16. CASE ~(scan[size].from <= MaxCodePoint)
  <2>1. Complement(r) = scan[size].gaps
    BY <1>9, <1>16
  <2>2. \A c \in CodePoint : c < scan[size].from
    BY <1>14, <1>15, <1>16, MaxCodePointAssumption
  <2> QED BY <2>1, <2>2, <1>13, <1>14, <1>15
<1>17. CASE scan[size].from <= MaxCodePoint
  <2>1. PICK gaps, from, rest : gaps = scan[size].gaps /\ from = scan[size].from /\ rest = Span(from, MaxCodePoint)
    OBVIOUS
  <2>2. rest \in Spans /\ rest.lo = from /\ rest.hi = MaxCodePoint /\ gaps \in Seq(Spans) /\ from \in Nat
    BY <2>1, <1>15, <1>17, SpanIsSpan, MaxCodePointAssumption
  <2>3. Complement(r) = Append(gaps, rest)
    BY <2>1, <1>9, <1>17
  <2>4. Append(gaps, rest) \in Seq(Spans)
    BY <2>2
  <2>5. ASSUME NEW c \in CodePoint PROVE Covers(Append(gaps, rest), c) <=> ~Covers(r, c)
    <3>1. DOMAIN Append(gaps, rest) = DOMAIN gaps \cup {Len(gaps) + 1} /\ Append(gaps, rest)[Len(gaps) + 1] = rest
          /\ \A k \in DOMAIN gaps : Append(gaps, rest)[k] = gaps[k]
      BY <2>2
    <3>2. Covers(Append(gaps, rest), c) <=> Covers(gaps, c) \/ In(c, rest)
      BY <3>1 DEF Covers
    <3>3. In(c, rest) <=> from <= c
      BY <2>2, <1>14 DEF In
    <3>4. (Covers(gaps, c) <=> c < from /\ ~Covers(s, c)) /\ (Covers(s, c) => c < from)
      BY <2>1, <1>13, <1>14
    <3>5. CASE c < from
      BY <3>5, <3>2, <3>3, <3>4, <1>14, <2>2
    <3>6. CASE ~(c < from)
      BY <3>6, <3>2, <3>3, <3>4, <1>14, <2>2
    <3> QED BY <3>5, <3>6
  <2> QED BY <2>3, <2>4, <2>5
<1> QED BY <1>16, <1>17

-----------------------------------------------------------------------------
(* Sequences of coverages joined into one.                                 *)

LEMMA ConcatFacts ==
    ASSUME NEW q \in Seq(Spans), NEW r \in Seq(Spans)
    PROVE  q \o r \in Seq(Spans) /\ \A c \in Int : Covers(q \o r, c) <=> Covers(q, c) \/ Covers(r, c)
<1> DEFINE z == q \o r
<1>1. z \in Seq(Spans) /\ Len(z) = Len(q) + Len(r) /\ DOMAIN z = 1..Len(q) + Len(r)
      /\ Len(q) \in Nat /\ Len(r) \in Nat /\ DOMAIN q = 1..Len(q) /\ DOMAIN r = 1..Len(r)
  OBVIOUS
<1>2. (\A k \in 1..Len(q) : z[k] = q[k]) /\ \A k \in 1..Len(r) : z[Len(q) + k] = r[k]
  OBVIOUS
<1> HIDE DEF z
<1>3. ASSUME NEW c \in Int, NEW k \in DOMAIN z, In(c, z[k]) PROVE Covers(q, c) \/ Covers(r, c)
  <2>1. CASE k <= Len(q)
    BY <2>1, <1>1, <1>2, <1>3 DEF Covers
  <2>2. CASE k > Len(q)
    <3>1. k - Len(q) \in 1..Len(r) /\ Len(q) + (k - Len(q)) = k
      BY <2>2, <1>1
    <3>2. z[k] = r[k - Len(q)]
      BY <3>1, <1>2
    <3> QED BY <3>1, <3>2, <1>1, <1>3 DEF Covers
  <2> QED BY <2>1, <2>2, <1>1
<1>4. ASSUME NEW c \in Int, Covers(q, c) \/ Covers(r, c) PROVE Covers(z, c)
  <2>1. \A k \in 1..Len(q) : k \in DOMAIN z
    BY <1>1
  <2>2. \A k \in 1..Len(r) : Len(q) + k \in DOMAIN z
    BY <1>1
  <2> QED BY <2>1, <2>2, <1>1, <1>2, <1>4 DEF Covers
<1>5. \A c \in Int : Covers(z, c) <=> Covers(q, c) \/ Covers(r, c)
  BY <1>3, <1>4 DEF Covers
<1> QED BY <1>1, <1>5 DEF z

(* Coverages one after the other cover what any of them does.              *)
LEMMA FlattenFacts ==
    ASSUME NEW ss \in Seq(Seq(Spans))
    PROVE  /\ FlattenSeq(ss) \in Seq(Spans)
           /\ \A c \in Int : Covers(FlattenSeq(ss), c) <=> \E k \in DOMAIN ss : Covers(ss[k], c)
<1>1. CASE Len(ss) = 0
  <2>1. ss = <<>>
    BY <1>1
  <2> QED BY <2>1, <1>1 DEF FlattenSeq, Covers
<1>2. CASE Len(ss) # 0
  <2>1. PICK size \in Nat : size = Len(ss) - 1 /\ Len(ss) = size + 1 /\ DOMAIN ss = 1..size + 1
    BY <1>2
  <2> DEFINE step == [k \in 1..size |-> [q \in Seq(Spans) |-> q \o ss[k + 1]]]
  <2>2. \A k \in 1..size + 1 : ss[k] \in Seq(Spans)
    BY <2>1
  <2>3. \A k \in 1..size, q \in Seq(Spans) : step[k][q] = q \o ss[k + 1] /\ step[k][q] \in Seq(Spans)
    <3>1. \A k \in 1..size : ss[k + 1] \in Seq(Spans)
      BY <2>2
    <3> QED BY <3>1, ConcatFacts
  <2> HIDE DEF step
  <2>4. Steps(step, Seq(Spans), size)
    BY <2>3 DEF Steps
  <2>5. 1 \in 1..size + 1
    BY <2>1
  <2>6. PICK f : Follows(f, step, Seq(Spans), ss[1], size)
    BY <2>2, <2>4, <2>5, Recursion
  <2> DEFINE Defines(h) == h = [k \in 1..Len(ss) |-> IF k = 1 THEN ss[k] ELSE h[k - 1] \o ss[k]]
             flat == CHOOSE h : Defines(h)
             g == [k \in 1..Len(ss) |-> f[k - 1]]
  <2>7. Defines(g)
    <3>1. ASSUME NEW k \in 1..Len(ss) PROVE g[k] = IF k = 1 THEN ss[k] ELSE g[k - 1] \o ss[k]
      <4>1. CASE k = 1
        BY <4>1, <2>6 DEF Follows
      <4>2. CASE k # 1
        <5>1. k - 1 \in 1..size /\ k - 1 \in 1..Len(ss) /\ (k - 1) + 1 = k
          BY <4>2, <2>1
        <5>2. f[(k - 1) - 1] \in Seq(Spans) /\ f[k - 1] = step[k - 1][f[(k - 1) - 1]]
          BY <5>1, <2>6 DEF Follows
        <5>3. step[k - 1][f[(k - 1) - 1]] = f[(k - 1) - 1] \o ss[k]
          BY <5>1, <5>2, <2>3
        <5>4. g[k] = f[k - 1] /\ g[k - 1] = f[(k - 1) - 1]
          BY <5>1
        <5> QED BY <5>2, <5>3, <5>4, <4>2
      <4> QED BY <4>1, <4>2
    <3>2. g = [k \in 1..Len(ss) |-> g[k]]
      OBVIOUS
    <3> HIDE DEF g, flat
    <3> QED BY <3>1, <3>2
  <2>8. Defines(flat)
    <3> HIDE DEF Defines, g
    <3> QED BY <2>7
  <2>9. FlattenSeq(ss) = flat[Len(ss)]
    BY <1>2 DEF FlattenSeq
  <2> HIDE DEF flat
  <2>10. \A k \in 1..Len(ss) : flat[k] = IF k = 1 THEN ss[k] ELSE flat[k - 1] \o ss[k]
    BY <2>8
  <2> DEFINE Upto(k) == /\ flat[k + 1] \in Seq(Spans)
                        /\ \A c \in Int : Covers(flat[k + 1], c) <=> \E m \in 1..k + 1 : Covers(ss[m], c)
             H == { k \in 0..size : Upto(k) }
  <2>11. Upto(0)
    <3>1. flat[1] = ss[1] /\ 1..1 = {1}
      BY <2>1, <2>10
    <3> QED BY <3>1, <2>2, <2>5
  <2>12. ASSUME NEW k \in 1..size, Upto(k - 1) PROVE Upto(k)
    <3>1. k + 1 \in 1..Len(ss) /\ k + 1 # 1 /\ (k + 1) - 1 = k /\ (k - 1) + 1 = k
      BY <2>1
    <3>2. flat[k + 1] = flat[k] \o ss[k + 1] /\ ss[k + 1] \in Seq(Spans)
      BY <3>1, <2>1, <2>2, <2>10
    <3>3. flat[k] \in Seq(Spans) /\ \A c \in Int : Covers(flat[k], c) <=> \E m \in 1..k : Covers(ss[m], c)
      BY <3>1, <2>12
    <3>4. flat[k + 1] \in Seq(Spans)
          /\ \A c \in Int : Covers(flat[k + 1], c) <=> Covers(flat[k], c) \/ Covers(ss[k + 1], c)
      BY <3>2, <3>3, ConcatFacts
    <3>5. ASSUME NEW c \in Int PROVE Covers(flat[k + 1], c) <=> \E m \in 1..k + 1 : Covers(ss[m], c)
      <4>1. 1..k + 1 = (1..k) \cup {k + 1}
        OBVIOUS
      <4>2. (\E m \in 1..k + 1 : Covers(ss[m], c)) <=> (\E m \in 1..k : Covers(ss[m], c)) \/ Covers(ss[k + 1], c)
        BY <4>1
      <4> QED BY <4>2, <3>3, <3>4
    <3> QED BY <3>4, <3>5
  <2>13. Upto(size)
    <3> HIDE DEF Upto
    <3>1. \A k \in 0..size : k \in H
      <4>1. 0 \in H
        BY <2>11
      <4>2. \A k \in 1..size : k - 1 \in H => k \in H
        BY <2>12
      <4> HIDE DEF H
      <4> QED BY <4>1, <4>2, Induct
    <3> QED BY <3>1
  <2> QED BY <2>1, <2>9, <2>13
<1> QED BY <1>1, <1>2

-----------------------------------------------------------------------------
(* The arithmetic of surrogates.                                           *)

LEMMA DivBound ==
    ASSUME NEW x \in Nat, NEW p \in Nat \ {0}, NEW m \in Nat
    PROVE  x \div p \in Nat /\ (m * p <= x <=> m <= x \div p)
<1>1. x \div p \in Nat
  OBVIOUS
<1>2. p * (x \div p) <= x /\ x < p * (x \div p) + p
  OBVIOUS
<1>3. PICK q \in Nat : q = x \div p /\ p * q <= x /\ x < p * q + p
  BY <1>1, <1>2
<1>4. p * q \in Nat /\ m * p \in Nat
  OBVIOUS
<1>5. ASSUME m <= q PROVE m * p <= x
  <2>1. PICK d \in Nat : q = m + d
    <3>1. q - m \in Nat /\ q = m + (q - m)
      BY <1>5
    <3> QED BY <3>1
  <2>2. p * q = m * p + d * p /\ d * p \in Nat
    BY <2>1
  <2> QED BY <1>3, <1>4, <2>2
<1>6. ASSUME q < m PROVE x < m * p
  <2>1. PICK d \in Nat : m = q + 1 + d
    <3>1. m - q - 1 \in Nat /\ m = q + 1 + (m - q - 1)
      BY <1>6
    <3> QED BY <3>1
  <2>2. m * p = p * q + p + d * p /\ d * p \in Nat
    BY <2>1
  <2> QED BY <1>3, <1>4, <2>2
<1> QED BY <1>3, <1>4, <1>5, <1>6

(* An astral character begins with a lead, and which one tells where it    *)
(* lies among the astral characters.                                       *)
LEMMA LeadFacts ==
    ASSUME NEW c \in CodePoint, c > MaxUnit
    PROVE  /\ LeadOf(c) \in LeadLo..LeadHi
           /\ \A lead \in LeadLo..LeadHi : (MaxUnit + 1 + (lead - LeadLo) * PerLead <= c <=> lead <= LeadOf(c))
           /\ \A lead \in LeadLo..LeadHi :
                 (c <= MaxUnit + 1 + (lead - LeadLo) * PerLead + (PerLead - 1) <=> LeadOf(c) <= lead)
<1> USE ScaleAssumption
<1> DEFINE x == c - MaxUnit - 1
<1>1. c \in Nat /\ x \in Nat /\ c <= MaxCodePoint
  BY MaxCodePointAssumption DEF CodePoint
<1>2. PICK q \in Nat : q = x \div PerLead /\ \A m \in Nat : m * PerLead <= x <=> m <= q
  BY <1>1, DivBound
<1>3. LeadOf(c) = LeadLo + q
  BY <1>2 DEF LeadOf
<1> HIDE DEF x
<1>4. PICK leads \in Nat : leads = LeadHi - LeadLo + 1 /\ MaxCodePoint = MaxUnit + PerLead * leads
  OBVIOUS
<1>5. q < leads
  <2>1. leads * PerLead = PerLead * leads /\ PerLead * leads \in Nat
    OBVIOUS
  <2>2. x < leads * PerLead
    BY <1>1, <1>4, <2>1 DEF x
  <2>3. ~(leads <= q)
    BY <1>1, <1>2, <2>1, <2>2
  <2> QED BY <2>3
<1>6. LeadOf(c) \in LeadLo..LeadHi
  BY <1>3, <1>4, <1>5
<1>7. ASSUME NEW lead \in LeadLo..LeadHi
      PROVE  /\ MaxUnit + 1 + (lead - LeadLo) * PerLead <= c <=> lead <= LeadOf(c)
             /\ c <= MaxUnit + 1 + (lead - LeadLo) * PerLead + (PerLead - 1) <=> LeadOf(c) <= lead
  <2>1. PICK d \in Nat : d = lead - LeadLo
    OBVIOUS
  <2>2. (d * PerLead <= x <=> d <= q) /\ ((d + 1) * PerLead <= x <=> d + 1 <= q)
    BY <1>2
  <2>3. (d + 1) * PerLead = d * PerLead + PerLead /\ d * PerLead \in Nat
    OBVIOUS
  <2>4. c = MaxUnit + 1 + x
    BY <1>1 DEF x
  <2>5. MaxUnit + 1 + d * PerLead <= c <=> d * PerLead <= x
    BY <2>3, <2>4, <1>1
  <2>6. c <= MaxUnit + 1 + d * PerLead + (PerLead - 1) <=> ~((d + 1) * PerLead <= x)
    BY <2>3, <2>4, <1>1
  <2>7. (lead <= LeadOf(c) <=> d <= q) /\ (LeadOf(c) <= lead <=> ~(d + 1 <= q))
    BY <2>1, <1>3
  <2> QED BY <2>1, <2>2, <2>5, <2>6, <2>7
<1> QED BY <1>6, <1>7

(* What a code-unit matcher of no astral character can start on is what    *)
(* the widened coverage says, astral characters and all                    *)
(* (code_unit_reach).                                                      *)
THEOREM ReachExact ==
    ASSUME NEW r \in Seq(Spans), NEW points \in BOOLEAN,
           points \/ \A k \in DOMAIN r : r[k].hi <= MaxUnit,
           NEW c \in CodePoint
    PROVE  Covers(CodeUnitReach(r, points), c) <=> Takes(r, points, c)
<1> USE ScaleAssumption
<1>1. CASE points
  BY <1>1 DEF CodeUnitReach, ReachOf, Takes
<1>2. CASE ~points
  <2> DEFINE last == PerLead - 1
             parts == [ k \in DOMAIN r |-> Reached(r[k], last) ]
  <2>1. c \in Int /\ c \in Nat
    BY MaxCodePointAssumption DEF CodePoint
  <2>2. ASSUME NEW k \in DOMAIN r
        PROVE  /\ Reached(r[k], last) \in Seq(Spans)
               /\ Covers(Reached(r[k], last), c) <=> c > MaxUnit /\ In(LeadOf(c), r[k])
    <3> DEFINE s == r[k]
               lo == LeadsOf(s).lo
               hi == LeadsOf(s).hi
    <3>1. s.lo \in Nat /\ s.hi \in Nat /\ s.lo <= s.hi /\ s.hi <= MaxCodePoint
      BY SpanTypes
    <3>2. lo = (IF s.lo < LeadLo THEN LeadLo ELSE s.lo) /\ hi = (IF s.hi > LeadHi THEN LeadHi ELSE s.hi)
      BY DEF LeadsOf, Span
    <3> HIDE DEF s, lo, hi
    <3>3. CASE ~(lo <= hi)
      <4>1. Reached(s, last) = <<>>
        BY <3>3 DEF Reached, lo, hi
      <4>2. ASSUME c > MaxUnit PROVE ~In(LeadOf(c), s)
        <5>1. PICK lead \in LeadLo..LeadHi : lead = LeadOf(c)
          BY <4>2, LeadFacts
        <5>2. PICK sl \in Nat, sh \in Nat : sl = s.lo /\ sh = s.hi
          BY <3>1
        <5>3. ~((IF sl < LeadLo THEN LeadLo ELSE sl) <= (IF sh > LeadHi THEN LeadHi ELSE sh))
          BY <3>2, <3>3, <5>2
        <5>4. ~(sl <= lead /\ lead <= sh)
          BY <5>3, SMTT(20)
        <5> QED BY <5>1, <5>2, <5>4 DEF In
      <4>3. <<>> \in Seq(Spans) /\ ~Covers(<<>>, c)
        BY DEF Covers
      <4> QED BY <4>1, <4>2, <4>3 DEF s
    <3>4. CASE lo <= hi
      <4>1. lo \in LeadLo..LeadHi /\ hi \in LeadLo..LeadHi
        BY <3>1, <3>2, <3>4
      <4> DEFINE from == MaxUnit + 1 + (lo - LeadLo) * PerLead
                 to == MaxUnit + 1 + (hi - LeadLo) * PerLead + last
      <4>2. from \in Nat /\ to \in Nat /\ MaxUnit < from /\ from <= to /\ to <= MaxCodePoint
        <5>1. PICK d \in Nat, e \in Nat, g \in Nat :
                 d = lo - LeadLo /\ hi - LeadLo = d + e /\ LeadHi - LeadLo = d + e + g
          <6>1. lo - LeadLo \in Nat /\ hi - lo \in Nat /\ LeadHi - hi \in Nat
                /\ hi - LeadLo = (lo - LeadLo) + (hi - lo)
                /\ LeadHi - LeadLo = (lo - LeadLo) + (hi - lo) + (LeadHi - hi)
            BY <4>1, <3>4
          <6> QED BY <6>1
        <5>2. (d + e) * PerLead = d * PerLead + e * PerLead
              /\ PerLead * (d + e + g + 1) = d * PerLead + e * PerLead + g * PerLead + PerLead
          OBVIOUS
        <5>3. d * PerLead \in Nat /\ e * PerLead \in Nat /\ g * PerLead \in Nat
          OBVIOUS
        <5>4. PICK dp \in Nat, ep \in Nat, gp \in Nat :
                 dp = d * PerLead /\ ep = e * PerLead /\ gp = g * PerLead
          BY <5>3
        <5>5. from = MaxUnit + 1 + dp /\ to = MaxUnit + 1 + dp + ep + last
          BY <5>1, <5>2, <5>4
        <5>6. LeadHi - LeadLo + 1 = d + e + g + 1
          BY <5>1
        <5>7. MaxCodePoint = MaxUnit + dp + ep + gp + PerLead
          BY <5>2, <5>4, <5>6
        <5> HIDE DEF from, to
        <5> QED BY <5>5, <5>7
      <4>3. Reached(s, last) = << Span(from, to) >>
        BY <3>4 DEF Reached, Astral, lo, hi
      <4> HIDE DEF from, to
      <4> DEFINE far == Span(from, to)
      <4>4. far \in Spans /\ far.lo = from /\ far.hi = to
        BY <4>2, SpanIsSpan
      <4> HIDE DEF far
      <4>5. Reached(s, last) = << far >>
        BY <4>3 DEF far
      <4>6. Reached(s, last) \in Seq(Spans) /\ (Covers(Reached(s, last), c) <=> In(c, far))
        <5>1. << far >> \in Seq(Spans) /\ DOMAIN << far >> = 1..1 /\ << far >>[1] = far
          BY <4>4
        <5>2. PICK one : one = << far >> /\ DOMAIN one = {1} /\ one[1] = far
          <6>1. 1..1 = {1}
            OBVIOUS
          <6> QED BY <5>1, <6>1, Zenon
        <5>3. Covers(one, c) <=> In(c, far)
          BY <5>2, Zenon DEF Covers
        <5> QED BY <4>5, <5>1, <5>2, <5>3
      <4>7. In(c, far) <=> from <= c /\ c <= to
        BY <4>4 DEF In
      <4>8. c > MaxUnit => (In(c, far) <=> lo <= LeadOf(c) /\ LeadOf(c) <= hi)
        BY <4>1, <4>7, LeadFacts DEF from, to
      <4>9. c > MaxUnit => (lo <= LeadOf(c) /\ LeadOf(c) <= hi <=> In(LeadOf(c), s))
        BY <3>1, <3>2, LeadFacts DEF In
      <4>10. ~(c > MaxUnit) => ~In(c, far)
        BY <4>2, <4>7, <2>1
      <4> QED BY <4>6, <4>8, <4>9, <4>10 DEF s
    <3> QED BY <3>3, <3>4
  <2>3. parts \in Seq(Seq(Spans)) /\ DOMAIN parts = DOMAIN r
    BY <2>2
  <2>4. CodeUnitReach(r, points) = r \o FlattenSeq(parts)
    BY <1>2 DEF CodeUnitReach, ReachOf
  <2>5. \A k \in DOMAIN r : parts[k] = Reached(r[k], last)
    OBVIOUS
  <2> HIDE DEF parts
  <2>6. /\ FlattenSeq(parts) \in Seq(Spans)
        /\ Covers(FlattenSeq(parts), c) <=> \E k \in DOMAIN r : Covers(parts[k], c)
    BY <2>1, <2>3, FlattenFacts
  <2>7. Covers(CodeUnitReach(r, points), c) <=> Covers(r, c) \/ Covers(FlattenSeq(parts), c)
    BY <2>1, <2>4, <2>6, ConcatFacts
  <2>8. Covers(FlattenSeq(parts), c) <=> c > MaxUnit /\ Covers(r, LeadOf(c))
    BY <2>2, <2>5, <2>6 DEF Covers
  <2>9. c > MaxUnit => ~Covers(r, c)
    BY <1>2, <2>1, SpanTypes DEF Covers, In
  <2> QED BY <1>2, <2>7, <2>8, <2>9 DEF Takes, FirstUnit
<1> QED BY <1>1, <1>2

-----------------------------------------------------------------------------
(* What a pattern covers.                                                  *)

\* The coverages a class can be given: those of one read by the code unit
\* stay among the units.
Fits(r, points) == points \/ \A k \in DOMAIN r : r[k].hi <= MaxUnit

LEMMA HalvesType ==
    ASSUME NEW t, NEW raw, NEW c \in CodePoint
    PROVE  Halves(t, raw, c) \in Seq(Spans) /\ (t.points => Halves(t, raw, c) = <<>>)
<1> USE ScaleAssumption
<1>1. CASE raw /\ ~t.points /\ c > MaxUnit
  <2>1. Halves(t, raw, c) = << Span(LeadOf(c), LeadOf(c)), Span(TrailOf(c), TrailOf(c)) >>
    BY <1>1 DEF Halves
  <2>2. PICK q \in Nat : q = LeadOf(c) /\ q <= MaxCodePoint
    <3>1. PICK lead \in LeadLo..LeadHi : lead = LeadOf(c)
      BY <1>1, LeadFacts
    <3>2. MaxUnit <= MaxCodePoint
      BY <1>1, MaxCodePointAssumption DEF CodePoint
    <3> QED BY <3>1, <3>2
  <2>3. PICK m \in Nat : m = TrailOf(c) /\ m <= MaxCodePoint
    <3>1. c - MaxUnit - 1 \in Nat /\ MaxUnit <= MaxCodePoint
      BY <1>1, MaxCodePointAssumption DEF CodePoint
    <3>2. PICK x \in Nat : x = c - MaxUnit - 1
      BY <3>1
    <3>3. x % PerLead \in 0..PerLead - 1
      OBVIOUS
    <3>4. PICK y \in 0..PerLead - 1 : y = x % PerLead
      BY <3>3
    <3>5. TrailOf(c) = TrailLo + y
      BY <3>2, <3>4 DEF TrailOf
    <3> QED BY <3>1, <3>5, MaxCodePointAssumption
  <2>4. PICK s \in Spans, u \in Spans : s = Span(q, q) /\ u = Span(m, m)
    BY <2>2, <2>3, SpanIsSpan
  <2>5. Halves(t, raw, c) = << s, u >>
    BY <2>1, <2>2, <2>3, <2>4, Zenon
  <2>6. << s, u >> \in Seq(Spans)
    OBVIOUS
  <2> QED BY <1>1, <2>5, <2>6, Zenon
<1>2. CASE ~(raw /\ ~t.points /\ c > MaxUnit)
  BY <1>2 DEF Halves
<1> QED BY <1>1, <1>2

LEMMA SpansOfType ==
    ASSUME NEW t \in Terminals, NEW m \in Members
    PROVE  /\ SpansOf(t, m) \in Seq(Spans)
           /\ t.points => \A c \in Int : Covers(SpansOf(t, m), c) <=> m.lo <= c /\ c <= m.hi
<1>1. m.lo \in CodePoint /\ m.hi \in CodePoint /\ m.lo <= m.hi
  BY DEF Members
<1>2. PICK one : one = << Span(m.lo, m.hi) >> /\ one \in Seq(Spans) /\ DOMAIN one = {1} /\ one[1] = Span(m.lo, m.hi)
  <2>1. Span(m.lo, m.hi) \in Spans
    BY <1>1 DEF Span, Spans
  <2>2. << Span(m.lo, m.hi) >> \in Seq(Spans) /\ DOMAIN << Span(m.lo, m.hi) >> = 1..1
        /\ << Span(m.lo, m.hi) >>[1] = Span(m.lo, m.hi)
    BY <2>1
  <2>3. 1..1 = {1}
    OBVIOUS
  <2> QED BY <2>2, <2>3, Zenon
<1>3. PICK low : low = Halves(t, m.raw, m.lo) /\ low \in Seq(Spans) /\ (t.points => low = <<>>)
  BY <1>1, HalvesType
<1>4. PICK high : /\ high = IF m.lo = m.hi THEN <<>> ELSE Halves(t, m.raw, m.hi)
                  /\ high \in Seq(Spans) /\ (t.points => high = <<>>)
  <2>1. Halves(t, m.raw, m.hi) \in Seq(Spans) /\ (t.points => Halves(t, m.raw, m.hi) = <<>>)
    BY <1>1, HalvesType
  <2>2. <<>> \in Seq(Spans)
    OBVIOUS
  <2> QED BY <2>1, <2>2
<1>5. SpansOf(t, m) = low \o high \o one
  BY <1>2, <1>3, <1>4 DEF SpansOf
<1>6. \A c \in Int : Covers(one, c) <=> m.lo <= c /\ c <= m.hi
  <2>1. Span(m.lo, m.hi).lo = m.lo /\ Span(m.lo, m.hi).hi = m.hi
    BY DEF Span
  <2>2. SUFFICES ASSUME NEW c \in Int PROVE Covers(one, c) <=> In(c, Span(m.lo, m.hi))
    BY <2>1 DEF In
  <2> QED BY <1>2, Zenon DEF Covers
<1>7. low \o high \in Seq(Spans) /\ low \o high \o one \in Seq(Spans)
  BY <1>2, <1>3, <1>4
<1>8. ASSUME t.points PROVE low \o high \o one = one
  <2>1. low = <<>> /\ high = <<>>
    BY <1>3, <1>4, <1>8
  <2>2. <<>> \o <<>> = <<>>
    OBVIOUS
  <2>3. <<>> \o one = one
    BY <1>2
  <2> QED BY <2>1, <2>2, <2>3, Zenon
<1> QED BY <1>5, <1>6, <1>7, <1>8

LEMMA PatternType ==
    ASSUME NEW t \in Terminals
    PROVE  /\ PatternRanges(t) \in Seq(Spans)
           /\ t.points => \A c \in CodePoint :
                 Covers(PatternRanges(t), c)
                   <=> (t.neg <=> ~\E k \in DOMAIN t.members : t.members[k].lo <= c /\ c <= t.members[k].hi)
<1>1. t.members \in Seq(Members) /\ t.neg \in BOOLEAN
  BY DEF Terminals
<1> DEFINE spans == [ k \in DOMAIN t.members |-> SpansOf(t, t.members[k]) ]
<1>2. \A k \in DOMAIN t.members : t.members[k] \in Members
  BY <1>1
<1>3. \A k \in DOMAIN t.members : spans[k] = SpansOf(t, t.members[k]) /\ spans[k] \in Seq(Spans)
  BY <1>2, SpansOfType
<1>4. DOMAIN spans = DOMAIN t.members /\ spans \in Seq(Seq(Spans))
  <2>1. PICK members \in Seq(Members) : members = t.members
    BY <1>1
  <2>2. spans = [ k \in DOMAIN members |-> spans[k] ] /\ \A k \in DOMAIN members : spans[k] \in Seq(Spans)
    BY <1>3, <2>1
  <2> HIDE DEF spans
  <2>3. DOMAIN members = 1..Len(members) /\ Len(members) \in Nat
    BY <2>1
  <2>4. DOMAIN spans = DOMAIN members
    BY <2>2
  <2>5. spans \in [1..Len(members) -> Seq(Spans)]
    BY <2>2, <2>3, Zenon
  <2>6. spans \in Seq(Seq(Spans))
    BY <2>3, <2>5
  <2> QED BY <2>1, <2>4, <2>6
<1>5. MemberSpans(t) = FlattenSeq(spans)
  BY DEF MemberSpans
<1> HIDE DEF spans
<1>6. /\ MemberSpans(t) \in Seq(Spans)
      /\ \A c \in Int : Covers(MemberSpans(t), c) <=> \E k \in DOMAIN spans : Covers(spans[k], c)
  BY <1>4, <1>5, FlattenFacts
<1>7. /\ Complement(MemberSpans(t)) \in Seq(Spans)
      /\ \A c \in CodePoint : Covers(Complement(MemberSpans(t)), c) <=> ~Covers(MemberSpans(t), c)
  BY <1>6, ComplementExact
<1>8. PatternRanges(t) = IF t.neg THEN Complement(MemberSpans(t)) ELSE MemberSpans(t)
  BY DEF PatternRanges
<1>9. ASSUME t.points, NEW c \in CodePoint
      PROVE  Covers(MemberSpans(t), c)
               <=> \E k \in DOMAIN t.members : t.members[k].lo <= c /\ c <= t.members[k].hi
  <2>1. c \in Int
    BY MaxCodePointAssumption DEF CodePoint
  <2>2. \A k \in DOMAIN t.members :
           Covers(spans[k], c) <=> t.members[k].lo <= c /\ c <= t.members[k].hi
    BY <1>2, <1>3, <1>9, <2>1, SpansOfType
  <2> QED BY <1>4, <1>6, <2>1, <2>2
<1> QED BY <1>1, <1>6, <1>7, <1>8, <1>9

(* A class read by the code point covers exactly what it says, negated or  *)
(* not, however its members overlap (pattern_char_ranges).                 *)
THEOREM PointClassExact ==
    ASSUME NEW t \in Terminals, t.points, NEW c \in CodePoint
    PROVE  Covers(PatternRanges(t), c)
             <=> (t.neg <=> ~\E k \in DOMAIN t.members : t.members[k].lo <= c /\ c <= t.members[k].hi)
BY PatternType

(* What a class that takes part is given: its coverage in normal form.     *)
LEMMA GivenCoverage ==
    ASSUME NEW t \in Terminals, TakesPart(t)
    PROVE  Normalize(PatternRanges(t)) \in Coverages /\ Fits(Normalize(PatternRanges(t)), t.points)
<1> DEFINE r == PatternRanges(t)
<1>1. r \in Seq(Spans) /\ t.points \in BOOLEAN
  BY PatternType DEF Terminals
<1>2. Normalize(r) \in Coverages /\ \A c \in Int : Covers(Normalize(r), c) <=> Covers(r, c)
  BY <1>1, NormalizeExact
<1>3. CASE ~t.points
  <2>1. \A k \in DOMAIN r : r[k].hi <= MaxUnit
    BY <1>3 DEF TakesPart
  <2> HIDE DEF r
  <2> DEFINE q == Normalize(r)
  <2>2. ASSUME NEW k \in DOMAIN q PROVE q[k].hi <= MaxUnit
    <3>1. q[k] \in Spans /\ q \in Seq(Spans)
      BY <1>2 DEF Coverages
    <3>2. PICK h \in Nat : h = q[k].hi /\ q[k].lo <= h
      BY <3>1, SpanTypes
    <3>3. Covers(q, h)
      BY <3>2, SpanTypes, <3>1 DEF Covers, In
    <3>4. PICK m \in DOMAIN r : In(h, r[m])
      BY <1>2, <3>2, <3>3 DEF Covers
    <3>5. r[m].hi \in Nat /\ h <= r[m].hi /\ r[m].hi <= MaxUnit
      BY <1>1, <2>1, <3>4, SpanTypes DEF In
    <3> QED BY <3>2, <3>5, ScaleAssumption
  <2> HIDE DEF q
  <2> QED BY <1>2, <2>2 DEF Fits, q, r
<1>4. CASE t.points
  BY <1>2, <1>4 DEF Fits
<1> QED BY <1>1, <1>3, <1>4

-----------------------------------------------------------------------------
(* A class laid over the partition.                                        *)

CoverageOK == /\ DOMAIN coverage \subseteq Terminals
              /\ \A t \in DOMAIN coverage : coverage[t] \in Coverages /\ Fits(coverage[t], t.points)

\* A class read by the code unit names no lead that one read by the code
\* point names.
LeadsApart == \A t \in DOMAIN coverage, m \in DOMAIN coverage :
                 t.points /\ ~m.points => Leads(coverage[t]) \cap Leads(coverage[m]) = {}

\* What is compared, cut or allocated is a class that covers something.
ContestedOK == \A t \in contested : t \in DOMAIN coverage /\ coverage[t] # <<>>

NoTokens == atom_tokens = Nothing /\ token_sets = Nothing /\ set_ranges = Nothing
NothingCut == coverages = {} /\ atoms = {} /\ NoTokens

Exact == \A r \in coverages, c \in CodePoint : Covers(r, c) <=> \E s \in atoms : In(c, s) /\ Holds(r, s)

\* A token was minted for a class that holds its atom.
MintedOK == \A s \in DOMAIN atom_tokens :
               /\ s \in atoms
               /\ \E m \in contested : /\ Holds(coverage[m], s)
                                       /\ atom_tokens[s] = [span |-> s, u |-> Unicode(s, m.points)]
\* A token set has the tokens of the atoms the class holds.
SetsOK == /\ DOMAIN token_sets \subseteq contested /\ DOMAIN set_ranges = DOMAIN token_sets
          /\ \A t \in DOMAIN token_sets :
                /\ Held(t) \subseteq DOMAIN atom_tokens
                /\ token_sets[t] = { atom_tokens[s] : s \in Held(t) }
                /\ set_ranges[t] = CodeUnitReach(coverage[t], t.points)

InPhase ==
    \/ phase = "collect" /\ n \in Nat \ {0} /\ NothingCut /\ contested = {}
    \/ phase = "contest" /\ LeadsApart /\ NothingCut
    \/ phase = "sweep" /\ LeadsApart /\ NothingCut
         /\ mine \in DOMAIN Keys /\ other \in DOMAIN Keys /\ a = coverage[Keys[mine]]
    \/ phase = "partition" /\ LeadsApart /\ NoTokens
         /\ n \in Nat \ {0} /\ coverages = { coverage[t] : t \in contested } /\ PartitionInv
    \/ phase = "allocate" /\ LeadsApart
         /\ n \in Nat \ {0} /\ coverages = { coverage[t] : t \in contested } /\ atoms \subseteq Spans /\ Exact
         /\ MintedOK /\ SetsOK

ClassesInv == /\ terminals \in Seq(Terminals)
              /\ mine \in Nat \ {0} /\ other \in Nat \ {0}
              /\ CoverageOK /\ ContestedOK /\ SweepInv /\ AtomsApart
              /\ InPhase

-----------------------------------------------------------------------------
(* A map with one more entry.                                              *)
LEMMA WithFacts ==
    ASSUME NEW f, NEW x, NEW v
    PROVE  /\ DOMAIN With(f, x, v) = DOMAIN f \cup {x}
           /\ With(f, x, v)[x] = v
           /\ \A y \in DOMAIN f : y # x => With(f, x, v)[y] = f[y]
BY DEF With

(* The classes compared are the classes that take part.                    *)
LEMMA MetType ==
    ASSUME NEW q \in Seq(DOMAIN coverage), NEW t
    PROVE  Met(q, t) \in Seq(DOMAIN coverage)
<1>1. PICK D : D = DOMAIN coverage
  OBVIOUS
<1>2. t \in D => Append(q, t) \in Seq(D)
  BY <1>1
<1> QED BY <1>1, <1>2, Zenon DEF Met

LEMMA KeysFacts ==
    ASSUME terminals \in Seq(Terminals)
    PROVE  Keys \in Seq(DOMAIN coverage)
<1> DEFINE D == DOMAIN coverage
           S == Seq(D)
<1>1. PICK size \in Nat : size = Len(terminals) /\ DOMAIN terminals = 1..size
  OBVIOUS
<1> DEFINE step == [k \in 1..size |-> [q \in S |-> Met(q, terminals[k])]]
<1>2. \A k \in 1..size, q \in S : step[k][q] = Met(q, terminals[k]) /\ step[k][q] \in S
  BY MetType
<1> HIDE DEF step
<1>3. <<>> \in S
  OBVIOUS
<1> HIDE DEF S
<1>4. Steps(step, S, size)
  BY <1>2 DEF Steps
<1>5. PICK f : Follows(f, step, S, <<>>, size)
  BY <1>3, <1>4, Recursion
<1> DEFINE Defines(h) == h = [k \in 0..size |-> IF k = 0 THEN <<>> ELSE Met(h[k - 1], terminals[k])]
           met == CHOOSE h : Defines(h)
<1>6. Defines(f)
  <2>1. ASSUME NEW k \in 0..size PROVE f[k] = IF k = 0 THEN <<>> ELSE Met(f[k - 1], terminals[k])
    <3>1. CASE k = 0
      BY <3>1, <1>5 DEF Follows
    <3>2. CASE k # 0
      <4>1. k \in 1..size
        BY <3>2
      <4>2. f[k - 1] \in S /\ f[k] = step[k][f[k - 1]]
        BY <4>1, <1>5 DEF Follows
      <4> QED BY <4>1, <4>2, <1>2, <3>2
    <3> QED BY <3>1, <3>2
  <2>2. f = [k \in 0..size |-> f[k]]
    BY <1>5 DEF Follows
  <2> HIDE DEF met
  <2> QED BY <2>1, <2>2
<1>7. Defines(met)
  <2> HIDE DEF Defines
  <2> QED BY <1>6
<1>8. Keys = met[size]
  BY <1>1 DEF Keys
<1> HIDE DEF met
<1>9. met[0] = <<>> /\ \A k \in 1..size : met[k] = Met(met[k - 1], terminals[k])
  BY <1>7
<1> DEFINE H == { k \in 0..size : met[k] \in S }
<1>10. 0 \in H
  BY <1>3, <1>9
<1>11. \A k \in 1..size : k - 1 \in H => k \in H
  <2> SUFFICES ASSUME NEW k \in 1..size, met[k - 1] \in S PROVE met[k] \in S
    OBVIOUS
  <2> QED BY <1>9, MetType DEF S
<1> HIDE DEF H
<1>12. \A k \in 0..size : k \in H
  BY <1>10, <1>11, Induct
<1>13. met[size] \in S
  BY <1>12 DEF H
<1> QED BY <1>8, <1>13 DEF S

(* A class that shares a character with another covers something.          *)
LEMMA SharingCovers ==
    ASSUME NEW r \in Coverages, NEW s, ShareChar(r, s)
    PROVE  r # <<>>
BY DEF ShareChar, Covers

(* Cuts have a least one when there is anything to cut.                    *)
LEMMA FirstCutExists ==
    ASSUME NEW cs, cs \subseteq Coverages, NEW r \in cs, r # <<>>
    PROVE  Min(Cuts(cs)) \in Cuts(cs) /\ FirstCut(cs, Min(Cuts(cs)))
<1>1. ASSUME NEW c \in Cuts(cs) PROVE c \in Nat
  <2>1. PICK q \in cs : \E k \in DOMAIN q : c = q[k].lo \/ c = q[k].hi + 1
    BY DEF Cuts
  <2>2. PICK k \in DOMAIN q : c = q[k].lo \/ c = q[k].hi + 1
    BY <2>1
  <2>3. q[k] \in Spans
    BY DEF Coverages
  <2> QED BY <2>2, <2>3, SpanTypes
<1>2. r[1].lo \in Cuts(cs)
  <2>1. 1 \in DOMAIN r
    BY DEF Coverages
  <2> QED BY <2>1 DEF Cuts
<1>3. PICK cut \in Cuts(cs) : \A d \in Cuts(cs) : cut <= d
  <2>1. Cuts(cs) \subseteq Nat /\ Cuts(cs) # {}
    BY <1>1, <1>2
  <2> QED BY <2>1, Least
<1>4. Min(Cuts(cs)) \in Cuts(cs) /\ \A d \in Cuts(cs) : Min(Cuts(cs)) <= d
  BY <1>3 DEF Min
<1> QED BY <1>4 DEF FirstCut

-----------------------------------------------------------------------------
(* The invariant holds at first and is kept by every step.                 *)

LEMMA ClassesInit == Init => ClassesInv
<1> SUFFICES ASSUME Init PROVE ClassesInv
  OBVIOUS
<1>1. terminals \in Seq(Terminals)
  BY InputsAssumption DEF Init
<1>2. mine \in Nat \ {0} /\ other \in Nat \ {0} /\ AtomsApart
  BY DEF Init, AtomsApart
<1>3. CoverageOK /\ ContestedOK
  BY DEF Init, Nothing, CoverageOK, ContestedOK
<1>4. SweepInv
  BY SweepInitInv DEF Init
<1>5. InPhase
  BY DEF Init, InPhase, NothingCut, NoTokens
<1> QED BY <1>1, <1>2, <1>3, <1>4, <1>5 DEF ClassesInv

(* What a step leaves alone keeps its part of the invariant.               *)
LEMMA ClassesKept ==
    ASSUME CoverageOK, UNCHANGED coverage
    PROVE  CoverageOK' /\ (LeadsApart => LeadsApart')
BY DEF CoverageOK, LeadsApart

LEMMA ContestedKept ==
    ASSUME ContestedOK, UNCHANGED <<coverage, contested>>
    PROVE  ContestedOK'
BY DEF ContestedOK

LEMMA AtomsKept ==
    ASSUME UNCHANGED atoms
    PROVE  (AtomsApart => AtomsApart') /\ (NothingCut /\ UNCHANGED <<coverages, tokenVars>> => NothingCut')
BY DEF AtomsApart, NothingCut, NoTokens, tokenVars

LEMMA CollectInv == ClassesInv /\ Collect => ClassesInv'
<1> SUFFICES ASSUME ClassesInv, Collect PROVE ClassesInv'
  OBVIOUS
<1>1. /\ terminals \in Seq(Terminals) /\ CoverageOK /\ SweepInv /\ AtomsApart
      /\ n \in Nat \ {0} /\ NothingCut /\ contested = {} /\ mine \in Nat \ {0} /\ other \in Nat \ {0}
  BY DEF ClassesInv, InPhase, Collect
<1>2. /\ terminals' = terminals /\ phase' = "collect" /\ n' = n + 1
      /\ UNCHANGED <<mine, other, contested>> /\ UNCHANGED sweepVars /\ UNCHANGED partitionVars /\ UNCHANGED tokenVars
  BY DEF Collect, scanVars
<1>3. CoverageOK'
  <2>1. PICK t : t = terminals[n]
    OBVIOUS
  <2>2. t \in Terminals
    BY <1>1, <2>1 DEF Collect
  <2>3. coverage' = IF t \notin DOMAIN coverage /\ TakesPart(t)
                    THEN With(coverage, t, Normalize(PatternRanges(t))) ELSE coverage
    BY <2>1 DEF Collect
  <2>4. CASE t \notin DOMAIN coverage /\ TakesPart(t)
    <3>1. PICK r \in Coverages : r = Normalize(PatternRanges(t)) /\ Fits(r, t.points)
      BY <2>2, <2>4, GivenCoverage
    <3>2. coverage' = With(coverage, t, r)
      BY <2>3, <2>4, <3>1
    <3>3. /\ DOMAIN coverage' = DOMAIN coverage \cup {t} /\ coverage'[t] = r
          /\ \A m \in DOMAIN coverage : m # t => coverage'[m] = coverage[m]
      <4>1. PICK f : f = With(coverage, t, r)
        OBVIOUS
      <4>2. /\ DOMAIN f = DOMAIN coverage \cup {t} /\ f[t] = r
            /\ \A m \in DOMAIN coverage : m # t => f[m] = coverage[m]
        BY <4>1 DEF With
      <4> QED BY <3>2, <4>1, <4>2
    <3> QED BY <1>1, <2>2, <3>1, <3>3 DEF CoverageOK
  <2>5. CASE ~(t \notin DOMAIN coverage /\ TakesPart(t))
    BY <1>1, <2>3, <2>5, ClassesKept
  <2> QED BY <2>4, <2>5
<1>4. SweepInv' /\ AtomsApart' /\ NothingCut'
  BY <1>1, <1>2, StutterInv, AtomsKept DEF partitionVars
<1>5. ContestedOK'
  BY <1>1, <1>2 DEF ContestedOK
<1>6. InPhase'
  BY <1>1, <1>2, <1>4 DEF InPhase
<1> QED BY <1>1, <1>2, <1>3, <1>4, <1>5, <1>6 DEF ClassesInv

LEMMA ExcludeInv == ClassesInv /\ Exclude => ClassesInv'
<1> SUFFICES ASSUME ClassesInv, Exclude PROVE ClassesInv'
  OBVIOUS
<1>1. /\ terminals \in Seq(Terminals) /\ CoverageOK /\ SweepInv /\ AtomsApart
      /\ NothingCut /\ contested = {} /\ mine \in Nat \ {0} /\ other \in Nat \ {0}
  BY DEF ClassesInv, InPhase, Exclude
<1>2. /\ terminals' = terminals /\ phase' = "contest"
      /\ UNCHANGED <<mine, other, contested>> /\ UNCHANGED sweepVars /\ UNCHANGED partitionVars /\ UNCHANGED tokenVars
  BY DEF Exclude, scanVars
<1>3. /\ DOMAIN coverage' = Stay /\ Stay \subseteq DOMAIN coverage
      /\ \A t \in Stay : coverage'[t] = coverage[t]
  BY DEF Exclude, Stay
<1>4. CoverageOK'
  BY <1>1, <1>3 DEF CoverageOK
<1>5. LeadsApart'
  <2> SUFFICES ASSUME NEW t \in DOMAIN coverage', NEW m \in DOMAIN coverage', t.points, ~m.points
               PROVE  Leads(coverage'[t]) \cap Leads(coverage'[m]) = {}
    BY DEF LeadsApart
  <2>1. coverage'[t] = coverage[t] /\ coverage'[m] = coverage[m] /\ t \in DOMAIN coverage
    BY <1>3
  <2>2. Leads(coverage[t]) \subseteq PointLeads
    BY <2>1 DEF PointLeads
  <2>3. Leads(coverage[m]) \cap PointLeads = {}
    BY <1>3 DEF Stay
  <2> QED BY <2>1, <2>2, <2>3
<1>6. SweepInv' /\ AtomsApart' /\ NothingCut'
  BY <1>1, <1>2, StutterInv, AtomsKept DEF partitionVars
<1>7. ContestedOK'
  BY <1>1, <1>2 DEF ContestedOK
<1>8. InPhase'
  BY <1>2, <1>5, <1>6 DEF InPhase
<1> QED BY <1>1, <1>2, <1>4, <1>6, <1>7, <1>8 DEF ClassesInv

LEMMA SameClassInv == ClassesInv /\ SameClass => ClassesInv'
<1> SUFFICES ASSUME ClassesInv, SameClass PROVE ClassesInv'
  OBVIOUS
<1>1. /\ terminals \in Seq(Terminals) /\ CoverageOK /\ ContestedOK /\ SweepInv /\ AtomsApart
      /\ LeadsApart /\ NothingCut /\ mine \in Nat \ {0} /\ other \in Nat \ {0}
  BY DEF ClassesInv, InPhase, SameClass
<1>2. /\ phase' = "contest" /\ other' = other + 1 /\ UNCHANGED <<terminals, coverage, mine, contested>>
      /\ UNCHANGED sweepVars /\ UNCHANGED partitionVars /\ UNCHANGED tokenVars
  BY DEF SameClass
<1>3. SweepInv' /\ AtomsApart' /\ NothingCut' /\ CoverageOK' /\ ContestedOK' /\ LeadsApart'
  BY <1>1, <1>2, StutterInv, AtomsKept, ClassesKept, ContestedKept DEF partitionVars
<1>4. InPhase'
  BY <1>2, <1>3 DEF InPhase
<1> QED BY <1>1, <1>2, <1>3, <1>4 DEF ClassesInv

LEMMA NoneLeftInv == ClassesInv /\ NoneLeft => ClassesInv'
<1> SUFFICES ASSUME ClassesInv, NoneLeft PROVE ClassesInv'
  OBVIOUS
<1>1. /\ terminals \in Seq(Terminals) /\ CoverageOK /\ ContestedOK /\ SweepInv /\ AtomsApart
      /\ LeadsApart /\ NothingCut /\ mine \in Nat \ {0}
  BY DEF ClassesInv, InPhase, NoneLeft
<1>2. /\ phase' = "contest" /\ mine' = mine + 1 /\ other' = 1 /\ UNCHANGED <<terminals, coverage, contested>>
      /\ UNCHANGED sweepVars /\ UNCHANGED partitionVars /\ UNCHANGED tokenVars
  BY DEF NoneLeft
<1>3. SweepInv' /\ AtomsApart' /\ NothingCut' /\ CoverageOK' /\ ContestedOK' /\ LeadsApart'
  BY <1>1, <1>2, StutterInv, AtomsKept, ClassesKept, ContestedKept DEF partitionVars
<1>4. InPhase'
  BY <1>2, <1>3 DEF InPhase
<1> QED BY <1>1, <1>2, <1>3, <1>4 DEF ClassesInv

(* The two classes compared cover what they cover in normal form.          *)
LEMMA ComparedClasses ==
    ASSUME terminals \in Seq(Terminals), CoverageOK, NEW k \in DOMAIN Keys
    PROVE  Keys[k] \in DOMAIN coverage /\ coverage[Keys[k]] \in Coverages
BY KeysFacts DEF CoverageOK

LEMMA CompareInv == ClassesInv /\ Compare => ClassesInv'
<1> SUFFICES ASSUME ClassesInv, Compare PROVE ClassesInv'
  OBVIOUS
<1>1. /\ terminals \in Seq(Terminals) /\ CoverageOK /\ ContestedOK /\ SweepInv /\ AtomsApart
      /\ LeadsApart /\ NothingCut /\ mine \in Nat \ {0} /\ other \in Nat \ {0}
  BY DEF ClassesInv, InPhase, Compare
<1>2. /\ phase' = "sweep" /\ UNCHANGED <<terminals, coverage, mine, other, contested>>
      /\ UNCHANGED partitionVars /\ UNCHANGED tokenVars
      /\ Ask(coverage[Keys[mine]], coverage[Keys[other]])
      /\ mine <= Len(Keys) /\ other <= Len(Keys)
  BY DEF Compare, scanVars
<1>3. mine \in DOMAIN Keys /\ other \in DOMAIN Keys
  BY <1>1, <1>2, KeysFacts
<1>4. coverage[Keys[mine]] \in Coverages /\ coverage[Keys[other]] \in Coverages
  BY <1>1, <1>3, ComparedClasses
<1>5. SweepInv'
  BY <1>1, <1>2, <1>4, AskInv
<1>6. AtomsApart' /\ NothingCut' /\ CoverageOK' /\ ContestedOK' /\ LeadsApart'
  BY <1>1, <1>2, AtomsKept, ClassesKept, ContestedKept DEF partitionVars
<1>7. Keys' = Keys
  BY <1>2 DEF Keys, Met
<1>8. a' = coverage'[Keys'[mine']] /\ mine' \in DOMAIN Keys' /\ other' \in DOMAIN Keys'
  BY <1>2, <1>3, <1>7 DEF Ask
<1>9. InPhase'
  BY <1>2, <1>6, <1>8 DEF InPhase
<1> QED BY <1>1, <1>2, <1>5, <1>6, <1>9 DEF ClassesInv

LEMMA SweepOnInv == ClassesInv /\ SweepOn => ClassesInv'
<1> SUFFICES ASSUME ClassesInv, SweepOn PROVE ClassesInv'
  OBVIOUS
<1>1. /\ terminals \in Seq(Terminals) /\ CoverageOK /\ ContestedOK /\ SweepInv /\ AtomsApart
      /\ LeadsApart /\ NothingCut /\ mine \in Nat \ {0} /\ other \in Nat \ {0}
      /\ mine \in DOMAIN Keys /\ other \in DOMAIN Keys /\ a = coverage[Keys[mine]]
  BY DEF ClassesInv, InPhase, SweepOn
<1>2. /\ phase' = "sweep" /\ UNCHANGED <<terminals, coverage, mine, other, contested>>
      /\ UNCHANGED partitionVars /\ UNCHANGED tokenVars /\ Sweep
  BY DEF SweepOn, scanVars
<1>3. SweepInv'
  BY <1>1, <1>2, SweepNextInv DEF SweepStep
<1>4. AtomsApart' /\ NothingCut' /\ CoverageOK' /\ ContestedOK' /\ LeadsApart'
  BY <1>1, <1>2, AtomsKept, ClassesKept, ContestedKept DEF partitionVars
<1>5. Keys' = Keys /\ a' = a
  BY <1>2 DEF Keys, Met, Sweep, Found, NextOfA, NextOfB, RunOut
<1>6. a' = coverage'[Keys'[mine']] /\ mine' \in DOMAIN Keys' /\ other' \in DOMAIN Keys'
  BY <1>1, <1>2, <1>5
<1>7. InPhase'
  BY <1>2, <1>4, <1>6 DEF InPhase
<1> QED BY <1>1, <1>2, <1>3, <1>4, <1>7 DEF ClassesInv

LEMMA HearInv == ClassesInv /\ Hear => ClassesInv'
<1> SUFFICES ASSUME ClassesInv, Hear PROVE ClassesInv'
  OBVIOUS
<1>1. /\ terminals \in Seq(Terminals) /\ CoverageOK /\ ContestedOK /\ SweepInv /\ AtomsApart
      /\ LeadsApart /\ NothingCut /\ mine \in Nat \ {0} /\ other \in Nat \ {0}
      /\ mine \in DOMAIN Keys /\ a = coverage[Keys[mine]]
  BY DEF ClassesInv, InPhase, Hear
<1>2. /\ phase' = "contest" /\ UNCHANGED <<terminals, coverage>>
      /\ UNCHANGED sweepVars /\ UNCHANGED partitionVars /\ UNCHANGED tokenVars
      /\ mine' \in {mine, mine + 1} /\ other' \in {1, other + 1}
      /\ \/ contested' = contested
         \/ answer = "yes" /\ contested' = contested \cup {Keys[mine]}
  BY DEF Hear
<1>3. SweepInv' /\ AtomsApart' /\ NothingCut' /\ CoverageOK' /\ LeadsApart'
  BY <1>1, <1>2, StutterInv, AtomsKept, ClassesKept DEF partitionVars
<1>4. ContestedOK'
  <2>1. Keys[mine] \in DOMAIN coverage /\ coverage[Keys[mine]] \in Coverages
    BY <1>1, ComparedClasses
  <2>2. answer = "yes" => coverage[Keys[mine]] # <<>>
    BY <1>1, <2>1, SharingCovers DEF SweepInv
  <2> QED BY <1>1, <1>2, <2>1, <2>2 DEF ContestedOK
<1>5. InPhase'
  BY <1>2, <1>3 DEF InPhase
<1> QED BY <1>1, <1>2, <1>3, <1>4, <1>5 DEF ClassesInv

LEMMA ComparedInv == ClassesInv /\ Compared => ClassesInv'
<1>1. (PartitionStart => PartitionInv)'
  BY FirstCutInv, PTL
<1> SUFFICES ASSUME ClassesInv, Compared PROVE ClassesInv'
  OBVIOUS
<1>2. /\ terminals \in Seq(Terminals) /\ CoverageOK /\ ContestedOK /\ SweepInv /\ AtomsApart
      /\ LeadsApart /\ NothingCut /\ mine \in Nat \ {0} /\ other \in Nat \ {0}
  BY DEF ClassesInv, InPhase, Compared
<1>3. /\ UNCHANGED <<terminals, coverage, mine, other, contested>> /\ UNCHANGED atoms
      /\ UNCHANGED sweepVars /\ UNCHANGED tokenVars
      /\ n' = 1 /\ coverages' = { coverage[t] : t \in contested }
  BY DEF Compared, scanVars
<1>4. SweepInv' /\ AtomsApart' /\ CoverageOK' /\ ContestedOK' /\ LeadsApart'
  BY <1>2, <1>3, StutterInv, AtomsKept, ClassesKept, ContestedKept
<1>5. atoms' = {} /\ NoTokens'
  BY <1>2, <1>3 DEF NothingCut, NoTokens, tokenVars
<1>6. coverages' \subseteq Coverages /\ coverages' = { coverage'[t] : t \in contested' }
  BY <1>2, <1>3 DEF ContestedOK, CoverageOK
<1>7. CASE contested = {}
  <2>1. phase' = "allocate" /\ coverages' = {}
    BY <1>3, <1>7 DEF Compared
  <2>2. Exact' /\ atoms' \subseteq Spans
    BY <1>5, <2>1 DEF Exact
  <2>3. MintedOK' /\ SetsOK'
    BY <1>5 DEF MintedOK, SetsOK, NoTokens, Nothing
  <2>4. InPhase'
    BY <1>3, <1>4, <1>6, <2>1, <2>2, <2>3 DEF InPhase
  <2> QED BY <1>2, <1>3, <1>4, <2>4 DEF ClassesInv
<1>8. CASE contested # {}
  <2>1. phase' = "partition" /\ at' = Min(Cuts(coverages'))
    BY <1>8 DEF Compared
  <2>2. PICK r \in coverages' : r # <<>>
    BY <1>2, <1>3, <1>8 DEF ContestedOK
  <2>3. at' \in Cuts(coverages') /\ FirstCut(coverages', at')
    BY <1>6, <2>1, <2>2, FirstCutExists
  <2>4. PartitionStart'
    BY <1>5, <1>6, <2>3 DEF PartitionStart, Coverages
  <2>5. PartitionInv'
    BY <1>1, <2>4
  <2>6. InPhase'
    BY <1>3, <1>4, <1>5, <1>6, <2>1, <2>5 DEF InPhase
  <2> QED BY <1>2, <1>3, <1>4, <2>6 DEF ClassesInv
<1> QED BY <1>7, <1>8

LEMMA CutWindowInv == ClassesInv /\ CutWindow => ClassesInv'
<1> SUFFICES ASSUME ClassesInv, CutWindow PROVE ClassesInv'
  OBVIOUS
<1>1. /\ terminals \in Seq(Terminals) /\ CoverageOK /\ ContestedOK /\ SweepInv /\ AtomsApart
      /\ LeadsApart /\ NoTokens /\ mine \in Nat \ {0} /\ other \in Nat \ {0} /\ n \in Nat \ {0}
      /\ coverages = { coverage[t] : t \in contested } /\ PartitionInv
  BY DEF ClassesInv, InPhase, CutWindow
<1>2. /\ phase' = "partition" /\ UNCHANGED <<terminals, n, coverage, mine, other, contested, coverages>>
      /\ UNCHANGED sweepVars /\ UNCHANGED tokenVars /\ Window
  BY DEF CutWindow, scanVars, Window
<1>3. SweepInv' /\ CoverageOK' /\ ContestedOK' /\ LeadsApart'
  BY <1>1, <1>2, StutterInv, ClassesKept, ContestedKept
<1>4. PartitionInv' /\ AtomsApart'
  BY <1>1, <1>2, WindowInv, WindowApart
<1>5. NoTokens'
  BY <1>1, <1>2 DEF NoTokens, tokenVars
<1>6. InPhase'
  BY <1>1, <1>2, <1>3, <1>4, <1>5 DEF InPhase
<1> QED BY <1>1, <1>2, <1>3, <1>4, <1>6 DEF ClassesInv

LEMMA PartitionedInv == ClassesInv /\ Partitioned => ClassesInv'
<1> SUFFICES ASSUME ClassesInv, Partitioned PROVE ClassesInv'
  OBVIOUS
<1>1. /\ terminals \in Seq(Terminals) /\ CoverageOK /\ ContestedOK /\ SweepInv /\ AtomsApart
      /\ LeadsApart /\ NoTokens /\ mine \in Nat \ {0} /\ other \in Nat \ {0} /\ n \in Nat \ {0}
      /\ coverages = { coverage[t] : t \in contested } /\ PartitionInv
  BY DEF ClassesInv, InPhase, Partitioned
<1>2. /\ phase' = "allocate" /\ UNCHANGED <<terminals, n, coverage, mine, other, contested>>
      /\ UNCHANGED <<coverages, atoms>> /\ UNCHANGED sweepVars /\ UNCHANGED tokenVars /\ AllCut
  BY DEF Partitioned, scanVars, partitionVars
<1>3. SweepInv' /\ CoverageOK' /\ ContestedOK' /\ LeadsApart' /\ AtomsApart'
  BY <1>1, <1>2, StutterInv, ClassesKept, ContestedKept, AtomsKept
<1>4. Exact /\ atoms \subseteq Spans
  BY <1>1, <1>2, DoneIsExact DEF AtomsExact, Exact, PartitionInv, PartitionTypeOK
<1>5. Exact' /\ atoms' \subseteq Spans
  BY <1>2, <1>4 DEF Exact
<1>6. MintedOK' /\ SetsOK'
  BY <1>1, <1>2 DEF MintedOK, SetsOK, NoTokens, Nothing, tokenVars
<1>7. InPhase'
  BY <1>1, <1>2, <1>3, <1>5, <1>6 DEF InPhase
<1> QED BY <1>1, <1>2, <1>3, <1>7 DEF ClassesInv

LEMMA AllocateInv == ClassesInv /\ Allocate => ClassesInv'
<1> SUFFICES ASSUME ClassesInv, Allocate PROVE ClassesInv'
  OBVIOUS
<1>1. /\ terminals \in Seq(Terminals) /\ CoverageOK /\ ContestedOK /\ SweepInv /\ AtomsApart
      /\ LeadsApart /\ mine \in Nat \ {0} /\ other \in Nat \ {0} /\ n \in Nat \ {0}
      /\ coverages = { coverage[t] : t \in contested } /\ atoms \subseteq Spans /\ Exact
      /\ MintedOK /\ SetsOK
  BY DEF ClassesInv, InPhase, Allocate
<1>2. /\ phase' = "allocate" /\ n' = n + 1 /\ UNCHANGED <<terminals, coverage, mine, other, contested>>
      /\ UNCHANGED <<coverages, atoms>> /\ UNCHANGED sweepVars
  BY DEF Allocate, scanVars, partitionVars
<1>3. SweepInv' /\ CoverageOK' /\ ContestedOK' /\ LeadsApart' /\ AtomsApart'
  BY <1>1, <1>2, StutterInv, ClassesKept, ContestedKept, AtomsKept
<1>4. Exact' /\ atoms' \subseteq Spans
  BY <1>1, <1>2 DEF Exact
<1>5. MintedOK' /\ SetsOK'
  <2>1. PICK t : t = terminals[n]
    OBVIOUS
  <2>2. CASE t \notin contested \/ t \in DOMAIN token_sets
    <3>1. UNCHANGED <<atom_tokens, token_sets, set_ranges>>
      BY <2>1, <2>2 DEF Allocate
    <3> QED BY <1>1, <1>2, <3>1 DEF MintedOK, SetsOK, Held
  <2>3. CASE t \in contested /\ t \notin DOMAIN token_sets
    <3>1. PICK tokens : tokens = Minted(t)
      OBVIOUS
    <3>2. /\ DOMAIN tokens = DOMAIN atom_tokens \cup Held(t)
          /\ \A s \in DOMAIN atom_tokens : tokens[s] = atom_tokens[s]
          /\ \A s \in Held(t) : s \notin DOMAIN atom_tokens => tokens[s] = [span |-> s, u |-> Unicode(s, t.points)]
      BY <3>1 DEF Minted
    <3>3. PICK set, reach : set = { tokens[s] : s \in Held(t) } /\ reach = CodeUnitReach(coverage[t], t.points)
      OBVIOUS
    <3>4. /\ atom_tokens' = tokens
          /\ token_sets' = With(token_sets, t, set)
          /\ set_ranges' = With(set_ranges, t, reach)
      BY <2>1, <2>3, <3>1, <3>3 DEF Allocate
    <3>5. /\ DOMAIN token_sets' = DOMAIN token_sets \cup {t} /\ token_sets'[t] = set
          /\ \A m \in DOMAIN token_sets : m # t => token_sets'[m] = token_sets[m]
      BY <3>4 DEF With
    <3>6. /\ DOMAIN set_ranges' = DOMAIN set_ranges \cup {t} /\ set_ranges'[t] = reach
          /\ \A m \in DOMAIN set_ranges : m # t => set_ranges'[m] = set_ranges[m]
      BY <3>4 DEF With
    <3>7. \A m : Held(m)' = Held(m)
      BY <1>2 DEF Held
    <3>8. MintedOK'
      <4> SUFFICES ASSUME NEW s \in DOMAIN tokens
                   PROVE  /\ s \in atoms
                          /\ \E m \in contested : /\ Holds(coverage[m], s)
                                                  /\ tokens[s] = [span |-> s, u |-> Unicode(s, m.points)]
        BY <1>2, <3>4 DEF MintedOK
      <4>1. CASE s \in DOMAIN atom_tokens
        BY <1>1, <3>2, <4>1 DEF MintedOK
      <4>2. CASE s \notin DOMAIN atom_tokens
        <5>1. s \in atoms /\ Holds(coverage[t], s) /\ tokens[s] = [span |-> s, u |-> Unicode(s, t.points)]
          BY <3>2, <4>2 DEF Held
        <5> QED BY <2>3, <5>1
      <4> QED BY <4>1, <4>2
    <3>9. SetsOK'
      <4>1. DOMAIN token_sets' \subseteq contested' /\ DOMAIN set_ranges' = DOMAIN token_sets'
        BY <1>1, <1>2, <2>3, <3>5, <3>6 DEF SetsOK
      <4>2. ASSUME NEW m \in DOMAIN token_sets'
            PROVE  /\ Held(m) \subseteq DOMAIN tokens
                   /\ token_sets'[m] = { tokens[s] : s \in Held(m) }
                   /\ set_ranges'[m] = CodeUnitReach(coverage[m], m.points)
        <5>1. CASE m = t
          BY <3>2, <3>3, <3>5, <3>6, <5>1
        <5>2. CASE m # t
          <6>1. /\ m \in DOMAIN token_sets /\ m \in DOMAIN set_ranges
                /\ token_sets'[m] = token_sets[m] /\ set_ranges'[m] = set_ranges[m]
            BY <1>1, <3>5, <3>6, <5>2 DEF SetsOK
          <6>2. /\ Held(m) \subseteq DOMAIN atom_tokens
                /\ token_sets[m] = { atom_tokens[s] : s \in Held(m) }
                /\ set_ranges[m] = CodeUnitReach(coverage[m], m.points)
            BY <1>1, <6>1 DEF SetsOK
          <6>3. \A s \in Held(m) : tokens[s] = atom_tokens[s] /\ s \in DOMAIN tokens
            BY <3>2, <6>2
          <6>4. { tokens[s] : s \in Held(m) } = { atom_tokens[s] : s \in Held(m) }
            BY <6>3
          <6> QED BY <6>1, <6>2, <6>3, <6>4
        <5> QED BY <5>1, <5>2
      <4> QED BY <1>2, <3>4, <3>7, <4>1, <4>2 DEF SetsOK
    <3> QED BY <3>8, <3>9
  <2> QED BY <2>2, <2>3
<1>6. InPhase'
  BY <1>1, <1>2, <1>3, <1>4, <1>5 DEF InPhase
<1> QED BY <1>1, <1>2, <1>3, <1>6 DEF ClassesInv

LEMMA StutterClasses == ClassesInv /\ UNCHANGED vars => ClassesInv'
<1> SUFFICES ASSUME ClassesInv, UNCHANGED vars PROVE ClassesInv'
  OBVIOUS
<1>1. /\ UNCHANGED <<terminals, phase, n, coverage, mine, other, contested>>
      /\ UNCHANGED sweepVars /\ UNCHANGED <<coverages, at, atoms>> /\ UNCHANGED <<atom_tokens, token_sets, set_ranges>>
  BY DEF vars, scanVars, partitionVars, tokenVars
<1>2. /\ terminals \in Seq(Terminals) /\ CoverageOK /\ ContestedOK /\ SweepInv /\ AtomsApart
      /\ mine \in Nat \ {0} /\ other \in Nat \ {0}
  BY DEF ClassesInv
<1>3. SweepInv' /\ AtomsApart' /\ CoverageOK' /\ ContestedOK'
  BY <1>1, <1>2, StutterInv, AtomsKept, ClassesKept, ContestedKept
<1>4. InPhase'
  <2>1. Keys' = Keys /\ a' = a
    BY <1>1 DEF Keys, Met, sweepVars
  <2>2. (LeadsApart => LeadsApart') /\ (NothingCut => NothingCut') /\ (NoTokens => NoTokens')
    BY <1>1 DEF LeadsApart, NothingCut, NoTokens
  <2>3. PartitionInv => PartitionInv'
    BY <1>1, PartitionNextInv DEF partitionVars
  <2>4. (Exact => Exact') /\ (MintedOK => MintedOK') /\ (SetsOK => SetsOK')
    BY <1>1 DEF Exact, MintedOK, SetsOK, Held
  <2>5. InPhase
    BY DEF ClassesInv
  <2> QED BY <1>1, <2>1, <2>2, <2>3, <2>4, <2>5 DEF InPhase
<1> QED BY <1>1, <1>2, <1>3, <1>4 DEF ClassesInv

(* What class_analysis and emit_class_token keep, from the first terminal  *)
(* to the last.                                                            *)
THEOREM ClassesInvariant == Spec => []ClassesInv
<1>1. ClassesInv /\ [Next]_vars => ClassesInv'
  <2>1. CASE Returned
    BY <2>1, StutterClasses DEF Returned
  <2> QED BY <2>1, CollectInv, ExcludeInv, SameClassInv, CompareInv, SweepOnInv, HearInv, NoneLeftInv,
             ComparedInv, CutWindowInv, PartitionedInv, AllocateInv, StutterClasses DEF Next
<1> QED BY <1>1, ClassesInit, PTL DEF Spec

-----------------------------------------------------------------------------
(* What it makes of a grammar.                                             *)

(* No character is in two atoms of the partition, whatever the classes.    *)
THEOREM AtomsStayApart == Spec => []AtomsApart
<1>1. ClassesInv => AtomsApart
  BY DEF ClassesInv
<1> QED BY <1>1, ClassesInvariant, PTL

(* The classes laid over the partition are exact unions of its atoms.      *)
THEOREM ClassesAreUnions == Spec => []AtomsExact
<1>1. ClassesInv => AtomsExact
  <2> SUFFICES ASSUME ClassesInv PROVE AtomsExact
    OBVIOUS
  <2>1. CASE coverages = {}
    BY <2>1 DEF AtomsExact
  <2>2. CASE PartitionInv
    BY <2>2, DoneIsExact
  <2>3. CASE Exact
    BY <2>3 DEF Exact, AtomsExact
  <2> QED BY <2>1, <2>2, <2>3 DEF ClassesInv, InPhase, NothingCut
<1> QED BY <1>1, ClassesInvariant, PTL

(* A lead is one code unit.                                                *)
LEMMA FirstUnitFacts ==
    ASSUME NEW c \in CodePoint
    PROVE  /\ FirstUnit(c) \in CodePoint /\ FirstUnit(c) <= MaxUnit
           /\ c > MaxUnit => FirstUnit(c) \in LeadLo..LeadHi
           /\ ~(c > MaxUnit) => FirstUnit(c) = c
<1> USE ScaleAssumption, MaxCodePointAssumption
<1>1. CASE c > MaxUnit
  <2>1. PICK lead \in LeadLo..LeadHi : lead = LeadOf(c)
    BY <1>1, LeadFacts
  <2>2. FirstUnit(c) = lead
    BY <1>1, <2>1 DEF FirstUnit
  <2>3. lead \in CodePoint /\ lead <= MaxUnit
    BY <1>1 DEF CodePoint
  <2> QED BY <1>1, <2>2, <2>3
<1>2. CASE ~(c > MaxUnit)
  BY <1>2 DEF FirstUnit, CodePoint
<1> QED BY <1>1, <1>2

(* An atom compiled for one of the classes that hold it reads as it would  *)
(* compiled for any other: where it could tell them apart, the class read  *)
(* by the code unit was left out (class_analysis, class_pattern).          *)
LEMMA AnyReadingWillDo ==
    ASSUME CoverageOK, LeadsApart, NEW s \in Spans,
           NEW t \in DOMAIN coverage, NEW m \in DOMAIN coverage,
           Holds(coverage[t], s), Holds(coverage[m], s), NEW c \in CodePoint
    PROVE  In(IF Unicode(s, m.points) THEN c ELSE FirstUnit(c), s)
             <=> In(IF t.points THEN c ELSE FirstUnit(c), s)
<1> USE ScaleAssumption, MaxCodePointAssumption
<1>1. CASE ~(c > MaxUnit)
  BY <1>1, FirstUnitFacts
<1>2. CASE c > MaxUnit
  <2>1. PICK lead \in LeadLo..LeadHi : lead = FirstUnit(c)
    BY <1>2, FirstUnitFacts
  <2>2. s.lo \in Nat /\ s.hi \in Nat /\ c \in Nat
    BY SpanTypes DEF CodePoint
  \* A class that holds the atom covers what is in it.
  <2>3. ASSUME In(lead, s), NEW z \in DOMAIN coverage, Holds(coverage[z], s) PROVE lead \in Leads(coverage[z])
    <3>1. PICK r : r = coverage[z] /\ r \in Seq(Spans)
      BY DEF CoverageOK, Coverages
    <3>2. PICK k \in DOMAIN r : r[k].lo <= s.lo /\ s.hi <= r[k].hi
      BY <2>3, <3>1 DEF Holds
    <3>3. r[k].lo \in Nat /\ r[k].hi \in Nat
      BY <3>1, SpanTypes
    <3>4. In(lead, r[k])
      BY <2>2, <2>3, <3>2, <3>3 DEF In
    <3> QED BY <3>1, <3>4 DEF Leads, Covers
  <2>4. In(lead, s) => ~(t.points /\ ~m.points) /\ ~(m.points /\ ~t.points)
    BY <2>3 DEF LeadsApart
  \* What is read by the code unit holds no astral character.
  <2>5. ASSUME ~t.points PROVE s.hi <= MaxUnit
    <3>1. PICK r : r = coverage[t] /\ r \in Seq(Spans) /\ \A k \in DOMAIN r : r[k].hi <= MaxUnit
      BY <2>5 DEF CoverageOK, Coverages, Fits
    <3>2. PICK k \in DOMAIN r : s.hi <= r[k].hi
      BY <3>1 DEF Holds
    <3>3. r[k].hi \in Nat /\ r[k].hi <= MaxUnit
      BY <3>1, SpanTypes
    <3> QED BY <2>2, <3>2, <3>3
  <2>6. s.hi <= MaxUnit => ~In(c, s)
    BY <1>2, <2>2 DEF In
  <2>7. CASE t.points
    <3>1. CASE Unicode(s, m.points)
      BY <2>7, <3>1
    <3>2. CASE ~Unicode(s, m.points)
      <4>1. s.hi <= MaxUnit /\ ~(m.points /\ s.lo <= LeadHi /\ LeadLo <= s.hi)
        BY <2>2, <3>2 DEF Unicode
      <4>2. ~In(lead, s)
        BY <2>2, <2>4, <2>7, <4>1 DEF In
      <4> QED BY <2>1, <2>6, <2>7, <3>2, <4>1, <4>2
    <3> QED BY <3>1, <3>2
  <2>8. CASE ~t.points
    <3>1. CASE ~Unicode(s, m.points)
      BY <2>8, <3>1
    <3>2. CASE Unicode(s, m.points)
      <4>1. s.hi <= MaxUnit /\ m.points
        BY <2>2, <2>5, <2>8, <3>2 DEF Unicode
      <4>2. ~In(lead, s) /\ ~In(c, s)
        BY <2>4, <2>6, <2>8, <4>1
      <4> QED BY <2>1, <2>8, <3>2, <4>2
    <3> QED BY <3>1, <3>2
  <2> QED BY <2>7, <2>8
<1> QED BY <1>1, <1>2

(* What a token of the set takes, atom by atom.                            *)
LEMMA AtomTakes ==
    ASSUME NEW s \in Spans, NEW u, NEW c
    PROVE  Takes(<< s >>, u, c) <=> In(IF u THEN c ELSE FirstUnit(c), s)
<1>1. PICK one : one = << s >> /\ DOMAIN one = {1} /\ one[1] = s
  <2>1. DOMAIN << s >> = 1..1 /\ << s >>[1] = s /\ 1..1 = {1}
    OBVIOUS
  <2> QED BY <2>1, Zenon
<1> QED BY <1>1, Zenon DEF Takes, Covers

LEMMA SetReads ==
    ASSUME ClassesInv, NEW t \in DOMAIN token_sets, NEW c \in CodePoint
    PROVE  SetTakes(t, c) <=> Takes(coverage[t], t.points, c)
<1>1. /\ CoverageOK /\ ContestedOK /\ LeadsApart /\ MintedOK /\ SetsOK /\ Exact /\ atoms \subseteq Spans
      /\ coverages = { coverage[z] : z \in contested }
  <2>1. token_sets # Nothing
    BY DEF Nothing
  <2> QED BY <2>1 DEF ClassesInv, InPhase, NothingCut, NoTokens
<1>2. t \in contested /\ t \in DOMAIN coverage /\ coverage[t] \in coverages
  BY <1>1 DEF SetsOK, ContestedOK
<1>3. /\ Held(t) \subseteq DOMAIN atom_tokens /\ token_sets[t] = { atom_tokens[s] : s \in Held(t) }
      /\ Held(t) = { s \in atoms : Holds(coverage[t], s) }
  BY <1>1 DEF SetsOK, Held
<1>4. PICK x \in CodePoint : x = IF t.points THEN c ELSE FirstUnit(c)
  BY FirstUnitFacts
<1>5. ASSUME NEW s \in Held(t)
      PROVE  Takes(<< atom_tokens[s].span >>, atom_tokens[s].u, c) <=> In(x, s)
  <2>1. PICK m \in contested : /\ Holds(coverage[m], s)
                               /\ atom_tokens[s] = [span |-> s, u |-> Unicode(s, m.points)]
    BY <1>1, <1>3 DEF MintedOK
  <2>2. atom_tokens[s].span = s /\ atom_tokens[s].u = Unicode(s, m.points)
    BY <2>1
  <2>3. s \in Spans /\ Holds(coverage[t], s) /\ m \in DOMAIN coverage
    BY <1>1, <1>3, <2>1 DEF ContestedOK
  <2>4. Takes(<< s >>, Unicode(s, m.points), c) <=> In(IF Unicode(s, m.points) THEN c ELSE FirstUnit(c), s)
    BY <2>3, AtomTakes
  <2>5. In(IF Unicode(s, m.points) THEN c ELSE FirstUnit(c), s) <=> In(x, s)
    BY <1>1, <1>2, <1>4, <2>1, <2>3, AnyReadingWillDo
  <2> QED BY <2>2, <2>4, <2>5
<1>6. SetTakes(t, c) <=> \E s \in Held(t) : In(x, s)
  BY <1>3, <1>5 DEF SetTakes
<1>7. Covers(coverage[t], x) <=> \E s \in Held(t) : In(x, s)
  BY <1>1, <1>2, <1>3 DEF Exact
<1> QED BY <1>4, <1>6, <1>7 DEF Takes

(* A class laid over the partition takes at every position what its own    *)
(* matcher would, though its atoms are shared with classes of another      *)
(* reading and compiled for whichever came first (class_analysis).         *)
THEOREM ClassesReadAsWritten == Spec => []ReadsAsWritten
<1>1. ClassesInv => ReadsAsWritten
  BY SetReads DEF ReadsAsWritten
<1> QED BY <1>1, ClassesInvariant, PTL

(* What the contest checks believe a token set covers is what its tokens   *)
(* can start on (code_unit_reach).                                         *)
THEOREM ReachIsExact == Spec => []ReachIsWhatItTakes
<1>1. ClassesInv => ReachIsWhatItTakes
  <2> SUFFICES ASSUME ClassesInv, NEW t \in DOMAIN set_ranges, NEW c \in CodePoint
               PROVE  SetTakes(t, c) <=> Covers(set_ranges[t], c)
    BY DEF ReachIsWhatItTakes
  <2>1. CoverageOK /\ ContestedOK /\ SetsOK
    <3>1. set_ranges # Nothing
      BY DEF Nothing
    <3> QED BY <3>1 DEF ClassesInv, InPhase, NothingCut, NoTokens
  <2>2. t \in DOMAIN token_sets /\ t \in DOMAIN coverage /\ set_ranges[t] = CodeUnitReach(coverage[t], t.points)
    BY <2>1 DEF SetsOK, ContestedOK
  <2>3. PICK r \in Seq(Spans) : r = coverage[t] /\ Fits(r, t.points)
    BY <2>1, <2>2 DEF CoverageOK, Coverages
  <2>4. t.points \in BOOLEAN
    BY <2>1, <2>2 DEF CoverageOK, Terminals
  <2>5. Covers(CodeUnitReach(r, t.points), c) <=> Takes(r, t.points, c)
    BY <2>3, <2>4, ReachExact DEF Fits
  <2> QED BY <2>2, <2>3, <2>5, SetReads
<1> QED BY <1>1, ClassesInvariant, PTL

(* Run inside class_analysis, the sweep still answers every question it is *)
(* asked, once, and truly.                                                 *)
THEOREM ClassesAsk == Spec => Answers
<1>1. Init => TheQuestion!Init
  BY DEF Init, SweepInit, TheQuestion!Init
<1>2. ClassesInv /\ [Next]_vars => [SweepStep]_sweepVars
  <2> SUFFICES ASSUME ClassesInv, [Next]_vars PROVE [SweepStep]_sweepVars
    OBVIOUS
  <2>1. CASE SweepOn
    BY <2>1 DEF SweepOn, SweepStep
  <2>2. CASE Compare
    <3>1. /\ terminals \in Seq(Terminals) /\ CoverageOK /\ mine \in Nat \ {0} /\ other \in Nat \ {0}
          /\ mine <= Len(Keys) /\ other <= Len(Keys)
      BY <2>2 DEF ClassesInv, Compare
    <3>2. mine \in DOMAIN Keys /\ other \in DOMAIN Keys
      BY <3>1, KeysFacts
    <3>3. coverage[Keys[mine]] \in Coverages /\ coverage[Keys[other]] \in Coverages
      BY <3>1, <3>2, ComparedClasses
    <3> QED BY <2>2, <3>3 DEF Compare, SweepStep
  <2>3. CASE UNCHANGED sweepVars
    BY <2>3
  <2> QED BY <2>1, <2>2, <2>3 DEF Next, Collect, Exclude, SameClass, Hear, NoneLeft, Compared, CutWindow,
             Partitioned, Allocate, Returned, vars
<1>3. ClassesInv => SweepInv
  BY DEF ClassesInv
<1>4. ClassesInv /\ [Next]_vars => [TheQuestion!Ask \/ TheQuestion!Answer]_<<a, b, answer>>
  BY <1>2, <1>3, StepAnswers
<1> QED BY <1>1, <1>4, ClassesInvariant, PTL DEF Spec, Answers, TheQuestion!Spec
=============================================================================
