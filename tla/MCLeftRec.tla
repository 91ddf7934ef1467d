----------------------------- MODULE MCLeftRec -----------------------------
(* LeftRec on the grammars that two mutually recursive rules and a         *)
(* nullable one can form from small pools of alternatives.                 *)
EXTENDS LeftRec, SequencesExt, FiniteSetsExt
MCNames == {"A", "B", "N"}

a == Term("a")
b == Term("b")
n == Term("n")
A == Ref("A")
B == Ref("B")
N == Ref("N")

\* The alternatives of S of pool, kept in the pool's order.
Pick(pool, S) == [k \in 1..Cardinality(S) |-> pool[SetToSortSeq(S, <)[k]]]
Picks(pool, most) ==
    { Pick(pool, S) : S \in { T \in SUBSET DOMAIN pool : Cardinality(T) \in 1..most } }

PoolA == << <<A, a>>, <<B, a>>, <<B>>, <<a, A, a>>, <<Opt(b), A, a>>, <<N, A, a>>, <<a>> >>
PoolB == << <<B, N>>, <<A, N>>, <<A>>, <<Rep(0, 2, b), B, b>>, <<N>>, <<b>> >>
PoolN == { << <<n>>, <<n, n>> >>, << <<>>, <<n>> >>, << <<n>>, <<Term("m")>> >>,
           << <<Rep(2, 1, n)>> >> }

Grammars(most) ==
    { << Prod("A", ga), Prod("B", gb), Prod("N", gn) >> :
        ga \in Picks(PoolA, most), gb \in Picks(PoolB, most), gn \in PoolN }

\* The limits of the code, which nothing here meets, and ones that refuse a
\* split or a substitution anywhere in the pass.
Real == [expansion |-> 512, elements |-> 131072]
Tight == [expansion |-> 1, elements |-> 4]
Given(grammars, most) == [grammar : grammars, limits : {most}]

\* Three rules that always consume, and can each begin with any other.
CycleA == << <<A, a>>, <<B, a>>, <<N>>, <<N, a>>, <<a>> >>
CycleB == << <<A, b>>, <<B, b>>, <<N, b>>, <<A>>, <<b>> >>
CycleN == << <<A, n>>, <<B, n>>, <<B>>, <<n>> >>
\* Rules whose seeds can begin with what their loop repeats.
Contested(R, t) == { << <<R, t>>, <<t, R>>, <<t>> >>, << <<R, t>>, <<t>> >>, << <<t>>, <<t, R>> >> }
CycleInputs ==
    { << Prod("A", ga), Prod("B", gb), Prod("N", gn) >> :
        ga \in Picks(CycleA, 2), gb \in Picks(CycleB, 2), gn \in Picks(CycleN, 2) }
    \cup { << Prod("A", ga), Prod("B", gb), Prod("N", gn) >> :
             ga \in Contested(A, a), gb \in Contested(B, b), gn \in Contested(N, n) }
\* Aliases: of each other, of themselves, and left by a rule P = P | Q.
AliasA == << <<A>>, <<B>>, <<N>>, <<a>> >>
AliasB == << <<A>>, <<B>>, <<N>>, <<N, b>> >>
AliasN == << <<A>>, <<B>>, <<n>> >>
AliasInputs ==
    { << Prod("A", ga), Prod("B", gb), Prod("N", gn) >> :
        ga \in Picks(AliasA, 2), gb \in Picks(AliasB, 2), gn \in Picks(AliasN, 2) }

MCInputs == Given(Grammars(2), Real) \cup Given(Grammars(2), Tight) \cup Given(CycleInputs \cup AliasInputs, Real)

\* A grammar the pass leaves left recursion in.
Grammar3(ga, gb, gn) == << Prod("A", ga), Prod("B", gb), Prod("N", gn) >>
BehindGroup == Given({ Grammar3(<< <<B, a>>, <<a>> >>, << <<B, b>>, <<A, n>>, <<b>> >>, << <<n>> >>) }, Real)

\* token_class_names: every alternative one literal, at least two of them.
MCTokenClasses(ps) ==
    { p.name : p \in { q \in ToSet(ps) :
        /\ Len(q.alts) >= 2
        /\ \A x \in DOMAIN q.alts : Len(q.alts[x]) = 1 /\ q.alts[x][1].kind = "term"
                                     /\ q.alts[x][1].name # Eps } }
\* The names of A and N reduce to the same word, and B's is what the first
\* of them would take next.
MCDebtBase == [m \in MCNames |-> IF m = "B" THEN <<"r", "1">> ELSE <<"r">>]
=============================================================================
