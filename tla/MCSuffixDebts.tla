---------------------------- MODULE MCSuffixDebts ---------------------------
(* SuffixDebts on two left-recursive rules, E and F, as elimination leaves *)
(* them (a seed and a guarded loop), under a start rule that uses both,    *)
(* with what follows them optional or not, and under one that substitution *)
(* has given a copy of the loop of E.  Copies have one tail and one counter. *)
EXTENDS SuffixDebts, Grammar, TLC

a == Term("a")
m == Term("-")
p == Term("+")
x == Term("x")

Rule(r, alts, c) == [name |-> r, alts |-> alts, guard |-> c]
Loop(r, tail, c) == Rule(r, << tail \o <<Ref(r)>>, <<>> >>, c)

Follow == { <<>>, <<p>>, <<x>>, <<Ref("N")>>, <<Ref("N"), m>> }
Heads  == { <<Ref("E")>>, <<m, Ref("F")>>, <<Ref("G")>> }
TailE  == { <<p, a>>, <<m, Ref("F")>>, <<Ref("N"), x>> }
Seeds  == { <<m, Ref("E")>>, <<Ref("F")>>, <<x, Ref("S")>> }

AsWritten ==
    { << Rule("S", << s \o f, s2 >>, NoGuard),
         Rule("E", << <<Ref("G"), Ref("L")>> >>, NoGuard),
         Rule("F", << <<a, Ref("M")>> >>, NoGuard),
         Rule("G", << g \o f2, <<a>> >>, NoGuard),
         Loop("L", t, "debt_E"), Loop("M", IF c = "debt_E" THEN t ELSE <<p>>, c),
         Rule("N", << <<p>>, <<>> >>, NoGuard) >> :
        s \in Heads, s2 \in Heads, f \in Follow, g \in Seeds, f2 \in Follow, t \in TailE,
        c \in {"debt_E", "debt_F"} }

\* The first rule leads with E, so substitution gave it E's seeds and a copy
\* of E's loop, with what follows E there behind it.
Copied ==
    { << Rule("S", << <<Ref("H"), Ref("C")>> \o f, s2 >>, NoGuard),
         Rule("E", << <<Ref("G"), Ref("L")>> >>, NoGuard),
         Rule("F", << <<a>> >>, NoGuard),
         Rule("G", << g \o f2, <<a>> >>, NoGuard),
         Loop("L", t, "debt_E"), Loop("C", t, "debt_E"),
         Rule("N", << <<p>>, <<>> >>, NoGuard),
         Rule("H", << g \o f2, <<a>> >>, NoGuard) >> :
        f \in Follow, s2 \in { <<x, Ref("S"), p>>, <<x, Ref("S"), m>>, <<m, Ref("E"), p>> },
        g \in { <<m, Ref("E")>>, <<x, Ref("S")>> }, f2 \in Follow, t \in TailE }

MCInputs == AsWritten \cup Copied
MCOverlaps == { <<"x", "-">>, <<"-", "x">> }
=============================================================================
