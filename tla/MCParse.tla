------------------------------ MODULE MCParse -------------------------------
(* Grammars of a few rules, in families: choices of two and of three       *)
(* alternatives, loops and what follows them, loops of loops, tails that   *)
(* may be empty, and rules that vanish and recurse.  No rule is left       *)
(* recursive: Emission is given none.                                      *)
EXTENDS Parse

a == Term("#A")
b == Term("#B")
x == Term("#X")
w == Term("#W")
A == Ref("A")
B == Ref("B")
C == Ref("C")
H == Ref("H")
K == Ref("K")

\* #W is a character class, #C the token set of the rule C.
MCCovers == [t \in {"#A", "#B", "#X", "#W", "#C", End} |->
    CASE t = "#A" -> {"a"} [] t = "#B" -> {"b"} [] t = "#X" -> {"x"}
      [] t = "#W" -> {"a", "b"} [] t = "#C" -> {"a", "x"} [] t = End -> {EndChar}]
MCClassSets == [C |-> "#C"]

R(n, alts) == [name |-> n, alts |-> alts, helper |-> FALSE, loop |-> FALSE]
Ending(n, alts) == [R(n, alts) EXCEPT !.helper = TRUE]
Loop(n, item) == [name |-> n, alts |-> << <<item, Ref(n)>>, <<>> >>, helper |-> TRUE, loop |-> TRUE]
RuleC == R("C", << <<a>>, <<x>> >>)

Bodies  == { <<a>>, <<a, b>>, <<w>>, <<w, b>>, <<B, b>>, <<a, B>>, <<B>>, <<C, b>>, <<>> }
Bs      == { << <<a>>, <<w>> >>, << <<b>>, <<x>> >>, << <<b>>, <<>> >> }
Choices == { << R("S", << <<A, x>> >>), R("A", <<y, z>>), R("B", q), RuleC >> :
               y \in Bodies, z \in Bodies, q \in Bs }
Threes  == { << R("S", << <<A, x>> >>), R("A", <<y, z, <<w, C>> >>), R("B", << <<b>>, <<x>> >>), RuleC >> :
               y \in {<<a, B>>, <<B, a>>, <<>>}, z \in {<<a, b, a>>, <<b>>, <<C, x>>} }

Items     == {a, w, B}
Followers == { <<x>>, <<b, x>>, <<A>>, <<w, x>> }
Repeats == { << R("S", << <<H>> \o n >>), Loop("H", h), R("A", << <<a, x>>, y >>), R("B", << <<a>>, <<b, a>> >>) >> :
               h \in Items, n \in Followers, y \in {<<b>>, <<x>>} }
Nested  == { << R("S", << <<H, x>> >>), Loop("H", A), R("A", << <<y, K>> >>), Loop("K", k) >> :
               y \in {a, C}, k \in {b, w, B} }
Nests   == { Append(g, R("B", q)) \o <<RuleC>> : g \in Nested, q \in { << <<b>>, <<x, b>> >> } }
Endings == { << R("S", << <<a, A>> \o n >>), Ending("A", <<y, <<>> >>), R("B", << <<b>>, <<a, x>> >>) >> :
               y \in {<<b>>, <<w, b>>, <<B>>, <<b, a>>, <<B, x>>}, n \in { <<x>>, <<b, x>>, <<w>>, <<>> } }

Mixed     == { <<>>, <<b, A>>, <<B, a, A>>, <<a, A, b>>, <<B>> }
Ends      == { <<>>, <<b>>, <<a, B>>, <<x, A>> }
Recursive == { g \in { << R("S", << <<A, B, x>> >>), R("A", <<y, z>>), R("B", <<u, v>>) >> :
                         y \in Mixed, z \in Mixed, u \in Ends, v \in Ends } :
               LeftRecursive(g) = {} /\ \A n \in NamesOf(g) : Words(g, 3)[n] # {} }

\* A choice no token decides: it is refused.
Nothing == { << R("S", << <<A, x>> >>), R("A", << <<B>>, <<a, B, b>> >>), R("B", << <<>> >>) >> }

\* A rule that derives nothing, and one that nothing refers to.
Odd == { << R("S", << <<a>>, y >>), R("A", << z >>), R("B", << <<b>> >>) >> :
           y \in { <<b, A, x>>, <<b>> }, z \in { <<b, A>>, <<B, x>> } }

MCInputs == Choices \cup Threes \cup Repeats \cup Nests \cup Endings \cup Recursive \cup Nothing \cup Odd
MCTexts  == UNION { [1..n -> {"a", "b", "x"}] : n \in 1..4 }
=============================================================================
