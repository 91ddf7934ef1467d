----------------------------- MODULE MCRewrites -----------------------------
(* Rewrites on three pools of grammars: rules with optional prefixes over a*)
(* rule both sides share, some of whose names the helpers would take;      *)
(* alternatives that begin alike, directly, through a rule that can be     *)
(* written out, or in a group; and sugar nested two deep or side by side,  *)
(* with rules that may match nothing and rules that may be tail repeats.   *)
EXTENDS Rewrites

a == Term("a")
b == Term("b")
c == Term("c")
AorB == Term("ab")          \* a class: the characters of a and of b
d == Term("@")
nil == Term(Eps)            \* the empty literal, or an assertion
MCCharsOf == [t \in {"a", "b", "c", "ab", "@", Eps} |->
    CASE t = "a" -> << <<1, 1>> >> [] t = "b" -> << <<2, 2>> >>
      [] t = "c" -> << <<3, 3>> >> [] t = "ab" -> << <<1, 2>> >>
      [] t = "@" -> << <<4, 4>> >> [] t = Eps -> <<>>]
MCAfters == { <<>>, <<"b">>, <<"@">> }
Seqs(pool, most) == UNION { [1..n -> pool] : n \in 1..most }

-----------------------------------------------------------------------------
(* Optional prefixes.                                                      *)
U == Ref("U")
Optional(seq) == Opt(Group(<<seq>>))
Prefixes == { Optional(<<U, d>>), Optional(<<a, b, a>>), Optional(<<Star(a, NoGuard), d>>),
              Optional(<<nil, a, d>>), Opt(Group(<< <<a, d>>, <<b>> >>)), Opt(a) }
Follow == { <<>>, <<U>>, <<a, b>>, <<Star(U, NoGuard), b>>, <<U, d, a>> }
RuleU  == { << <<a>>, <<b>> >>, << <<a, U>>, <<>> >> }
Probed ==
    { << [Production("S", << <<x>> \o y, <<z, a>> >>) EXCEPT !.valued = v],
         Production("U", ru), Production("S$pd0", << <<b, d>> >>) >> :
        x \in Prefixes, y \in Follow, z \in Prefixes, ru \in RuleU, v \in BOOLEAN }
    \cup { << Production("S", << <<b, x>> \o y, <<b, z>> \o w >>), Production("U", << <<a>>, <<b>> >>) >> :
             x \in Prefixes, y \in Follow, z \in Prefixes, w \in {<<>>, <<U>>} }

-----------------------------------------------------------------------------
(* Alternatives that begin alike.                                          *)
R == Ref("R")               \* unbounded
S == Ref("S")               \* one alternative, beginning with R
Rest == << Production("R", << <<Star(b, NoGuard)>> >>), Production("S", << <<R, c>> >>) >>
Alike == { <<R, a>>, <<R>>, <<S, b>>, <<a, R>>, <<a, R, c>>, <<a, a, b>>, <<c>>,
           <<AorB, c>>, <<R, a, c>>, << Group(<< <<R, b>> >>) >> }
Few == { <<R, a>>, <<S, b>>, <<a, R>>, <<c>> }
Choices(pool, rest) == { <<Production("P", alts)>> \o rest : alts \in Seqs(pool, 3) }
\* S may build a value; and a helper of P may find its name taken.
Merging == Choices(Alike, Rest) \cup Choices(Few, [Rest EXCEPT ![2].valued = TRUE])
           \cup Choices({ <<R, a>>, <<R, b>>, <<S>> }, <<Production("P$fact0", << <<c>> >>)>> \o Rest)

\* A choice that meets its characters out of order.
C == Ref("C")
Unordered == { << Production("P", << <<C, R, a>>, <<a, c>>, <<C, R, b>> >>),
                  Production("C", << <<b>>, <<a>> >>), Rest[1], Rest[2] >> }

-----------------------------------------------------------------------------
(* Sugar and loops.                                                        *)
T == Ref("T")
Bounds == { <<0, 0>>, <<0, 1>>, <<0, 2>>, <<2, 3>>, <<1, NoMax>>, <<2, 1>> }
Sugar(E) == { Opt(e) : e \in E } \cup { Star(e, "debt_S") : e \in E } \cup { Plus(e) : e \in E }
            \cup { Rep(m[1], m[2], e) : m \in Bounds, e \in E }
            \cup { Group(<< <<e>>, <<b, e>> >>) : e \in E }
Flat1 == Sugar({a, T})
Numeric == { Rep(m[1], m[2], a) : m \in { <<0, 1>>, <<0, 2>>, <<2, 3>> } }
Bodies == { <<e>> : e \in Sugar(Flat1) } \cup { <<e, f>> : e, f \in Flat1 }
          \cup { <<e, f, f>> : e, f \in Numeric }
Seconds == { << <<a>> >>, << <<>>, <<a>> >> }
Sugared == { << Production("S", <<body, <<b>> >>), Production("T", t), Production(n, << <<b>> >>) >> :
                body \in Bodies, t \in Seconds,
                n \in { "_gen1_star_T", "_gen2_group", "_gen1_opt_term" } }

\* What begins with an assertion is no leading reference: \b [ \b L ].
Terminals == {a, b, nil}
Strings == { <<x>> : x \in Terminals } \cup { <<x, y>> : x, y \in Terminals }
Tails(n) == { t \o <<Ref(n)>> : t \in Strings }
            \cup { <<a, Ref(n), b>>, <<T, Ref(n)>>, <<Ref(n)>>, <<a, T>> }
Options(n) == { Optional(t) : t \in Tails(n) } \cup { Opt(Group(<<t, <<b>> >>)) : t \in Tails(n) }
Recursive(n) == { << s \o <<opt>> >> : s \in Strings, opt \in Options(n) }
                \cup { << <<Optional(<<a, Ref(n)>>)>> >>, << <<T, Optional(<<a, Ref(n)>>)>> >>,
                       << <<a, Opt(Ref(n))>>, <<b>> >>, << <<a, Opt(Ref(n))>> >> }
Looping == { << Production("S", << <<Ref("L"), b>> >>), Production("L", alts),
                Production("T", << <<>>, <<a>> >>) >> : alts \in Recursive("L") }
           \cup { << Production("L", alts), Production("T", << <<>>, <<a>> >>) >> :
                    alts \in Recursive("L") }

MCInputs == Probed \cup Merging \cup Sugared \cup Looping
=============================================================================
