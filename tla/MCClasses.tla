------------------------------ MODULE MCClasses -----------------------------
(* Classes on every grammar of up to three classes from a pool that has    *)
(* surrogates, astral characters, neighbours and negations in it, with and *)
(* without u.  Code points: 0 and 1 plain, 2 and 3 leads, 4 and 5 trails,  *)
(* 6 to 9 astral.                                                          *)
EXTENDS Classes

Written == { << Member(0, 1, TRUE) >>, << Member(1, 1, TRUE), Member(0, 0, FALSE) >>,
             << Member(1, 2, FALSE) >>, << Member(3, 3, FALSE), Member(0, 0, TRUE) >>,
             << Member(2, 4, FALSE) >>, << Member(1, 7, FALSE) >>, << Member(7, 7, TRUE), Member(0, 0, TRUE) >>,
             << Member(8, 9, TRUE) >> }
Pool == { Class(w, FALSE, points, TRUE) : w \in Written, points \in BOOLEAN }
        \cup { Class(<< Member(1, 8, FALSE) >>, TRUE, TRUE, TRUE),
               Class(<< Member(4, 9, FALSE) >>, TRUE, FALSE, TRUE),
               Class(<< Member(0, 1, TRUE) >>, FALSE, FALSE, FALSE) }
\* The coverages that can be compared, and the sets of them that can be cut.
MCAsked == { Normalize(PatternRanges(t)) : t \in Pool }
MCGiven == { {q, r, s} : q \in MCAsked, r \in MCAsked, s \in MCAsked }
MCInputs == UNION { [1..k -> Pool] : k \in 1..3 }
=============================================================================
