------------------------------ MODULE MCContest -----------------------------
(* Contest on keywords that are prefixes of one another, with either case, *)
(* classes, the engine's tokens and sets of them.  1 and 2 are a letter's  *)
(* two cases, 3 a digit, 4 a quote, and 5 and 6 are beyond ASCII: \Sigma   *)
(* and its final small letter.                                             *)
EXTENDS Contest

MCTokenOf == [
    ab   |-> Literal(<<1, 3>>, FALSE),    a    |-> Literal(<<1>>, TRUE),
    upA  |-> Literal(<<2, 4>>, TRUE),     am   |-> Literal(<<1, 3, 4>>, FALSE),
    sig  |-> Literal(<<5, 1>>, FALSE),    fin  |-> Literal(<<6, 2>>, FALSE),
    c13  |-> Class({1, 3}, FALSE, TRUE),  c4   |-> Class({4}, TRUE, FALSE),
    c6   |-> Class({6}, TRUE, TRUE),
    num  |-> Engine({3}),                 str  |-> Engine({4}),
    txt  |-> Text,                        val  |-> Unread,
    aa   |-> Anything,
    set1 |-> Set(<<"a", "c4">>),          set2 |-> Set(<<"ab", "num", "upA">>) ]
MCTokens == DOMAIN MCTokenOf
MCLower  == <<1, 1, 3, 4, 5, 6>>
MCUpper  == <<2, 2, 3, 4, 5, 5>>
MCFolded == <<1, 1, 3, 4, 5, 5>>
MCTexts == UNION { [1..k -> 1..6] : k \in 1..3 }
=============================================================================
