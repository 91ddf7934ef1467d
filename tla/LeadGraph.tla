----------------------------- MODULE LeadGraph -----------------------------
(***************************************************************************)
(* The leading-reference graph of a grammar, over which the two graph      *)
(* walks of rs/src/leftrec.rs run: lead[n] is the sequence of the rules    *)
(* that n's alternatives begin with, in the order of the alternatives.     *)
(***************************************************************************)
EXTENDS Integers, Sequences

CONSTANT Names          \* the rules of the grammar
VARIABLE lead           \* the rules each rule's alternatives begin with

LeadGraphs == [Names -> Seq(Names)]

LeadSet(g, n) == { g[n][i] : i \in 1..Len(g[n]) }

\* Every edge out of S stays in S.
Closed(g, S) == \A n \in S : LeadSet(g, n) \subseteq S

\* m begins with n, directly or through other rules.
CanReach(g, m, n) ==
    \A S \in SUBSET Names : LeadSet(g, m) \subseteq S /\ Closed(g, S) => n \in S
=============================================================================
