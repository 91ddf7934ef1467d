------------------------------ MODULE Elements ------------------------------
(***************************************************************************)
(* The grammar IR of rs/src/ir.rs and rs/src/shared.rs.                    *)
(*                                                                         *)
(* A production is [name, alts]; an alternative is a sequence of elements. *)
(* A literal, a regular expression and an engine token are abstracted to a *)
(* name: the passes only ever compare them.  The empty literal, the one    *)
(* literal the passes treat on its own, is the name Eps.  Source spans,    *)
(* node kinds and annotations are left out.                                *)
(***************************************************************************)
EXTENDS Integers, Sequences, FiniteSets

Eps   == "eps"      \* the literal ""
NoMax == -1         \* Rep with max: None
NoGuard == "none"   \* Star with debt_guard: None

Term(t)        == [kind |-> "term",  name |-> t]
Token(t)       == [kind |-> "token", name |-> t]
Ref(n)         == [kind |-> "ref",   name |-> n]
Opt(e)         == [kind |-> "opt",   inner |-> e]
Star(e, guard) == [kind |-> "star",  inner |-> e, guard |-> guard]
Plus(e)        == [kind |-> "plus",  inner |-> e]
Rep(m, n, e)   == [kind |-> "rep",   min |-> m, max |-> n, inner |-> e]
Group(alts)    == [kind |-> "group", alts |-> alts]

Prod(n, alts)  == [name |-> n, alts |-> alts]

\* A production with the flags the rewrites after elimination set or ask
\* for.  valued: it is annotated to build a value; vocab: the tokens of a
\* probe helper; dispatch: the rules and the D of a dispatcher; fixed: it
\* is one of the two; repeat_helper: a tail factored out may be empty.
Production(n, alts) == [name |-> n, alts |-> alts, valued |-> FALSE, fixed |-> FALSE,
                        vocab |-> {}, dispatch |-> {}, repeat_helper |-> FALSE]

IsRef(el)       == el.kind = "ref"
\* Prose and sugar aside: a literal, the empty one included, or a token.
IsTerminal(el)  == el.kind \in {"term", "token"}
IsRefTo(el, n)  == el.kind = "ref" /\ el.name = n
IsSugar(el)     == el.kind \in {"opt", "star", "plus", "rep"}
IsUnbounded(el) == \/ el.kind \in {"star", "plus"}
                   \/ el.kind = "rep" /\ el.max = NoMax

IsSequence(s) == s \in Seq({ s[k] : k \in DOMAIN s })

NamesOf(prods) == { prods[i].name : i \in DOMAIN prods }

\* Grammar::find: the first production of that name.
Find(prods, n) == prods[CHOOSE i \in DOMAIN prods :
                          /\ prods[i].name = n
                          /\ \A k \in 1..(i - 1) : prods[k].name # n]

-----------------------------------------------------------------------------
(* A desugared grammar: its references, what each is to, and what follows  *)
(* each in its alternative.                                                *)
Places(g) == { x \in UNION { UNION { { <<p, k, i>> : i \in DOMAIN g[p].alts[k] } :
                                      k \in DOMAIN g[p].alts } : p \in DOMAIN g } :
                 IsRef(g[x[1]].alts[x[2]][x[3]]) }
TargetOf(g, x) == g[x[1]].alts[x[2]][x[3]].name
SuffixOf(g, x) == LET alt == g[x[1]].alts[x[2]] IN SubSeq(alt, x[3] + 1, Len(alt))

(* What a desugared sequence can begin with, given the FIRST sets of the   *)
(* rules and the rules that can vanish (first_of_seq, rs/src/analysis.rs). *)
Vanishes(el, null) == IsRef(el) /\ el.name \in null

\* first_of_seq: the tokens a sequence can start with, and whether it can
\* vanish.  A bug: the walk stops at the first reference.
Reached(seq, null) == { k \in DOMAIN seq : \A m \in 1..(k - 1) : Vanishes(seq[m], null) }
FirstOf(el, fs) == IF ~IsRef(el) THEN {el.name}
                   ELSE IF el.name \in DOMAIN fs THEN fs[el.name] ELSE {}
FirstOfHead(seq, fs, null) == IF seq = <<>> THEN {} ELSE FirstOf(seq[1], fs)
FirstOfSeq(seq, fs, null) == UNION { FirstOf(seq[k], fs) : k \in Reached(seq, null) }
SeqVanishes(seq, null) == \A k \in DOMAIN seq : Vanishes(seq[k], null)
=============================================================================
