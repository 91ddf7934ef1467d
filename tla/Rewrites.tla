------------------------------ MODULE Rewrites ------------------------------
(***************************************************************************)
(* The rewrites emit (rs/src/emit.rs) makes once left recursion is gone,   *)
(* one on what the other returned: repetitions are validated, optional     *)
(* prefixes become probe dispatches (Probe), alternatives that begin alike *)
(* are factored (Factor), tail recursion becomes a loop and sugar becomes  *)
(* helpers (Desugar).  Before the factoring a pass of one of the           *)
(* dispatchers over a text may be followed.                                *)
(***************************************************************************)
EXTENDS Desugar

CONSTANTS
    Inputs,             \* the grammars elimination leaves
    LookaheadK,         \* LOOKAHEAD_K
    CharsOf,            \* the ranges of the characters each terminal begins with
    WordLength,         \* the words the languages are compared up to
    Afters              \* what can come after a dispatcher in a text

VARIABLES
    authored,           \* the grammar the rewrites began with
    stage,              \* "validate", "probe", "factor", "desugar" or "refused"
    out, refused,       \* of Probe and Factor
    pass,               \* of Probe
    queue, cur          \* of Factor

P == INSTANCE Probe
F == INSTANCE Factor

probeOnly == <<pass>>
factorOnly == <<queue, cur>>
desugarOnly == <<phase, grammar, tails, units, rewritten, why>>
allVars == <<authored, stage, out, refused, probeOnly, factorOnly, vars>>

RewritesInit ==
    /\ authored \in Inputs /\ input = authored
    /\ stage = "validate"
    /\ at = 1 /\ out = <<>> /\ extra = <<>>
    /\ used = NamesOf(authored) /\ refused = FALSE
    /\ pass = P!NoPass
    /\ queue = <<>> /\ cur = F!NoProduction
    /\ phase = "none" /\ grammar = <<>> /\ tails = <<>> /\ units = 0
    /\ rewritten = <<>> /\ why = Nothing

-----------------------------------------------------------------------------
\* validate_rewrite_repetitions: the checks of validate_repetitions but for
\* what the expansion costs, which factoring may lower.
RECURSIVE LoopsOnNothing(_, _)
LoopsOnNothing(el, nullable) ==
    \/ /\ IsSugar(el)
       /\ \/ IsUnbounded(el) /\ MayMatchEmpty(el.inner, nullable)
          \/ LoopsOnNothing(el.inner, nullable)
    \/ /\ el.kind = "group"
       /\ \E k \in DOMAIN el.alts : \E m \in DOMAIN el.alts[k] :
             LoopsOnNothing(el.alts[k][m], nullable)

Valid(g) == /\ Offending(g) = {}
            /\ \A k \in DOMAIN g : ~LoopsOnNothing(Group(g[k].alts), NonConsumingRules(g))

Validate ==
    /\ stage = "validate"
    /\ stage' = IF Valid(input) THEN "probe" ELSE "refused"
    /\ UNCHANGED <<authored, out, refused, probeOnly, factorOnly, vars>>

ProbeStep ==
    /\ stage = "probe"
    /\ P!Rewrite \/ P!Run
    /\ UNCHANGED <<authored, stage, factorOnly, desugarOnly>>

ToFactor ==
    /\ stage = "probe" /\ P!Rewrote /\ pass = P!NoPass
    /\ stage' = "factor"
    /\ F!BeginFactor(P!Result)
    /\ at' = 1 /\ extra' = <<>>
    /\ UNCHANGED <<authored, probeOnly, desugarOnly>>

FactorStep ==
    /\ stage = "factor"
    /\ F!Factoring
    /\ UNCHANGED <<authored, stage, at, extra, probeOnly, desugarOnly>>

ToDesugar ==
    /\ stage = "factor" /\ F!Factored
    /\ stage' = "desugar"
    /\ BeginDesugar(out)
    /\ out' = <<>>
    /\ UNCHANGED <<authored, refused, probeOnly, factorOnly>>

DesugarStep ==
    /\ stage = "desugar"
    /\ Desugaring
    /\ UNCHANGED <<authored, stage, out, refused, probeOnly, factorOnly>>

\* The grammar is handed on, or refused; or the pass followed has ended.
Returned == /\ \/ stage = "refused" \/ refused
               \/ phase \in {"done", "refused"}
               \/ pass.phase \in {"with", "no"}
            /\ UNCHANGED allVars

RewritesNext == Validate \/ ProbeStep \/ ToFactor \/ FactorStep \/ ToDesugar \/ DesugarStep \/ Returned

RewritesSpec == RewritesInit /\ [][RewritesNext]_allVars

-----------------------------------------------------------------------------
\* The grammar as far as it is rewritten, where it is in one piece.
Whole == CASE stage = "factor" -> F!Productions
           [] stage = "desugar" /\ phase = "done" -> Meaning
           [] OTHER -> authored

(* Every rule the author wrote derives the words it derived before the     *)
(* rewrites: once its optional prefixes are dispatched, after each merge   *)
(* of factor_once, whatever helpers are queued, and when the sugar and the *)
(* tail recursion are gone (rewrite_probe_dispatches to desugar).          *)
LanguagePreserved ==
    Whole # authored =>
       LET now == Words(Whole, WordLength)
           was == Words(authored, WordLength)
       IN  \A n \in NamesOf(authored) : now[n] = was[n]

(* A dispatcher commits to a branch that can read the text, from where it  *)
(* stood: to X D Y whenever that can, and to Y unless D comes up in what   *)
(* is read or right after it (emit_probe_dispatch).                        *)
BranchFits ==
    pass.phase \in {"with", "no"} =>
       /\ pass.pos = pass.mark
       /\ pass.word \in P!Branch(pass.rule.with) => pass.phase = "with"
       /\ pass.rule.d \notin {pass.text[k] : k \in DOMAIN pass.text} => pass.phase = "no"

(* "Alternatives between members are skipped over only when their first    *)
(* characters are provably disjoint from the head's" (factor_once).        *)
SkipsApart == \A <<i, k>> \in F!Overtaken(cur.alts) : F!BeginApart(cur.alts, i, k)
=============================================================================
