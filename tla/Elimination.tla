----------------------------- MODULE Elimination -----------------------------
(***************************************************************************)
(* What eliminate_left_recursion_keeping (rs/src/leftrec.rs) does to the   *)
(* rules.  The pass is one sequential function; each action is one rewrite *)
(* or one round of a loop, so that the intermediate grammars can be        *)
(* judged:                                                                 *)
(*                                                                         *)
(*   split     leading sugar that hides a self-reference is written out    *)
(*   order     the rules are sorted               (PaullOrder, by step)    *)
(*   cycles    the rules on a cycle are found     (LeadCycles, by step)    *)
(*   paull     leading references to earlier rules are replaced, then      *)
(*             direct recursion becomes a loop, rule by rule               *)
(*   restore   the declared order is put back                              *)
(*                                                                         *)
(* What is charged for it, what may refuse it and what is kept beside the  *)
(* rules are LeftRec's; here the pass may give up at any time.             *)
(***************************************************************************)
EXTENDS Elements, PaullOrder, LeadCycles, SequencesExt

CONSTANTS
    Inputs,             \* records with a field grammar, a sequence of
                        \* productions
    TokenClasses(_)     \* the token classes of a grammar that are kept

VARIABLES
    input,              \* the grammar the pass was given
    phase,
    prods,              \* the grammar as rewritten so far
    at, tries,          \* split: the production, and the guard left
    i, j,               \* paull: the target rule, and the scan over earlier ones
    rounds, changed     \* paull: the guard left, and whether this round wrote

splitVars == <<at, tries>>
paullVars == <<i, j, rounds, changed>>
orderVars == <<todo, steps, colour, order>>
cycleVars == <<roots, frames, stack, index, indices, lowlinks, cyclic>>
walkVars  == <<lead, orderVars, cycleVars>>
rulesVars == <<input, phase, prods, splitVars, paullVars, walkVars>>

\* A grammar of the rules of Names, each declared once.
Declares(g) ==
    /\ IsSequence(g) /\ g # <<>>
    /\ NamesOf(g) = Names
    /\ \A k, m \in DOMAIN g : g[k].name = g[m].name => k = m
    /\ \A k \in DOMAIN g : /\ g[k] = Prod(g[k].name, g[k].alts)
                           /\ IsSequence(g[k].alts)
                           /\ \A a \in DOMAIN g[k].alts : IsSequence(g[k].alts[a])

ASSUME GrammarsAssumption == \A given \in Inputs : Declares(given.grammar)

-----------------------------------------------------------------------------
(* The parts of a grammar the pass reads.                                  *)
Declared(ps) == [k \in DOMAIN ps |-> ps[k].name]

LedBy(alt, n) == alt # <<>> /\ IsRefTo(Head(alt), n)
HasLeadingRefTo(p, n) == \E a \in DOMAIN p.alts : LedBy(p.alts[a], n)

\* The members of S among 1..n, in order.
InOrder(S, n) ==
    LET upto[k \in 0..n] == IF k = 0 THEN <<>>
                            ELSE IF k \in S THEN Append(upto[k - 1], k) ELSE upto[k - 1]
    IN  upto[n]

LeadsOf(p) ==
    LET led == InOrder({ a \in DOMAIN p.alts : \E n \in Names : LedBy(p.alts[a], n) }, Len(p.alts))
    IN  [k \in DOMAIN led |-> Head(p.alts[led[k]]).name]
LeadGraphOf(ps) == [n \in Names |-> LeadsOf(Find(ps, n))]

\* A bug: aliases on a cycle are exempt too.
ExemptAnyAlias(p) == Len(p.alts) = 1 /\ Len(p.alts[1]) = 1 /\ IsRef(p.alts[1][1])
ExemptAlias(p) ==
    /\ Len(p.alts) = 1 /\ Len(p.alts[1]) = 1
    /\ IsRef(p.alts[1][1])
    /\ {p.name, p.alts[1][1].name} \cap cyclic = {}

\* The sequence where sugar that can match nothing does match.
NullableSugar(el) == el.kind \in {"opt", "star"} \/ (el.kind = "rep" /\ el.min = 0 /\ el.max # 0)
Present(el) ==
    CASE el.kind = "opt"  -> <<el.inner>>
      [] el.kind = "star" -> <<el.inner, el>>
      [] el.kind = "rep" /\ el.max = NoMax -> <<el.inner, el>>
      [] el.kind = "rep" /\ el.max = 1     -> <<el.inner>>
      [] OTHER            -> <<el.inner, Rep(0, el.max - 1, el.inner)>>

\* is_hidden_left_recursive
Hidden(alt, n) == \E k \in 2..Len(alt) :
                    IsRefTo(alt[k], n) /\ \A m \in 1..(k - 1) : NullableSugar(alt[m])
\* A bug: the first alternative is not looked at.
HiddenLater(p) == { a \in 2..Len(p.alts) : Hidden(p.alts[a], p.name) }
HiddenAlts(p) == { a \in DOMAIN p.alts : Hidden(p.alts[a], p.name) }

\* The guard of a rule's split: one more than its alternatives are long.
Guarded(p) ==
    LET upto[k \in 0..Len(p.alts)] == IF k = 0 THEN 1 ELSE upto[k - 1] + Len(p.alts[k])
    IN  upto[Len(p.alts)]

Splice(seq, k, new) == SubSeq(seq, 1, k - 1) \o new \o SubSeq(seq, k + 1, Len(seq))

-----------------------------------------------------------------------------
Begins(g) ==
    /\ input = g
    /\ phase = "split"
    /\ prods = g
    /\ at = 1 /\ tries = Guarded(g[1])
    /\ i = 1 /\ j = 1 /\ rounds = 0 /\ changed = FALSE
    /\ StartSort([n \in Names |-> <<>>], <<>>)
    /\ StartScan([n \in Names |-> <<>>], <<>>)

\* Rule k is left with these alternatives.
Rewrite(k, alts) == prods' = [prods EXCEPT ![k] = Prod(@.name, alts)]

(* The split, one alternative at a time, the first hidden one first.       *)
Hiding == Min(HiddenAlts(prods[at]))
Split == prods[at].alts[Hiding]
Splitting == phase = "split" /\ tries > 0 /\ HiddenAlts(prods[at]) # {}

WriteOut ==
    /\ Splitting
    /\ Rewrite(at, Splice(prods[at].alts, Hiding, <<Present(Split[1]) \o Tail(Split), Tail(Split)>>))
    /\ tries' = tries - 1
    /\ UNCHANGED <<input, phase, at, paullVars, walkVars>>

SplitNextRule ==
    /\ phase = "split"
    /\ tries = 0 \/ HiddenAlts(prods[at]) = {}
    /\ at < Len(prods)
    /\ at' = at + 1
    /\ tries' = Guarded(prods[at + 1])
    /\ UNCHANGED <<input, phase, prods, paullVars, walkVars>>

BeginOrder ==
    /\ phase = "split"
    /\ tries = 0 \/ HiddenAlts(prods[at]) = {}
    /\ at = Len(prods)
    /\ phase' = "order"
    /\ lead' = LeadGraphOf(prods)
    /\ todo' = Declared(prods)
    /\ UNCHANGED <<input, prods, splitVars, paullVars, steps, colour, order, cycleVars>>

(* The two walks over the leading references, by their own actions.        *)
OrderStep ==
    /\ phase = "order"
    /\ SortNext
    /\ UNCHANGED <<input, phase, prods, splitVars, paullVars, cycleVars>>

BeginCycles ==
    /\ phase = "order" /\ Sorted
    /\ phase' = "cycles"
    /\ prods' = [k \in DOMAIN order |-> Find(prods, order[k])]
    /\ roots' = order
    /\ UNCHANGED <<input, splitVars, paullVars, lead, orderVars,
                   frames, stack, index, indices, lowlinks, cyclic>>

CycleStep ==
    /\ phase = "cycles"
    /\ ScanNext
    /\ UNCHANGED <<input, phase, prods, splitVars, paullVars, orderVars>>

-----------------------------------------------------------------------------
(* Substitution: rule i against the earlier rules, in order, round after   *)
(* round until a round writes nothing or the guard is spent.  An alias     *)
(* exempt when its turn comes gets no round.                               *)
Guard(k) == IF k > Len(prods) THEN 0 ELSE IF ExemptAlias(prods[k]) THEN 0 ELSE Len(prods) + 1

BeginPaull ==
    /\ phase = "cycles" /\ Scanned
    /\ phase' = "paull"
    /\ rounds' = Guard(1)
    /\ UNCHANGED <<input, prods, splitVars, i, j, changed, walkVars>>

Led == { k \in j..(i - 1) : HasLeadingRefTo(prods[i], prods[k].name) }
Leader == prods[Min(Led)]
Substituting == phase = "paull" /\ i <= Len(prods) /\ rounds > 0

\* Each alternative of p led by src gives way to one per head.
Inlined(p, src, seq, heads) ==
    FlattenSeq([a \in DOMAIN p.alts |->
       IF LedBy(p.alts[a], src.name) THEN [m \in DOMAIN heads |-> heads[m] \o Tail(seq[a])]
       ELSE <<seq[a]>>])

Inline ==
    /\ Substituting /\ Led # {}
    /\ Leader.name \notin TokenClasses(input)
    /\ Rewrite(i, Inlined(prods[i], Leader, prods[i].alts, Leader.alts))
    /\ j' = Min(Led) + 1
    /\ changed' = TRUE
    /\ UNCHANGED <<input, phase, splitVars, i, rounds, walkVars>>

InlineToken ==
    /\ Substituting /\ Led # {}
    /\ Leader.name \in TokenClasses(input)
    /\ Rewrite(i, [a \in DOMAIN prods[i].alts |->
          IF LedBy(prods[i].alts[a], Leader.name)
          THEN <<Token(Leader.name)>> \o Tail(prods[i].alts[a]) ELSE prods[i].alts[a]])
    /\ j' = Min(Led) + 1
    /\ changed' = TRUE
    /\ UNCHANGED <<input, phase, splitVars, i, rounds, walkVars>>

RoundAgain(left) ==
    /\ Substituting /\ Led = {}
    /\ changed
    /\ rounds' = left /\ j' = 1 /\ changed' = FALSE
    /\ UNCHANGED <<input, phase, prods, splitVars, i, walkVars>>
\* Bugs: one round is taken to be enough; the guard is not spent.
OneRound   == RoundAgain(0)
FreeRounds == RoundAgain(rounds)
NextRound  == RoundAgain(rounds - 1)

(* Direct recursion: recursive tails and seeds of rule i.                  *)
Settled == /\ phase = "paull" /\ i <= Len(prods)
           /\ rounds = 0 \/ (Led = {} /\ ~changed)

SeedsOf(p) == InOrder({ a \in DOMAIN p.alts : ~LedBy(p.alts[a], p.name) }, Len(p.alts))
TailsOf(p) == InOrder({ a \in DOMAIN p.alts : LedBy(p.alts[a], p.name) /\ Len(p.alts[a]) > 1 },
                      Len(p.alts))
Seeds(p, seq) == [s \in DOMAIN SeedsOf(p) |-> seq[SeedsOf(p)[s]]]
Tails(p, seq) == [t \in DOMAIN TailsOf(p) |-> Tail(seq[TailsOf(p)[t]])]

NextTarget == /\ i' = i + 1 /\ j' = 1 /\ changed' = FALSE
              /\ rounds' = Guard(i + 1)
              /\ UNCHANGED <<input, phase, splitVars, walkVars>>

\* No recursion that makes progress: P = P alone is dropped silently.
DropRecursion ==
    /\ Settled
    /\ TailsOf(prods[i]) = <<>>
    /\ Rewrite(i, Seeds(prods[i], prods[i].alts))
    /\ NextTarget

\* One alternative of one element stands for itself, any other choice is
\* wrapped in a group.
\* A bug: a longer alternative is cut short.
WrappedShort(alts) == IF Len(alts) = 1 THEN alts[1][1] ELSE Group(alts)
Wrapped(alts) == IF Len(alts) = 1 /\ Len(alts[1]) = 1 THEN alts[1][1] ELSE Group(alts)

MakeLoop(guard) ==
    /\ Settled
    /\ TailsOf(prods[i]) # <<>> /\ SeedsOf(prods[i]) # <<>>
    /\ LET p == prods[i]
       IN  Rewrite(i, << <<Wrapped(Seeds(p, p.alts)), Star(Wrapped(Tails(p, p.alts)), guard)>> >>)
    /\ NextTarget

-----------------------------------------------------------------------------
Restore ==
    /\ phase = "paull" /\ i > Len(prods)
    /\ phase' = "validate"
    /\ prods' = [k \in DOMAIN input |-> Find(prods, input[k].name)]
    /\ UNCHANGED <<input, splitVars, paullVars, walkVars>>

Finish == /\ phase = "validate" /\ phase' = "done"
          /\ UNCHANGED <<input, prods, splitVars, paullVars, walkVars>>

GiveUp == /\ phase \notin {"done", "refused"} /\ phase' = "refused"
          /\ UNCHANGED <<input, prods, splitVars, paullVars, walkVars>>

\* Whatever guards a loop, and whenever the pass gives up.
EliminationInit == \E given \in Inputs : Begins(given.grammar)
EliminationNext ==
    \/ WriteOut \/ SplitNextRule \/ BeginOrder
    \/ OrderStep \/ BeginCycles \/ CycleStep \/ BeginPaull
    \/ Inline \/ InlineToken \/ NextRound \/ DropRecursion \/ (\E guard : MakeLoop(guard))
    \/ Restore \/ Finish \/ GiveUp
EliminationSpec == EliminationInit /\ [][EliminationNext]_rulesVars

-----------------------------------------------------------------------------
Rewritten == phase \in {"validate", "done"}
NothingEmpty(g) == \A k \in DOMAIN g : \A a \in DOMAIN g[k].alts : g[k].alts[a] # <<>>

(* "After this inner loop no alternative of A_i begins with a ref to any   *)
(* A_j, j < i", when no alternative is empty: a rule left behind holds no  *)
(* leading reference to itself or to an earlier rule unless it is an       *)
(* exempt alias.  Where a rule can be inlined away to nothing, what stood  *)
(* second comes to lead, and the rounds can run out before it is clean     *)
(* (eliminate_left_recursion_keeping).                                     *)
PaullInvariant ==
    phase = "paull" /\ NothingEmpty(input) => \A k \in 1..(i - 1) :
       \/ ExemptAlias(prods[k])
       \/ \A m \in 1..k : ~HasLeadingRefTo(prods[k], prods[m].name)

(* Whatever the recursion, when no alternative is empty no rule is left    *)
(* that begins with itself through leading references alone: what survives *)
(* stands behind a group (eliminate_left_recursion_keeping).               *)
LeadAcyclic ==
    Rewritten /\ NothingEmpty(input) => \A n \in Names : ~CanReach(LeadGraphOf(prods), n, n)

(* Every step gets further: a later phase, a later rule, a smaller guard   *)
(* or a later rule in the scan.  Together with the absence of deadlock     *)
(* (and the termination of the two walks) the pass ends: no substitution   *)
(* feeds itself for ever.                                                  *)
PhaseRank == [split |-> 1, order |-> 2, cycles |-> 3, paull |-> 4, validate |-> 5,
              done |-> 6, refused |-> 6][phase]
Position == <<PhaseRank, at + i, -(tries + rounds), j>>
Before(p, q) == \E k \in 1..4 : p[k] < q[k] /\ \A m \in 1..(k - 1) : p[m] = q[m]
Progress ==
    [][\/ phase' \in {"order", "cycles"} /\ phase' = phase
       \/ Before(Position, Position')]_rulesVars
=============================================================================
