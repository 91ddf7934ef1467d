-------------------------------- MODULE Probe -------------------------------
(***************************************************************************)
(* rewrite_probe_dispatches (rs/src/probe.rs), and a pass of the           *)
(* dispatcher it makes (emit_probe_dispatch in rs/src/emit.rs and the      *)
(* actions bind_ref in rs/src/spec.rs registers for it).  An optional      *)
(* prefix [X D] that shares tokens with what follows it, Y, becomes a      *)
(* choice of X D Y and Y: a probe reads on over every token of X and Y but *)
(* D, and what it stops at decides.                                        *)
(***************************************************************************)
EXTENDS Grammar, TLC
LOCAL INSTANCE SequencesExt
LOCAL INSTANCE FiniteSetsExt

CONSTANTS
    WordLength,         \* the words followed
    Afters              \* what can come after a dispatcher in a text

VARIABLES
    input,
    at,                 \* the production being rewritten
    out, extra,         \* those rewritten, and those made for them
    used,               \* the names taken
    refused,            \* whether an annotated rule was about to be dispatched
    pass                \* a pass of one dispatcher over a text

vars == <<input, at, out, extra, used, refused, pass>>

NoPass == [phase |-> "none"]

-----------------------------------------------------------------------------
\* is_probeable_opt: [X D], D a terminal and X not empty.
IsProbeableOpt(el) ==
    /\ el.kind = "opt" /\ el.inner.kind = "group" /\ Len(el.inner.alts) = 1
    /\ Len(el.inner.alts[1]) >= 2 /\ IsTerminal(Last(el.inner.alts[1]))
XOf(el) == Front(el.inner.alts[1])
DOf(el) == Last(el.inner.alts[1])

\* The terminals of a sequence, every rule it refers to looked into once.
RECURSIVE TermsOf(_)
TermsOf(el) ==
    CASE IsTerminal(el)       -> {el.name}
      [] IsSugar(el)          -> TermsOf(el.inner)
      [] el.kind = "group"    -> UNION { UNION { TermsOf(el.alts[k][m]) : m \in DOMAIN el.alts[k] } :
                                           k \in DOMAIN el.alts }
      [] OTHER                -> {}
OwnVocab(seq) == UNION { TermsOf(seq[k]) : k \in DOMAIN seq }
Vocab(seq) ==
    LET rules == ReachFrom(RefsIn(seq), [ r \in NamesOf(input) \cup RefsIn(seq) |->
                    IF r \in NamesOf(input) THEN RefsIn(<< Group(Find(input, r).alts) >>) ELSE {} ])
    IN  OwnVocab(seq) \cup UNION { TermsOf(Group(Find(input, r).alts)) : r \in rules \cap NamesOf(input) }

Tail1(alt, i) == SubSeq(alt, i + 1, Len(alt))
Ambiguous(alt, i) == /\ IsProbeableOpt(alt[i])
                     /\ i < Len(alt)
                     /\ Vocab(XOf(alt[i])) \cap Vocab(Tail1(alt, i)) # {}
\* Only the first: everything after it goes into the dispatcher.
Dispatched(alt) == { i \in DOMAIN alt : /\ Ambiguous(alt, i)
                                        /\ \A k \in 1..(i - 1) : ~Ambiguous(alt, k) }

\* The probe reads over every token of both sides but D.
\* A bug: D is one of them.
JointVocab(x, y, d) == Vocab(x) \cup Vocab(y)
ProbeVocab(x, y, d) == (Vocab(x) \cup Vocab(y)) \ {d.name}

\* The name asked for, or the first with a number that is not taken.
\* A bug: it is not asked whether the name is taken.
HintName(hint, taken) == hint
FreshName(hint, taken) ==
    IF hint \notin taken THEN hint
    ELSE LET k == CHOOSE n \in 1..(Cardinality(taken) + 1) :
                    /\ hint \o ToString(n) \notin taken
                    /\ \A m \in 1..(n - 1) : hint \o ToString(m) \in taken
         IN  hint \o ToString(k)

\* The four rules made for the optional at place i of an alternative.
Made(prod, alt, i, taken) ==
    LET x    == XOf(alt[i])  d == DOf(alt[i])  y == Tail1(alt, i)
        disp == FreshName(prod.name \o "$pd" \o ToString(i - 1), taken)
        prob == FreshName(disp \o "$probe", taken \cup {disp})
        with == FreshName(disp \o "$with", taken \cup {disp, prob})
        no   == FreshName(disp \o "$no", taken \cup {disp, prob, with})
    IN  << [Production(prob, <<>>) EXCEPT !.vocab = ProbeVocab(x, y, d), !.fixed = TRUE],
           Production(with, << Append(x, d) \o y >>),
           Production(no, << y >>),
           [Production(disp, << <<Ref(with)>>, <<Ref(no)>> >>) EXCEPT
              !.fixed = TRUE,
              !.dispatch = { [probe |-> prob, with |-> with, no |-> no, d |-> d.name] }] >>

RewriteAlt(prod, acc, alt) ==
    IF Dispatched(alt) = {} THEN [acc EXCEPT !.alts = Append(@, alt)]
    ELSE LET i    == Max(Dispatched(alt))
             made == Made(prod, alt, i, acc.used)
         IN  [alts  |-> Append(acc.alts, Append(SubSeq(alt, 1, i - 1), Ref(made[4].name))),
              extra |-> acc.extra \o made,
              used  |-> acc.used \cup NamesOf(made)]
Rewritten(prod) ==
    FoldLeft(LAMBDA acc, alt : RewriteAlt(prod, acc, alt),
             [alts |-> <<>>, extra |-> <<>>, used |-> used], prod.alts)

RewriteRule ==
    /\ at \in DOMAIN input /\ ~refused
    /\ LET prod == input[at]  made == Rewritten(prod)
       IN  IF prod.valued /\ made.extra # <<>>
           THEN refused' = TRUE /\ UNCHANGED <<out, extra, used>>
           ELSE /\ out' = Append(out, [prod EXCEPT !.alts = made.alts])
                /\ extra' = extra \o made.extra
                /\ used' = made.used
                /\ UNCHANGED refused
    /\ at' = at + 1
    /\ UNCHANGED <<input, pass>>

Rewrote == at > Len(input) /\ ~refused
Result == out \o extra

-----------------------------------------------------------------------------
(* A pass: the dispatcher marks where it is, the probe reads on, and what  *)
(* it stops at is looked at before the pass is rewound to the mark.        *)
Dispatchers == UNION { p.dispatch : p \in ToSet(extra) }
Branch(n) == Words(Result, WordLength)[n]

OpenProbe ==
    /\ Rewrote /\ pass = NoPass
    /\ \E p \in Dispatchers : \E word \in Branch(p.with) \cup Branch(p.no),
                                 after \in Afters :
          pass' = [phase |-> "probe", rule |-> p, word |-> word,
                   text |-> word \o after, pos |-> 1, mark |-> 1]
    /\ UNCHANGED <<input, at, out, extra, used, refused>>

Peek == IF pass.pos <= Len(pass.text) THEN pass.text[pass.pos] ELSE "#ZZ"

ReadOn ==
    /\ pass.phase = "probe" /\ Peek \in Find(Result, pass.rule.probe).vocab
    /\ pass' = [pass EXCEPT !.pos = @ + 1]
    /\ UNCHANGED <<input, at, out, extra, used, refused>>

\* @probeDecide$: the peek is read before the rewind.
Decided == [pass EXCEPT !.pos = pass.mark,
                        !.phase = IF Peek = pass.rule.d THEN "with" ELSE "no"]
Decide ==
    /\ pass.phase = "probe" /\ Peek \notin Find(Result, pass.rule.probe).vocab
    /\ pass' = Decided
    /\ UNCHANGED <<input, at, out, extra, used, refused>>

Rewrite == RewriteRule
Run == OpenProbe \/ (pass # NoPass /\ (ReadOn \/ Decide))
=============================================================================
