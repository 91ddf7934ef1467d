-------------------------------- MODULE Parse -------------------------------
(***************************************************************************)
(* The engine on the rules Emission writes: a stack of frames, each a rule *)
(* in its open or its close state, that takes the first alternate matching *)
(* the text.  The engine is not part of this code: this is what the        *)
(* emitter relies on.  A token is lexed where an alternate asks for it, so *)
(* a character is read as any token that covers it.                        *)
(***************************************************************************)
EXTENDS Emission
LOCAL INSTANCE SequencesExt
LOCAL INSTANCE Functions

CONSTANTS
    Texts               \* the texts parsed; no text is empty

VARIABLES
    text, pos,          \* the text and how much of it is consumed
    stack,              \* the frames, the innermost last
    verdict             \* "none", "reading", "accepted" or "rejected"

parsing == <<text, pos, stack, verdict>>
allVars == <<grammar, phase, places, changed, first, nullable, follow, pairs,
             rules, at, dispatching, parsing>>

EndChar == "$"
\* entered: how often the loop the frame belongs to was entered in it.
Frame(rule, count, entered) ==
    [rule |-> rule, state |-> "open", count |-> count, entered |-> entered]
Top == stack[Len(stack)]
Under == SubSeq(stack, 1, Len(stack) - 1)

ParseInit == EmissionInit /\ text = <<>> /\ pos = 0 /\ stack = <<>> /\ verdict = "none"

Emit == verdict = "none" /\ EmissionNext /\ UNCHANGED parsing

BeginParse ==
    /\ phase = "emitted" /\ verdict = "none"
    /\ text' \in Texts
    /\ stack' = << Frame(StartWrapper, 0, 0) >>
    /\ verdict' = "reading"
    /\ UNCHANGED <<grammar, phase, places, changed, first, nullable, follow, pairs,
                   rules, at, dispatching, pos>>

-----------------------------------------------------------------------------
Upcoming == SubSeq(Append(text, EndChar), pos + 1, Len(text) + 1)
Matches(o) == /\ o.entering => Top.count = 0
              /\ Len(o.s) <= Len(Upcoming)
              /\ \A k \in DOMAIN o.s : Upcoming[k] \in Covers[o.s[k]]
Counted(o) == IF o.count = Kept THEN Top.count ELSE IF o.count = 0 THEN 0 ELSE Top.count + o.count

\* The alternates of the state the innermost frame is in.
Alternates == IF Top.state = "open" THEN rules[Top.rule].open ELSE rules[Top.rule].close
Reading == verdict = "reading" /\ stack # <<>>
Matching == { k \in DOMAIN Alternates : Matches(Alternates[k]) }

Take(o) ==
    /\ pos' = pos + Len(o.s) - o.b
    /\ stack' = CASE o.go = "p" -> Under \o << [Top EXCEPT !.state = "close", !.count = Counted(o)],
                                              Frame(o.to, Counted(o), 0) >>
                  [] o.go = "r" -> Append(Under, Frame(o.to, Counted(o),
                                                    Top.entered + (IF o.entering THEN 1 ELSE 0)))
                  [] o.go = "end" /\ Top.state = "open" ->
                       Append(Under, [Top EXCEPT !.state = "close", !.count = Counted(o)])
                  [] o.go = "end" /\ Top.state = "close" -> Under

Step == /\ Reading /\ Matching # {}
        /\ Take(Alternates[CHOOSE k \in Matching : \A j \in Matching : k <= j])
        /\ UNCHANGED <<text, verdict>>

\* A rule without close alternates is left.
Leave == /\ Reading /\ Alternates = <<>>
         /\ stack' = Under
         /\ UNCHANGED <<text, pos, verdict>>

Reject == /\ Reading /\ Alternates # <<>> /\ Matching = {}
          /\ verdict' = "rejected"
          /\ UNCHANGED <<text, pos, stack>>

Accept == /\ verdict = "reading" /\ stack = <<>>
          /\ verdict' = "accepted"
          /\ UNCHANGED <<text, pos, stack>>

Run == /\ Step \/ Leave \/ Reject \/ Accept
       /\ UNCHANGED <<grammar, phase, places, changed, first, nullable, follow, pairs,
                      rules, at, dispatching>>

Ended == /\ phase = "refused" \/ verdict \in {"accepted", "rejected"}
         /\ UNCHANGED allVars

Next == Emit \/ BeginParse \/ Run \/ Ended

Spec == ParseInit /\ [][Next]_allVars

-----------------------------------------------------------------------------
(* What the grammar means, of characters: a token is any it covers.        *)
OfChars == [p \in DOMAIN grammar |-> [grammar[p] EXCEPT !.alts = [k \in DOMAIN @ |->
              [m \in DOMAIN @[k] |-> IF IsRef(@[k][m]) THEN @[k][m] ELSE Token(@[k][m].name)]]]]
TokenRules == AnyOrder({ [grammar[1] EXCEPT !.name = t,
                            !.alts = AnyOrder({ <<Term(c)>> : c \in Covers[t] })] :
                           t \in DOMAIN Covers \ NamesOf(grammar) })
Derives(w) == w \in Words(OfChars \o TokenRules, Len(w))[grammar[1].name]

(* What is accepted is in the language: no entry takes a text to a rule    *)
(* that cannot read it, however the entries were reordered                 *)
(* (emit_production).                                                      *)
AcceptsOnlyWords == verdict = "accepted" => Derives(text)

\* What tells alternatives apart: the first character of their words and of
\* what can follow an empty one; in a dispatched choice the first two of the
\* words themselves; in a repetition two, when both ways out are known.
Meet(u, v) == \A k \in 1..Min({Len(u), Len(v)}) : D!Contest(u[k], v[k])
Apart(starts) == \A j, k \in DOMAIN starts : j # k => \A u \in starts[j], v \in starts[k] : ~Meet(u, v)

Own(p) == [k \in DOMAIN p.alts |-> SeqStarts(p.alts[k], WordStarts(grammar, 2), 2)]
WithNext(p) == [k \in DOMAIN p.alts |-> Join(Own(p)[k], Of(Continuations(grammar), p.name), 2)]
OneOf(starts) == [k \in DOMAIN starts |-> { SubSeq(w, 1, 1) : w \in starts[k] }]

TwoAtExit(p) == /\ follow[p.name] \cap first[p.name] = {}
                /\ Of(Continuations(grammar), p.name) \subseteq pairs[p.name] \cup { <<End>> }
Told(p) == \/ Apart(OneOf(WithNext(p)))
           \/ IsDispatched(p) /\ <<>> \notin UNION Range(Own(p)) /\ Apart(Own(p))
           \/ p.helper /\ TwoAtExit(p) /\ Apart(WithNext(p))

\* A choice of single segments, of which one is not empty and can vanish:
\* unlike an empty one it keeps its place, and is taken on anything before
\* those behind it are tried.
ShortCircuits(p) ==
    /\ AllSimple(p)
    /\ \E j, k \in DOMAIN p.alts : /\ j < k /\ p.alts[j] # <<>> /\ p.alts[k] # <<>>
                                   /\ SeqVanishes(p.alts[j], nullable)

(* Where every choice is told, the rules emitted read the whole language:  *)
(* no entry shadows another, no loop eats what comes after it, and every   *)
(* exit is offered (emit_production).                                      *)
ReadsWhatIsTold ==
    (verdict = "rejected" /\ Derives(text)) =>
       \E k \in DOMAIN grammar : ShortCircuits(grammar[k]) \/ ~Told(grammar[k])

-----------------------------------------------------------------------------
(* Loops.                                                                  *)
OwnRules(p) == {p.name, Impl(p, 1), Impl(p, 1) \o "$step1"}
Loops == { p \in Range(grammar) : p.loop }

(* A repetition is entered once, before its first item, whatever           *)
(* repetition it is an item of: where the entry is missed the items are    *)
(* added to a list that is not this repetition's, where it is taken again  *)
(* those read so far are dropped (loop_entry, emit_repeat_loop).           *)
EntersOnce ==
    \A p \in Loops : \A k \in DOMAIN stack : stack[k].rule \in OwnRules(p) =>
       stack[k].entered = IF stack[k].rule = p.name /\ stack[k].count = 0 THEN 0 ELSE 1
=============================================================================
