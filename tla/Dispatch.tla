------------------------------- MODULE Dispatch -----------------------------
(***************************************************************************)
(* dispatch_prefixes (rs/src/analysis.rs): for each alternative of a       *)
(* choice, the token prefixes it is chosen on.  One token where that       *)
(* decides; under a head that another alternative, or a way out of the     *)
(* choice, contests, as many as it takes to tell them apart, up to MaxK.   *)
(* The memo it asks through is Contest's; here an answer is a constant.    *)
(***************************************************************************)
EXTENDS Grammar, TLC
LOCAL INSTANCE SequencesExt
LOCAL INSTANCE FiniteSetsExt

CONSTANTS
    ClassSets,          \* the token set of each rule that is a token class
    Covers,             \* the characters each token can begin with
    MaxK                \* LOOKAHEAD_K

VARIABLES
    grammar,
    choice,             \* the production being decided, or 0
    exits,              \* the ways out of the choice
    step,               \* "heads", "contested", "deep", "prefixes" or "decided"
    i,                  \* the next alternative
    heads, empties, contested, deep, out

Alts == grammar[choice].alts

-----------------------------------------------------------------------------
(* alt_prefixes_raw: what an alternative can begin with, max tokens deep.  *)
(* A path is done when it was cut at a rule that is being walked already,  *)
(* or has no alternatives.                                                 *)
Path(toks, done) == [tokens |-> toks, done |-> done]
AnyHead == "any"

RECURSIVE PathsOf(_, _, _, _)
\* What a reference adds to a path that holds so many tokens.
SubPaths(r, max, visited, filter) ==
    IF r \in visited \/ r \notin NamesOf(grammar) THEN { Path(<<>>, TRUE) }
    ELSE IF Find(grammar, r).alts = <<>> THEN { Path(<<>>, TRUE) }
    ELSE UNION { PathsOf(Find(grammar, r).alts[k], max, visited \cup {r}, filter) :
                   k \in DOMAIN Find(grammar, r).alts }
\* A token is let through at the head of a path only if the filter has it.
\* A bug: the filter is asked of every token of a path.
FilteredToken(t, held, filter) ==
    IF filter = {AnyHead} \/ t \in filter THEN { Path(<<t>>, FALSE) } ELSE {}
OneToken(t, held, filter) ==
    IF held > 0 \/ filter = {AnyHead} \/ t \in filter THEN { Path(<<t>>, FALSE) } ELSE {}
Added(el, held, max, visited, filter) ==
    CASE ~IsRef(el)                -> OneToken(el.name, held, filter)
      [] el.name \in DOMAIN ClassSets -> OneToken(ClassSets[el.name], held, filter)
      [] OTHER -> SubPaths(el.name, max - held, visited, IF held = 0 THEN filter ELSE {AnyHead})
Extended(p, el, max, visited, filter) ==
    IF p.done \/ Len(p.tokens) >= max THEN {p}
    ELSE { Path(p.tokens \o s.tokens, s.done) :
             s \in Added(el, Len(p.tokens), max, visited, filter) }
PathsOf(alt, max, visited, filter) ==
    FoldLeft(LAMBDA ps, el : UNION { Extended(p, el, max, visited, filter) : p \in ps },
             { Path(<<>>, FALSE) }, alt)

\* heads_contest, of tokens of one character.
Contest(t, u) == t = u \/ Covers[t] \cap Covers[u] # {}

-----------------------------------------------------------------------------
NoChoice == /\ choice = 0 /\ exits = {} /\ step = "decided" /\ i = 1
            /\ heads = <<>> /\ empties = <<>>
            /\ contested = <<>> /\ deep = <<>> /\ out = <<>>
Forget   == /\ choice' = 0 /\ exits' = {} /\ step' = "decided" /\ i' = 1
            /\ heads' = <<>> /\ empties' = <<>>
            /\ contested' = <<>> /\ deep' = <<>> /\ out' = <<>>

Begin(p, ways) ==
    LET ofAlts(value) == [k \in DOMAIN grammar[p].alts |-> value]
    IN  /\ choice' = p /\ exits' = ways
        /\ step' = "heads" /\ i' = 1
        /\ heads' = ofAlts({}) /\ empties' = ofAlts(FALSE)
        /\ contested' = ofAlts({}) /\ deep' = ofAlts({}) /\ out' = ofAlts({})
        /\ UNCHANGED grammar

NextStep == [heads |-> "contested", contested |-> "deep", deep |-> "prefixes",
             prefixes |-> "decided"]
Advance == IF i < Len(Alts) THEN i' = i + 1 /\ UNCHANGED step
           ELSE i' = 1 /\ step' = NextStep[step]

ReadHeads ==
    /\ step = "heads"
    /\ \E one \in { IF Alts[i] = <<>> THEN {} ELSE PathsOf(Alts[i], 1, {}, {AnyHead}) } :
          /\ heads' = [heads EXCEPT ![i] = { p.tokens[1] : p \in { q \in one : q.tokens # <<>> } }]
          /\ empties' = [empties EXCEPT ![i] = Path(<<>>, FALSE) \in one]
    /\ Advance
    /\ UNCHANGED <<grammar, choice, exits, contested, deep, out>>

\* A bug: the ways out of the choice are not looked at.
HitInside(h) == \E j \in DOMAIN Alts \ {i} : \E u \in heads[j] : Contest(h, u)
Hit(h) == \/ \E j \in DOMAIN Alts \ {i} : \E u \in heads[j] : Contest(h, u)
          \/ \E e \in exits : Contest(h, e[1])

ReadContested ==
    /\ step = "contested"
    /\ contested' = [contested EXCEPT ![i] = { h \in heads[i] : Hit(h) }]
    /\ Advance
    /\ UNCHANGED <<grammar, choice, exits, heads, empties, deep, out>>

\* Deep paths, only under the contested heads.
Deepen ==
    /\ step = "deep"
    /\ deep' = [deep EXCEPT ![i] =
          IF contested[i] = {} THEN {}
          ELSE { p.tokens : p \in { q \in PathsOf(Alts[i], MaxK, {}, contested[i]) :
                                      q.tokens # <<>> } }]
    /\ Advance
    /\ UNCHANGED <<grammar, choice, exits, heads, empties, contested, out>>

Rivals == exits \cup UNION { deep[j] : j \in DOMAIN Alts \ {i} }
Shared(p, q) == Min({Len(p), Len(q)})
\* How many tokens p and q begin with that collide.
Colliding(p, q) == Max({ k \in 0..Shared(p, q) : \A m \in 1..k : Contest(p[m], q[m]) })

\* The depth at which p has stopped colliding with every rival, or all of
\* it when it never does with one.
DepthOf(p) ==
    IF \E q \in Rivals : Colliding(p, q) = Shared(p, q) THEN Len(p)
    ELSE Max({1} \cup { Colliding(p, q) + 1 : q \in Rivals })

KeepPrefixes ==
    /\ step = "prefixes"
    /\ out' = [out EXCEPT ![i] = { <<h>> : h \in heads[i] \ contested[i] }
                                 \cup { SubSeq(p, 1, DepthOf(p)) : p \in deep[i] }]
    /\ Advance
    /\ UNCHANGED <<grammar, choice, exits, heads, empties, contested, deep>>

Deciding == choice # 0 /\ (ReadHeads \/ ReadContested \/ Deepen \/ KeepPrefixes)

=============================================================================
