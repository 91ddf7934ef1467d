------------------------------ MODULE Lexicon -------------------------------
(***************************************************************************)
(* From the author's productions to lexer tokens: resolve_prose_terminals, *)
(* lift_literal_tokens and normalize_builtin_tokens (rs/src/prose.rs), and *)
(* the allocation of a token to every literal (emit_grammar_spec,          *)
(* rs/src/emit.rs).  The rewrites between the last two keep the literals;  *)
(* regular expressions and token classes are left out.                     *)
(***************************************************************************)
EXTENDS Grammar, TLC
LOCAL INSTANCE SequencesExt

CONSTANTS
    Bodies,             \* the bodies of productions: sequences of alternatives
    StartBodies,        \* those of the rule named S
    WordLength          \* the words the languages are compared up to

VARIABLES
    input,              \* the author's productions [name, alts, kind]
    phase,              \* "prose", "lift", "normalize", "allocate", "done" or "refused"
    at,                 \* the production whose prose is being resolved
    kept,               \* the productions kept
    remove, clear_all,  \* the removal directives
    lifted,             \* the lifted definitions [name, literal], in order
    todo,               \* the literals a token is still to be allocated for
    tokens              \* the token of each literal

vars == <<input, phase, at, kept, remove, clear_all, lifted, todo, tokens>>

Prose(text) == [kind |-> "prose", name |-> text]

\* Bareword names of engine tokens, and the names the engine's own matchers
\* produce, of which ZZ stands for those with no bareword.
Builtins     == { "NR", "TX" }
MatcherNames == Builtins \cup { "ZZ" }
ProseNames   == { "<all>", "<other>" }

\* A literal reduced to letters and digits, T when nothing is left.
Reduced == [l \in { "+", "-", "pl", "nr", Eps } |->
              CASE l = "pl" -> "PL" [] l = "nr" -> "NR" [] OTHER -> "T"]

Written(n, alts, kind) == [name |-> n, alts |-> alts, kind |-> kind]
Orders(p, q, r) == { <<p, q, r>>, <<q, p, r>>, <<q, r, p>> }
Init == /\ \E s \in StartBodies, x, y \in Bodies,
              k \in { "user", "core", "valued" }, n \in { "T", "NR", "<all>" } :
              input \in Orders(Written("S", s, "user"), Written("PL", x, k), Written(n, y, "user"))
        /\ phase = "prose" /\ at = 1
        /\ kept = <<>> /\ remove = <<>> /\ clear_all = FALSE
        /\ lifted = <<>> /\ todo = <<>> /\ tokens = <<>>

-----------------------------------------------------------------------------
(* resolve_prose_terminals: one production at a time.                      *)
RECURSIVE Stray(_)
Stray(el) == \/ el.kind = "prose"
             \/ IsSugar(el) /\ Stray(el.inner)
             \/ el.kind = "group" /\ \E a \in DOMAIN el.alts : \E k \in DOMAIN el.alts[a] : Stray(el.alts[a][k])

IsSole(p, kind) == Len(p.alts) = 1 /\ Len(p.alts[1]) = 1 /\ p.alts[1][1].kind = kind
OnlyProse(p) == IsSole(p, "prose")
IsRemoval(p) == OnlyProse(p) /\ p.alts[1][1].name = "remove"
NamedInProse(p) == p.name \in ProseNames

Resolving == phase = "prose" /\ at <= Len(input)
Step == /\ at' = at + 1
        /\ UNCHANGED <<input, phase, lifted, todo, tokens>>
Refused == /\ phase' = "refused"
           /\ UNCHANGED <<input, at, kept, remove, clear_all, lifted, todo, tokens>>

RecordRemoval ==
    /\ Resolving /\ IsRemoval(input[at]) /\ ~NamedInProse(input[at])
    /\ remove' = Append(remove, input[at].name)
    /\ Step /\ UNCHANGED <<kept, clear_all>>

ClearAll == /\ Resolving /\ IsRemoval(input[at]) /\ input[at].name = "<all>"
            /\ clear_all' = TRUE
            /\ Step /\ UNCHANGED <<kept, remove>>

\* Informational: the lexer defines it.
DropProse == /\ Resolving /\ OnlyProse(input[at]) /\ ~IsRemoval(input[at])
             /\ input[at].name \in Builtins
             /\ Step /\ UNCHANGED <<kept, remove, clear_all>>

KeepRule == /\ Resolving /\ ~NamedInProse(input[at]) /\ ~Stray(Group(input[at].alts))
            /\ kept' = Append(kept, input[at])
            /\ Step /\ UNCHANGED <<remove, clear_all>>

RefuseProse == /\ Resolving
               /\ CASE IsRemoval(input[at]) -> input[at].name \in ProseNames \ {"<all>"}
                    [] OnlyProse(input[at]) -> input[at].name \notin Builtins
                    [] OTHER -> NamedInProse(input[at]) \/ Stray(Group(input[at].alts))
               /\ Refused

\* No rule is left to start from.
RefuseEmpty == phase = "prose" /\ at > Len(input) /\ kept = <<>> /\ Refused

ProseResolved == /\ phase = "prose" /\ at > Len(input) /\ kept # <<>>
                 /\ phase' = "lift"
                 /\ UNCHANGED <<input, at, kept, remove, clear_all, lifted, todo, tokens>>

-----------------------------------------------------------------------------
(* lift_literal_tokens.                                                    *)
Start == kept[1].name

Liftable(p) == /\ p.name # Start /\ p.name \notin MatcherNames
               /\ p.kind = "user"
               /\ IsSole(p, "term") /\ p.alts[1][1].name # Eps
Claims == { k \in DOMAIN kept : Liftable(kept[k]) }
LiteralOf(k) == kept[k].alts[1][1].name

\* Two names for one literal cancel each other.
\* A bug: both are lifted.
ClaimedByAny(k) == TRUE
ClaimedOnce(k) == \A m \in Claims : m # k => LiteralOf(m) # LiteralOf(k)
Lifting == { k \in Claims : ClaimedOnce(k) }

\* Every reference of an element, sugar included, that To rewrites.
RECURSIVE Rewritten(_, _)
Rewritten(el, to) ==
    CASE el.kind = "ref"   -> IF el.name \in DOMAIN to THEN to[el.name] ELSE el
      [] IsSugar(el)       -> [el EXCEPT !.inner = Rewritten(@, to)]
      [] el.kind = "group" -> Group([a \in DOMAIN el.alts |->
                                [k \in DOMAIN el.alts[a] |-> Rewritten(el.alts[a][k], to)]])
      [] OTHER             -> el
RewriteRefs(prods, to) ==
    [k \in DOMAIN prods |-> [prods[k] EXCEPT !.alts = Rewritten(Group(@), to).alts]]

LiftLiterals ==
    /\ phase = "lift" /\ phase' = "normalize"
    /\ LET all == SelectSeq([k \in DOMAIN kept |-> k], LAMBDA k : k \in Lifting)
           to  == [n \in { kept[k].name : k \in Lifting } |-> Find(kept, n).alts[1][1]]
       IN  /\ lifted' = [i \in DOMAIN all |-> [name |-> kept[all[i]].name, literal |-> LiteralOf(all[i])]]
           /\ kept' = RewriteRefs(SelectSeq(kept, LAMBDA p : p.name \notin DOMAIN to), to)
    /\ UNCHANGED <<input, at, remove, clear_all, todo, tokens>>

(* normalize_builtin_tokens: a rule of the same name always wins.          *)
\* A bug: it does not.
Every == Builtins
Undefined == Builtins \ NamesOf(kept)

RECURSIVE LiteralsIn(_)
LiteralsIn(el) == CASE el.kind = "term"  -> <<el.name>>
                    [] IsSugar(el)       -> LiteralsIn(el.inner)
                    [] el.kind = "group" -> FlattenSeq([a \in DOMAIN el.alts |->
                          FlattenSeq([k \in DOMAIN el.alts[a] |-> LiteralsIn(el.alts[a][k])])])
                    [] OTHER             -> <<>>

\* Every literal of the rules, in order.
Inline == LiteralsIn(Group(FlattenSeq([p \in DOMAIN kept |-> kept[p].alts])))

\* A token is allocated for the lifted definitions first.
Normalize ==
    /\ phase = "normalize" /\ phase' = "allocate"
    /\ kept' = RewriteRefs(kept, [n \in Undefined |-> Token("#" \o n)])
    /\ todo' = [k \in DOMAIN lifted |->
                  [literal |-> lifted[k].literal, preferred |-> "#" \o lifted[k].name]]
               \o [k \in DOMAIN Inline |-> [literal |-> Inline[k], preferred |-> ""]]
    /\ UNCHANGED <<input, at, remove, clear_all, lifted, tokens>>

-----------------------------------------------------------------------------
(* alloc_token_name: the preferred name when free, else the literal's,     *)
(* numbered on collision.                                                  *)
Used     == { tokens[l] : l \in DOMAIN tokens }
EngineOwned == { "#" \o n : n \in MatcherNames }
Free(name) == name \notin Used \cup EngineOwned
Numbered(name) ==
    LET At(i) == name \o ToString(i)
    IN  At(CHOOSE i \in 1..(Cardinality(Used) + 1) :
             At(i) \notin Used /\ \A j \in 1..(i - 1) : At(j) \in Used)
ByText(term) == LET own == "#" \o Reduced[term.literal]
                IN  IF Free(own) THEN own ELSE Numbered(own)
AllocName(term) == IF term.preferred # "" /\ Free(term.preferred) THEN term.preferred
                   ELSE ByText(term)

Allocate == /\ phase = "allocate" /\ todo # <<>>
            /\ tokens' = IF Head(todo).literal \in DOMAIN tokens THEN tokens
                         ELSE (Head(todo).literal :> AllocName(Head(todo))) @@ tokens
            /\ todo' = Tail(todo)
            /\ UNCHANGED <<input, phase, at, kept, remove, clear_all, lifted>>

Allocated == /\ phase = "allocate" /\ todo = <<>>
             /\ phase' = "done"
             /\ UNCHANGED <<input, at, kept, remove, clear_all, lifted, todo, tokens>>

Returned == phase \in { "done", "refused" } /\ UNCHANGED vars

Next == \/ RecordRemoval \/ ClearAll \/ DropProse \/ KeepRule \/ RefuseProse \/ RefuseEmpty
        \/ ProseResolved \/ LiftLiterals \/ Normalize \/ Allocate \/ Allocated \/ Returned

Spec == Init /\ [][Next]_vars

-----------------------------------------------------------------------------
\* The grammar as the author means it: prose aside, and a built-in name no
\* rule has stands for the engine's token.
Authored ==
    LET rules == SelectSeq(input, LAMBDA p : ~Stray(Group(p.alts)))
        rest  == SetToSeq(Builtins \ NamesOf(rules))
    IN  rules \o [k \in DOMAIN rest |-> Prod(rest[k], << <<Token("#" \o rest[k])>> >>)]

(* Every rule still derives the words the author wrote: a rule of a built- *)
(* in name shadows the token, a lifted one is its literal, and the rule    *)
(* the grammar starts from is there (prose.rs).                            *)
LanguagePreserved ==
    phase = "done" =>
       LET written == Words(Authored, WordLength)
           left    == Words(kept, WordLength)
       IN  /\ \A n \in NamesOf(kept) : left[n] = written[n]
           /\ \A k \in DOMAIN lifted : written[lifted[k].name] = { <<lifted[k].literal>> }
           /\ kept[1].name = Authored[1].name

(* A lifted definition's name is the token its literal is bound to, "even  *)
(* when the same literal also appears inline in an earlier rule" and even  *)
(* when another literal reads like the name; and no two literals share a   *)
(* token (emit_grammar_spec).                                              *)
LiftedNamesStand ==
    phase = "done" =>
       /\ \A k \in DOMAIN lifted : tokens[lifted[k].literal] = "#" \o lifted[k].name
       /\ \A l, m \in DOMAIN tokens : tokens[l] = tokens[m] => l = m

-----------------------------------------------------------------------------
(* The bodies the run gives the rules: a literal, two of them, an engine   *)
(* token by name, or prose, alone or in an expression.                     *)
Plus1 == Term("+")
SmallBodies == { << <<Term(l)>> >> : l \in { "+", "-", "pl", "nr", Eps } }
            \cup { << <<Prose(t)>> >> : t \in { "number", "remove" } }
            \cup { << <<Plus1>>, <<Term("-")>> >>, << <<Ref("NR")>> >>, << <<Plus1, Prose("number")>> >>,
                   << <<Plus1, Ref("T")>> >>, << <<Opt(Prose("number"))>> >> }
SmallStartBodies == { << <<Term("pl"), Ref("PL")>> >>, << <<Ref("T"), Opt(Ref("PL"))>> >>,
                   << <<Group(<< <<Ref("NR")>>, <<Ref("T"), Term("-")>> >>)>> >>,
                   << <<Plus1>> >>, << <<Prose("remove")>> >>, << <<Ref("TX"), Ref("NR")>> >> }
=============================================================================
