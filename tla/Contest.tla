------------------------------- MODULE Contest ------------------------------
(***************************************************************************)
(* heads_contest (rs/src/emit.rs): whether the lexer can hand one input to *)
(* two tokens an alternative may begin with, answered from a memo that is  *)
(* filled while it is read and stops growing when it is full.  A question  *)
(* about sets is answered a pair of members at a time.                     *)
(*                                                                         *)
(* A literal is a sequence of characters; a class matcher the characters   *)
(* it can begin with; a number or a string what the engine's matcher takes *)
(* when asked.  A matcher, of a class or of a literal, that is insensitive *)
(* folds case; the coverage is folded for ASCII only.                      *)
(***************************************************************************)
EXTENDS Integers, Sequences, FiniteSets

CONSTANTS
    Tokens,             \* the names of the tokens
    TokenOf,            \* what each one is
    Letters,            \* the word characters
    Ascii,              \* the characters of ASCII
    Lower, Upper,       \* the lower and the upper case of each character
    Folded,             \* what a matcher that folds case takes each one for
    WordKeywords,       \* the option of that name
    MemoLimit,          \* MAX_MEMO_ENTRIES
    Texts               \* the texts the lexer may be given

VARIABLES
    memo,               \* the answers kept, by pair of tokens
    asked,              \* the pair with a set that is being asked, or none
    keep,               \* whether there was room for its answer
    i, j,               \* the members to be asked next, of each
    yes                 \* whether two members were found to contest

question == <<asked, keep, i, j, yes>>
contestVars == <<memo, question>>

Chars == DOMAIN Lower

Literal(text, sensitive) == [kind |-> "literal", text |-> text, sensitive |-> sensitive]
\* exact: its first character can be read off its pattern.
Class(covers, sensitive, exact) ==
    [kind |-> "class", covers |-> covers, sensitive |-> sensitive, exact |-> exact]
\* The engine's #NR and #ST.
Engine(starts) == [kind |-> "engine", starts |-> starts]
\* The engine's #TX; its #VL, which an emitted grammar never lexes; its ANY.
Text     == [kind |-> "text"]
Unread   == [kind |-> "unread"]
Anything == [kind |-> "any"]
Set(members) == [kind |-> "set", members |-> members]

IsA(kind, t) == TokenOf[t].kind = kind
Plain == { t \in Tokens : ~IsA("set", t) }

\* "The members are never sets (token_class_names)."
ASSUME TokensAssumption ==
    \A t \in Tokens :
       \/ /\ IsA("literal", t) /\ TokenOf[t].sensitive \in BOOLEAN
          /\ TokenOf[t].text \in Seq(Chars) /\ TokenOf[t].text # <<>>
       \/ /\ IsA("class", t) /\ TokenOf[t].covers \subseteq Chars
          /\ TokenOf[t].sensitive \in BOOLEAN /\ TokenOf[t].exact \in BOOLEAN
       \/ IsA("engine", t) /\ TokenOf[t].starts \subseteq Chars
       \/ IsA("text", t) \/ IsA("unread", t) \/ IsA("any", t)
       \/ IsA("set", t) /\ TokenOf[t].members \in Seq(Plain)

\* One text token; no quote is a digit, a sign or a point (NUMBER_START,
\* QUOTE_START).
ASSUME EngineAssumption ==
    \A t, u \in Tokens : t # u =>
       /\ ~(IsA("text", t) /\ IsA("text", u))
       /\ IsA("engine", t) /\ IsA("engine", u) => TokenOf[t].starts \cap TokenOf[u].starts = {}

\* Of the matcher, which is not this code: an ASCII character is taken for
\* the other case of it and for nothing beyond ASCII; what is taken for one
\* another has one upper case, throughout, or one lower case.
ASSUME CaseAssumption ==
    /\ Letters \subseteq Ascii /\ Ascii \subseteq Chars
    /\ DOMAIN Upper = Chars /\ DOMAIN Folded = Chars
    /\ \A c \in Ascii, d \in Chars : Folded[c] = Folded[d] <=> d \in Ascii /\ Lower[c] = Lower[d]
    /\ \A c, d \in Ascii :
         /\ Upper[c] = Upper[d] => Lower[c] = Lower[d]
         /\ Lower[c] = Lower[d] => (c \in Letters <=> d \in Letters)
    /\ \/ \A c, d \in Chars : Folded[c] = Folded[d] => Lower[c] = Lower[d]
       \/ \A c, d \in Chars : Folded[c] = Folded[d] => Upper[c] = Upper[d]

ASSUME OptionsAssumption == MemoLimit \in Nat /\ WordKeywords \in BOOLEAN

-----------------------------------------------------------------------------
Cased(text, case) == [k \in DOMAIN text |-> case[text[k]]]
IsPrefixOf(s, t) == Len(s) <= Len(t) /\ \A k \in DOMAIN s : s[k] = t[k]
IsWord(text) == WordKeywords /\ text[Len(text)] \in Letters

\* Texts hold whatever a literal, or a single character, can be read as.
ASSUME TextsAssumption ==
    /\ \A w \in Texts : w \in Seq(Chars) /\ w # <<>>
    /\ \A c \in Chars : <<c>> \in Texts
    /\ \A t \in Tokens : IsA("literal", t) =>
         \A w \in [DOMAIN TokenOf[t].text -> Chars] :
            Cased(w, Folded) = Cased(TokenOf[t].text, Folded) => w \in Texts

Shorter(s, t) == IF Len(s.text) <= Len(t.text) THEN s ELSE t
Longer(s, t)  == IF Len(s.text) <= Len(t.text) THEN t ELSE s

\* folded_prefix, both ways: of \Sigma and its two small letters, the final
\* one has the same upper case only.
FoldedPrefix(short, long) ==
    \/ IsPrefixOf(Cased(short, Lower), Cased(long, Lower))
    \/ IsPrefixOf(Cased(short, Upper), Cased(long, Upper))

\* Whether one literal can be read where the other is.  A keyword's boundary
\* keeps it off a longer one that goes on with a word character.
Begins(short, long) == IF short.sensitive /\ long.sensitive THEN IsPrefixOf(short.text, long.text)
                       ELSE FoldedPrefix(short.text, long.text)
GoesOn(short, long) == /\ IsWord(short.text)
                       /\ Len(short.text) < Len(long.text)
                       /\ long.text[Len(short.text) + 1] \in Letters
LiteralsMeet(s, t) ==
    LET short == Shorter(s, t)  long == Longer(s, t)
    IN  Begins(short, long) /\ ~(IsWord(long.text) /\ GoesOn(short, long))

\* emit_literal_token, emit_class_token: a regex, and not a fixed token.
IsPattern(s) == s.kind \in {"literal", "class"}
IsMatch(s) == s.kind = "class" \/ (s.kind = "literal" /\ (~s.sensitive \/ IsWord(s.text)))

\* token_ranges_of, of a token that is no set: both cases of an ASCII letter
\* when case does not matter.
HeadsOf(s) == IF s.kind = "literal" THEN {s.text[1]} ELSE s.covers
AsciiFolded(heads) == heads \cup { c \in Ascii : \E d \in heads \cap Ascii : Lower[c] = Lower[d] }
CoverOf(s) == IF ~IsPattern(s) THEN {}
              ELSE IF s.sensitive THEN HeadsOf(s) ELSE AsciiFolded(HeadsOf(s))

\* regex_head_is_exact: what folds case and reaches beyond ASCII may meet
\* any head, a literal as much as a pattern.
HeadIsExact(s) == /\ IsPattern(s) /\ ~s.sensitive => CoverOf(s) \subseteq Ascii
                  /\ s.kind = "class" => s.exact

\* tokens_overlap: an engine token has no coverage to overlap with.
TokensOverlap(s, t) == CoverOf(s) \cap CoverOf(t) # {}

\* engine_token_meets: text, a number or a string and whatever is no fixed
\* token; a number or a string, by what it can begin with.
EngineMeets(s, t) == \/ s.kind = "text" /\ (t.kind = "engine" \/ IsMatch(t))
                     \/ s.kind = "engine" /\ s.starts \cap CoverOf(t) # {}

\* Two tokens that are not sets.
Direct(a, b) ==
    LET s == TokenOf[a]  t == TokenOf[b]
    IN  IF s.kind = "literal" /\ t.kind = "literal" THEN LiteralsMeet(s, t)
        ELSE \/ ~HeadIsExact(s) \/ ~HeadIsExact(t)
             \/ TokensOverlap(s, t)
             \/ EngineMeets(s, t) \/ EngineMeets(t, s)

-----------------------------------------------------------------------------
MembersOf(t) == IF IsA("set", t) THEN TokenOf[t].members ELSE <<t>>
IsPair(a, b) == IsA("set", a) \/ IsA("set", b)

\* What is answered before anything is looked up.
AtOnce(a, b) == a = b \/ IsA("any", a) \/ IsA("any", b)
Known(a, b)  == {a, b} \in DOMAIN memo
HasRoom      == Cardinality(DOMAIN memo) < MemoLimit

With(key, answer) == [k \in DOMAIN memo \cup {key} |-> IF k = key THEN answer ELSE memo[k]]
Without(key)      == [k \in DOMAIN memo \ {key} |-> memo[k]]
\* A bug: an answer given for the time being stays when there is no room.
KeepAnyway(key, room, answer) == IF room THEN With(key, answer) ELSE memo
Keep(key, room, answer) == IF room THEN With(key, answer) ELSE Without(key)

\* What heads_contest returns of two tokens that are not sets, and the memo
\* it leaves.
Answer(a, b) == AtOnce(a, b) \/ (IF Known(a, b) THEN memo[{a, b}] ELSE Direct(a, b))
Answered(a, b) == IF AtOnce(a, b) \/ Known(a, b) THEN memo ELSE Keep({a, b}, HasRoom, Direct(a, b))

NoQuestion == asked = <<>> /\ keep = FALSE /\ i = 1 /\ j = 1 /\ yes = FALSE
ContestInit == memo = [k \in {} |-> FALSE] /\ NoQuestion

Ask(a, b) == /\ asked = <<>> /\ ~IsPair(a, b)
             /\ memo' = Answered(a, b)
             /\ UNCHANGED question

\* A set meets what a member meets.  TRUE is answered for the time being
\* while the members are asked.
AskSets(a, b) ==
    /\ asked = <<>> /\ IsPair(a, b)
    /\ ~AtOnce(a, b) /\ ~Known(a, b)
    /\ asked' = <<a, b>> /\ keep' = HasRoom
    /\ memo' = With({a, b}, TRUE)
    /\ UNCHANGED <<i, j, yes>>

Xs == MembersOf(asked[1])
Ys == MembersOf(asked[2])
MembersLeft == ~yes /\ i <= Len(Xs) /\ j <= Len(Ys)

AskMembers == /\ asked # <<>> /\ MembersLeft
              /\ yes' = Answer(Xs[i], Ys[j])
              /\ memo' = Answered(Xs[i], Ys[j])
              /\ IF j < Len(Ys) THEN i' = i /\ j' = j + 1 ELSE i' = i + 1 /\ j' = 1
              /\ UNCHANGED <<asked, keep>>

AnswerSets == /\ asked # <<>> /\ ~MembersLeft
              /\ memo' = Keep({asked[1], asked[2]}, keep, yes)
              /\ asked' = <<>> /\ keep' = FALSE /\ i' = 1 /\ j' = 1 /\ yes' = FALSE

ContestNext == \/ \E a \in Tokens, b \in Tokens : Ask(a, b) \/ AskSets(a, b)
        \/ AskMembers \/ AnswerSets

ContestSpec == ContestInit /\ [][ContestNext]_contestVars

-----------------------------------------------------------------------------
(* What the lexer takes, by the tokens' own definitions.                   *)
ReadsLiteral(lit, text) ==
    /\ IF lit.sensitive THEN IsPrefixOf(lit.text, text)
       ELSE IsPrefixOf(Cased(lit.text, Folded), Cased(text, Folded))
    /\ (IsWord(lit.text) /\ Len(lit.text) < Len(text)) => text[Len(lit.text) + 1] \notin Letters
ReadsClass(class, text) ==
    \E c \in class.covers : text[1] = c \/ (~class.sensitive /\ Folded[text[1]] = Folded[c])
IsFixed(s) == s.kind = "literal" /\ ~IsMatch(s)

\* Text is whatever no fixed token claims.
Reads(t, text) ==
    \/ IsA("literal", t) /\ ReadsLiteral(TokenOf[t], text)
    \/ IsA("class", t) /\ ReadsClass(TokenOf[t], text)
    \/ IsA("engine", t) /\ text[1] \in TokenOf[t].starts
    \/ IsA("text", t) /\ ~\E u \in Tokens : IsFixed(TokenOf[u]) /\ ReadsLiteral(TokenOf[u], text)
    \/ IsA("any", t)
ReadAlike(x, y) == \E text \in Texts : Reads(x, text) /\ Reads(y, text)
Meet(x, y) == x = y \/ ReadAlike(x, y)

\* Where the first characters are known, one input must be at the bottom of
\* a contest.  They are not of ANY, of text, whose rest the fixed tokens may
\* claim, and of a matcher that is not exact; nor is a literal beyond ASCII
\* beside one of another case.
InAscii(lit) == \A k \in DOMAIN lit.text : lit.text[k] \in Ascii
Told(x, y) ==
    IF IsA("literal", x) /\ IsA("literal", y)
    THEN \/ TokenOf[x].sensitive /\ TokenOf[y].sensitive
         \/ InAscii(TokenOf[x]) /\ InAscii(TokenOf[y])
    ELSE \A t \in {x, y} : ~IsA("any", t) /\ ~IsA("text", t) /\ HeadIsExact(TokenOf[t])

\* A keyword and a literal that goes on with a word character and is no
\* keyword never meet and are taken to.
Overtaken(x, y) ==
    /\ IsA("literal", x) /\ IsA("literal", y)
    /\ GoesOn(Shorter(TokenOf[x], TokenOf[y]), Longer(TokenOf[x], TokenOf[y]))
Warranted(x, y) == Told(x, y) => Meet(x, y) \/ Overtaken(x, y)

\* The answer without a memo.
Contests(x, y) == AtOnce(x, y) \/ Direct(x, y)

\* For sets: any two of the members.
Questions == { <<a, b>> : a \in Tokens, b \in Tokens }
Pairs(p)  == { <<MembersOf(p[1])[k], MembersOf(p[2])[m]>> :
                 k \in DOMAIN MembersOf(p[1]), m \in DOMAIN MembersOf(p[2]) }
Contesting == { p \in Questions : \E q \in Pairs(p) : Contests(q[1], q[2]) }
Meeting    == { p \in Questions : \E q \in Pairs(p) : Meet(q[1], q[2]) }
Warranting == { p \in Questions : \E q \in Pairs(p) : Warranted(q[1], q[2]) }

\* The pair that is being asked holds what is answered for the time being.
InQuestion == IF asked = <<>> THEN {} ELSE {{asked[1], asked[2]}}

(* However the questions are ordered, in the middle of a question about    *)
(* sets, and when the memo is full, an answer kept is the answer that      *)
(* would be given without a memo; two tokens that can be read of one input *)
(* contest, and two whose first characters are known contest only for such *)
(* an input (heads_contest).                                               *)
MemoIsTrue ==
    \A key \in DOMAIN memo \ InQuestion : \A a \in key : \A b \in key \ {a} :
       /\ memo[key] <=> <<a, b>> \in Contesting
       /\ <<a, b>> \in Meeting => memo[key]
       /\ memo[key] => <<a, b>> \in Warranting
=============================================================================
