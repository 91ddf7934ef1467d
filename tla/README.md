# TLA+ verification of the grammar compiler

This directory holds TLA+ specifications of the passes of the grammar compiler
in `rs/src`, TLC configurations that check them on small instances, and TLAPS
proofs of what can be shown for every instance. `PROJECT.json` maps every
definition to the lines it translates; this file says how to read the whole.

The compiler turns a grammar IR into the tables a push-down engine runs. It is
sequential, keeps nothing on disk and talks to nobody: what makes it hard is not
interleaving but long sequences of legal rewrites, each of which is right alone,
whose composition must keep a language, end, stay within limits, and leave
tables from which an engine that looks at two tokens reads that language.

## 1. Inventory

`emit_grammar_spec` (`emit.rs`) runs the passes in this order. Each takes the
grammar the one before returned; what else they share is named under "state".

| Component | Code | State and operations | What is hard | What makes it correct | Module |
|---|---|---|---|---|---|
| Grammar IR | `ir.rs`, `shared.rs` | productions, alternatives, elements (literals, tokens, references, sugar, groups); walks over them; depth limit | nesting of any depth | walks see every nested element | `Elements`, `Grammar` |
| Value annotations | `annotate.rs` | plans which rules yield values | aliases and helpers are not the author's rules | they land on the rule annotated | - |
| Prose, lifting, tokens | `prose.rs`, `emit.rs` | replaces prose and bare words by tokens, lifts literals onto the names that stand for them, hands out token names | a name claimed twice, or taken before its owner comes | languages kept, a lifted name is its literal's token | `Lexicon` |
| Left-recursion elimination | `leftrec.rs` | grammar, a source tree per element, units added, debt counters; split, order, cycles, substitution, loops | state read after it is stale; two structures in lockstep; fixed points; limits before copies | language kept, recursion gone, limits held, blame right, it ends | `PaullOrder`, `LeadCycles`, `Elimination`, `RewriteSources`, `LeftRec` |
| Probe dispatch | `probe.rs`, `spec.rs` | replaces an optional prefix one token cannot decide by a rule that reads on and rewinds | where reading on must stop; what is compared after the rewind | every text takes the branch that can read it | `Probe` |
| Left factoring | `factor.rs` | merges common prefixes, mints helpers that join the queue | order of alternatives, names, termination | language kept | `Factor` |
| Tail repeats | `leftrec.rs` | rules that end with an option of themselves become loops | which tails are really tails | language kept | `Desugar` |
| Repetition checks | `prose.rs` | bounds numeric repetition, refuses loops that consume nothing | arithmetic before anything is made | what is charged is what is made; no endless loop | `RewriteSources`, `Desugar`, `Rewrites` |
| Desugaring | `desugar.rs` | helpers minted, names used | names, nesting, levels of `m*n` | language kept, names distinct | `Desugar` |
| Ranges and token classes | `ranges.rs`, `emit.rs` | cuts overlapping classes into disjoint atoms; reads by UTF-16 unit or by code point | boundaries, surrogates | atoms disjoint and exact; a class takes what it says | `Ranges`, `Patterns`, `Overlap`, `Partition`, `Classes` |
| FIRST, FOLLOW, pairs | `analysis.rs` | fixed points over sets | updated while read | exact | `FirstFollow` |
| Suffix debts | `analysis.rs` | counters pushes carry, so that a loop leaves a token to the frame that needs it | a push below several loops | held back exactly when owed | `SuffixDebts` |
| Contest of two tokens | `emit.rs` | a memo, filled while it is read, that may be full | an answer given for the time being | what is remembered is true | `Contest` |
| Dispatch prefixes | `analysis.rs` | token paths until alternatives are told apart | cut too short, filtered too much | every word chooses, prefixes tell apart | `Dispatch` |
| Emit limit | `budget.rs`, its callers | units written, units held, step under way | every way out of a decision must give back | the counts never pass the limit; nothing leaks | `EmitBudget` |
| Emission | `emit.rs` | alternates of each rule | order of alternates, guards, exits, loop counters | the engine reads the language | `Emission`, `Parse` |
| Specification, actions | `spec.rs` | names of actions on alternates, a ref map | failed and repeated calls | each alternate runs what was asked, in order | `Actions` |
| Transduction | `transduce.rs` | renders the tree of a parse | - | - | - |
| Entry points, ports | `lib.rs`, `go/`, `ts/`, `py/` | re-exports; the same compiler in other languages | agreement | the repository's oracle files | - |

## 2. What is modelled

Components interact by call and return; the two compositions follow that.
`Rewrites` runs `Probe`, `Factor` and `Desugar` one on what the other returned,
and `Parse` runs `FirstFollow`, `Dispatch`, `Emission` and then the engine.
`Elimination` takes the steps of the two graph walks as its own, `LeftRec` those
of `Elimination` with what each is charged, and `Classes` those of `Overlap` and
`Partition`.

What the provers must read is kept apart from what they cannot: modules with
proofs, and the modules those use, hold recursive *functions* at most; operators
declared RECURSIVE (walks over nested elements) are in `Grammar` and the modules
above it, which are model-checked.

### Data: `Elements`, `Grammar`

`Elements` is what the passes over desugared grammars share: elements and
productions, the references of a grammar by their place (`Places`, `TargetOf`,
`SuffixOf`), what a sequence can vanish to and begin with (`SeqVanishes`,
`FirstOfSeq`). `Grammar` adds the walks over nested elements: what may match
nothing, FIRST sets, the number of tokens an element spans (`SpanOf`), sizes. A
literal, token or class is a name, since the passes only compare it. Two
definitions are not translations but the reference the passes are judged by:
`Words`, the words of at most K tokens each rule derives, by iteration to a
fixed point, and `LeftRecursive`, the rules that re-enter themselves before
reading anything. `LeadGraph` is the graph "rule a has an alternative that
begins with rule b".

### Left recursion: `PaullOrder`, `LeadCycles`, `Elimination`, `RewriteSources`, `LeftRec`

`PaullOrder` is `topo_order_for_paull`, one action per arm of its loop over an
explicit stack. `LeadCycles` is `find_leading_ref_cycle_members`, Tarjan's scan
on explicit frames. `RewriteSources` holds the source trees and the checks that
walk them beside the elements, with `zip`'s habit of dropping what has no
partner. The pass itself is two modules. `Elimination` is what it does to the
rules, one action per rewrite or round; there it may give up at any time
(`GiveUp`), hand any guard to a loop, and keep any class as a token. `LeftRec`
adds what decides those: the charges, the refusals, the counters and the source
trees. Each action of `LeftRec` but `Returned` is an action of `Elimination` and
more (`Substitute` is `Inline` that fits, `RewriteLoop` is `MakeLoop` with the
counter handed out, a refusal is `GiveUp`), so a theorem about `Elimination` is
one about `LeftRec`.

| Phase | Actions | Code |
|---|---|---|
| split | `WriteOut` (`SplitAlternative`, `SplitTooLarge`), `SplitNextRule` | `expand_nullable_left_prefixes`, `charge_expansion` |
| order | `BeginOrder`, `OrderStep` | `topo_order_for_paull` |
| cycles | `BeginCycles`, `CycleStep` | `find_leading_ref_cycle_members` |
| paull | `BeginPaull`, `Inline` (`Substitute`, `SubstituteTooLarge`), `InlineToken`, `NextRound`, `DropRecursion` (`KeepSeeds`), `MakeLoop` (`RewriteLoop`, `NoSeed`) | the loop over `prods`, `charge_substitution`, `charge_elements`, `eliminate_direct_left_rec`, `fresh_debt_counter` |
| validate | `Restore`, `Finish` (`Accept`, `RefuseBounds`, `RefuseLoop`) | the restored order, `validate_rewrite_repetitions` |

`deep_size` stops counting at a cap; the model counts to the end, which decides
the same refusals since each cap lies above what is left of the limit. Debt
counter names are sequences of words, so that two rules whose names reduce to
one word meet (`DebtBase`).

### Rewrites: `Probe`, `Factor`, `Desugar`, composed by `Rewrites`

`Probe` rewrites one production per step and then may follow one pass of a
dispatcher over a text: the mark, the reading on over the vocabulary, the
comparison with what was reached, the rewind. `Factor` takes one production from
the queue, merges one group of alternatives per step, writes rules out, and
queues its helpers. Ranges of first characters are sequences as the code gathers
them, in the order the walk meets them. `Desugar` validates and charges
repetitions, turns tail recursion into tail repeats, and mints helpers in the
code's order under the code's names (names are compared with the author's, so
here they are strings). A tail repeat means, to the reference, the loop the
emitter compiles it to (`Meaning`).

### Tokens: `Lexicon`, `Contest`, `Classes`

`Ranges` is characters, spans and coverages; `Patterns` what `ranges.rs` computes
of them: `normalize_ranges`, the complement, the code units a coverage can start
on. `Lexicon` is the way from the author's productions to tokens: prose and removal
directives, literals lifted onto the names that stand for them, engine tokens,
and `alloc_token_name` in the order the emitter calls it. `Contest` is
`heads_contest` with its memo. A question about two tokens that are not sets is one
action (`Ask`); one about a set puts the answer given for the time being into the
memo (`AskSets`), asks a pair of members a step (`AskMembers`), and keeps or takes
back (`AnswerSets`): members are never sets (`TokensAssumption`, as the code says),
so the recursion is one level deep. What it is judged by is what the lexer reads
(`Reads`): a literal, a class, a number or a string by the engine's own matcher,
text no fixed token claims. A token the engine never lexes (`#VL`) is read of
nothing. How the engine's matcher folds case is **external**: `CaseAssumption`
says what the comparison relies on, and section 5 (10, 11) where a matcher may not
be so. A keyword that begins with a line terminator, which the code gives no
coverage, is left out. `Classes` is
`class_analysis` and `emit_class_token` over a scaled-down Unicode with lead and
trail surrogates. Each two classes are compared by `Overlap`, the sweep of
`char_ranges_overlap`, which **refines** `Question`, an abstract question whose
answer is whether two coverages share a character (`Answers`, an INSTANCE
checked as a property of the composition and proved). Those that share one are
cut by `Partition`.

### Dispatch and emission: `FirstFollow`, `Dispatch`, `Emission`, `Parse`

`FirstFollow` runs the three fixed points place by place, in the order the loops
meet the places (`IsNext` is the least place left of the round), so that a set is
read as far as it has been updated. Its reference is what rules derive: the
first tokens of each rule's words (`WordStarts`) and the first two of what can
come after it (`Continuations`), derivations being followed to `Depth`; that
`Depth` is deep enough for every grammar of an instance (`DeepEnough`,
`FollowedFar`) is an assumption TLC evaluates. `Dispatch`
is `dispatch_prefixes` in its four steps. `Emission` writes the open and close
alternates of one production per action: chains of segments, simple and
dispatched choices, loops with their entry counter, exits named by what follows
(one token, or pairs where one does not tell), keyword guards and the reordering
of entries. `Parse` is the engine, **external** to this code: it is modelled as
the emitter relies on it. Alternates are tried in order and the first that
matches is taken; a token is lexed where an alternate asks for it, so one
character can be read as any token that covers it; a push or replacement
inherits the loop counter.

### `SuffixDebts`

`resolve_suffix_debts`, one action per guarded loop, and then pushes of a parse
over the grammar it annotated, with the counters frames inherit. What it is
given is stated as two assumptions. `Resolved`: rules are told apart by name,
references name rules, and a rule with an empty alternative can vanish.
`LoopsStand`: a loop has one rule that refers to it besides itself ("exactly one
candidate"), and a copy of it under its counter begins with what it begins with.
Substitution makes such copies: it puts E's seeds and loop wherever another rule
leads with E, so S = E ";" over a contested E has a copy of E's loop in front of
";". The push of that copy is charged only if the copy can lead back to S; when it
cannot, what S needs after it does not count (`OwnSuffixCounts`), and the property
makes no claim of the copy: it fails there (section 5, 9). It does claim that
loops of which the suffix counts are held right beside such copies, with which
they share a counter. The branches of dispatchers, which the walk to callers also
visits, are not modelled.

### `EmitBudget`

`written` and `held` are the two cells of `EmitBudget`. A token path is
abstracted to its units; `walks` are the open calls of `alt_prefixes_raw`, which
calls itself for a reference. A path that can grow no more is cloned into the next
element's paths while the original stays until the element ends
(`analysis.rs:627-631`): the clone is memory, and is not held a second time. Decisions are of three kinds: `dispatch`
(`dispatch_prefixes`), `peek` (`alt_prefixes`) and `seconds`
(`synth_keyword_guards`); each gives back on its own way. How many paths an
element extends, and by how much, is any choice: the properties hold whatever
the grammar.

### `Actions`

`attach_actions` and `attach_action_slots`, a key at a time, with calls that
fail at any key and leave what they attached before. A name is what it is put
together from (`UserRef`, `HookRef`, `SlotName`): the strings the code formats
end in different ways, and two names are one only when their parts are.

## 3. Runs

| Run | Question | Instance |
|---|---|---|
| `walks` | Is each rule ordered once, after what it begins with, as the recursive walk would? Are exactly the rules on cycles kept? Do both end? | every graph of 4 rules with at most 2 edges out of each |
| `left_rec` | Languages, recursion, Paull's invariant, sources, blame, limits, progress | three rules: 1 or 2 of 7 alternatives for A, of 6 for B, 4 bodies for N, with the code's limits and with limits 1 and 4; three rules that can each begin with any other; seeds that contest their loop; and rules that are aliases of each other |
| `rewrites` | Languages, branches taken, names, charged units, loops | optional prefixes over shared tokens; alternatives that begin alike; sugar two deep or side by side; tails of every form |
| `emit_budget` | Do written and held stay within the limit? Is what is in memory held? Does anything leak? | limit 7, walks 2 deep, units 0 to 3 |
| `lexicon` | Languages, lifted names | three rules in three orders, bodies that collide in names and literals |
| `compiled` | Are FIRST, FOLLOW and pairs right? Do prefixes tell apart? Does the engine accept the language? | 526 grammars in eight families, every text of 1 to 4 characters over 3; prefixes up to 3 tokens; derivations 12 deep |
| `suffix_debts` | Is a loop held back when, and only when, a frame needs its token? | two left-recursive rules as elimination leaves them, with and without copies of their loops in other rules; 5 pushes |
| `contest` | Is what is remembered true? | 16 tokens, two of them sets, over 6 characters, two beyond ASCII; a memo of 2, texts of up to 3 characters |
| `classes` | Disjoint? Exact? Does a class take what it says? Does the sweep answer? | up to 3 of 19 classes over 10 code points |
| `actions` | Does every alternate run what was asked, in order? | 3 calls, 3 keys, 2 marks, 2 functions |

Two more runs, `left_rec_group` and `rewrites_skip`, show a statement of the
repository to be wrong of the program (section 5).

**Why these bounds are enough.** *Graphs*: four rules hold two disjoint cycles, a
cycle with a tail, and a diamond, which is what the walks can get wrong.
*`left_rec`*: the alternatives hold direct recursion, recursion through another
rule, behind an option, behind `0*2`, behind a literal, behind a rule that may
be empty, an alias, and a body with bad bounds; the tight limits refuse in the
split and in the substitution. `WordLength` 3: the shortest words that tell a
loop from one repetition too few have two tokens. *`rewrites`*: `LookaheadK` is
2 where the code's is 4 (`factor.rs:30`), so that a prefix of three tokens is
already beyond it; the code compares with the constant and does nothing else
with it; words up to 4 tell
`2*3` from its neighbours; `MaxUnits` 14 lies among what the instance charges,
so both answers occur. *`emit_budget`*: with limit 7 and units up to 3 the limit
is met inside a nested walk, at a prefix and at a charge; the theorems hold for
every value. *`compiled`*: `MaxK` 3 exceeds what any but the recursive grammars
need, so that prefixes are cut both by being told and by the bound; texts of 4
reach the second turn of a loop within a loop, and what comes after it.
One family holds a rule that derives nothing and a rule nothing refers to, where
the sets may be larger than the words give. *`classes`*: two leads of two astral characters each are the least for which the
first character of a lead, the last, and the next lead differ. *`contest`*:
a memo of 2 is full in the midst of a question about sets; the characters are
the two cases of a letter, a digit, a quote, a capital beyond ASCII and its final
small form, which have one upper case and two lower ones. *`suffix_debts`*: five
pushes reach a loop through two other rules and again below itself, and a copy of
it in between.
*`actions`*: a third call meets what a failed and a complete one left.

**Deadlock** is checked except in `walks` and `actions`, where the code returns
and the specification has no step left (`CHECK_DEADLOCK FALSE`). Everywhere else
the states that may stop have a step of their own (`Returned`, `Ended`).

**Fairness.** Only the two graph walks assume any: weak fairness of the next
step, since one sequential function that is not blocked runs its next iteration.
Under it they are shown to end with the right answer (`SameAsRecursive`,
`CyclicIsExact`). That `LeftRec` ends follows without fairness from `Progress`,
by which every step is later in a well-founded order (proved, section 6), from
the absence of deadlock, and from the walks it composes.

## 4. Properties that say most

* `LanguagePreserved` (`LeftRec`, `Rewrites`, `Lexicon`): no pass changes what a
  rule matches; in `Rewrites` after every single merge.
* `PaullInvariant`, `DirectRecursionRemoved`, `LeadAcyclic`: what is left of left
  recursion, each under the weakest condition found under which it holds: for
  `PaullInvariant` and `LeadAcyclic`, that no alternative is empty (section 5, 8).
* `SourcesMirror`, `BlameIsAuthored`: two structures edited in step, and whom a
  refusal names. The latter leaves out rings of bare references (A = B, B = A):
  substituting one gives a rule that derives itself, for which the pass writes a
  loop whose item can be empty although no author did, and refuses the grammar.
* `LimitHolds`, `UnitsExact`: what is charged before anything is made is at
  least, or exactly, what is then made.
* `BranchFits`: the probe's decision against the words of both branches.
* `AcceptsOnlyWords`, `ReadsWhatIsTold`: the compiled rules against the grammar.
  The first is unconditional. The engine takes the first alternate that matches
  and never goes back, so the second can only hold where choices are *told*: the
  alternatives and what follows them differ in their first character; or, in a
  dispatched choice, in the first two; or, at the exit of a repetition, in the
  pair that follows. Characters, not tokens, must differ: tokens can cover the
  same character. `ShortCircuits` is the one exception (section 5). The empty
  text is left to the engine's option.
* `FirstIsExact`, `FollowIsExact`, `PairsReallyFollow`: the sets are those the
  words of the grammar give, not merely closed under the equations. No set is
  ever too small. That none is too large needs every reference to have words
  (`NoDeadEnd`) and, for what follows, every rule that refers to come up
  (`NoOrphan`): the code computes FIRST of a sequence whether or not the rest of
  it can be read, and FOLLOW from rules nothing reaches.
* `HeldIffOwed`, `EntersOnce`: counters that frames inherit hold what only the
  nearest frame concerned knows. The former is of loops whose own rule's suffix
  counts (section 5, 9).
* `ReadsAsWritten`, `ReachIsWhatItTakes`: shared atoms against each class alone.
* `Covered`, `NothingLeaks`: the held count against what is in memory, the second
  copy of a path handed on excepted: it is never more than what an open walk has
  come to, which is held.

## 5. Findings and divergences

Shown by a run:

1. `left_rec_group` (`NoLeftRecursion`): rewriting a rule's direct recursion wraps
   its seeds in one group. A seed that begins with a later rule is then no longer
   a leading reference, and the recursion through it stays. With A = B "a" / "a"
   and B = B "b" / A "n" / "b" the rules are taken in the order B, A: B becomes
   (A "n" / "b") \*"b", which is inlined where A leads with B, and
   A = (A "n" / "b") \*"b" "a" / "a" re-enters itself behind the group.
2. `rewrites_skip` (`SkipsApart`): ranges of a choice are gathered in the order
   written and compared by a sweep that relies on their being sorted; with
   C = "b" / "a", an alternative is pulled over another that begins alike.

Met while modelling, stated here and not as runs; the properties are restricted
so as not to claim them:

3. `leftrec.rs:276-278` says a nullable *reference* in front of recursion is
   handled by substitution. With A = N A "a" / "b" and N = ["n"] it is not: N's
   body is one option, so substitution puts the option where the reference was,
   and the split that would have seen it is over.
4. `leftrec.rs:335-337` calls the guard of the split belt-and-braces. Splitting
   A = \*3(\*3"a") A / "b" lengthens the alternative's run of sugar, and the
   guard ends the split with recursion left behind sugar.
5. `leftrec.rs:454-455` says aliases caught up in a cycle are still inlined. With
   A = B, B = N A "a" / "b" and N = empty / "n" the cycle is closed by a
   substitution, after the cycles were found, and the alias stays.
6. `budget.rs:202-210`: the message of a refused charge leaves out the units held,
   so the room it states can be larger than what was asked.
7. `emit.rs:2289-2292` orders empty alternatives last so that they do not shadow.
   An alternative that is one reference, and can vanish, is not empty: it keeps
   its place without a guard. With A = B / "a" and B = "b" / empty, the text
   "a x" of S = A "x" is rejected.

8. `leftrec.rs:459-463` says the substitution is re-run until it reaches a fixed
   point, so that no alternative of a rule behind begins with an earlier one. The
   guard, one round more than there are rules, ends it before that when an empty
   alternative lets a rule lose its alias and lead itself again: with N = empty,
   P = N Q, Q = P and R = P "x" / "y", R is left beginning with an earlier rule
   (found by TLC on `Elimination`; no run keeps it). Without an empty alternative
   the guard is enough (`BehindIsClean`, section 6), and it is under that
   condition that `PaullInvariant` states the repository's claim.
9. `README.md:29-30` speaks of suffix-debt counters "that stop the generated tail
   loop from eating a token the enclosing alternative still owes", and
   `analysis.rs:396-402` of adding to the counter, or clearing it, on every push
   that can reach the recursive rule. A copy of a loop that substitution
   (`leftrec.rs:451-505`) puts in another rule is owned by that rule, and the push
   of the copy itself reaches neither (`analysis.rs:460`). With
   E = E "+" "a" / "-" E / "a" and S = E "+" "x" nothing is owed to the copy in S:
   its guard is dropped, and it eats the "+" that S needs. With S = E ";" pushed
   where "+" must follow, the counter of that "+" is not cleared on the way to the
   copy, which is refused the "+" that it alone could take (both found by TLC with
   the condition `OwnSuffixCounts` taken from `HeldIffOwed`; no run keeps them).
10. `emit.rs:544-549` says folding literals both ways "never under-approximates"
   the matcher. It folds a whole literal to lower or to upper case. A pair that
   takes one folding for one character and the other for the next is told apart
   by both, though a matcher that folds by Unicode takes them for one another: "\u1E9E\u03C2" and "\u00DF\u03C3" (lower case parts the sigmas, upper
   case, "SS", the sharp s). `CaseAssumption` leaves such alphabets out.
11. `emit.rs:488-498` takes a case-insensitive head within ASCII for exact. A
   matcher that folds by Unicode takes U+017F for "s" and U+212A for "k", which the
   coverage of an ASCII head does not say. `CaseAssumption` takes the matcher for
   one that does not.

The dispatch analysis reads a tail repeat's alternatives without its separator.
And a grammar may hold both an atom matched by code unit that names a lead and
an atom matched by code point that begins with that lead; `Exclude` in `Classes`
keeps them apart within the classes that are cut, while a class left out of the
cut keeps its own matcher, whose order among the others is the engine's.

## 6. Proofs

TLAPS checks, for every value of the constants:

**`Limits_proofs`**, of `EmitBudget` - `TypeOK`, `WithinLimit`, `Covered`, `NothingLeaks` and
`OnlyLetThrough`, from `Max` and `Depth` natural and `Units` a set of naturals
(`ConstantsAssumption`). The inductive invariant `IInv` adds two facts.
`AtRest`: a decision starts with nothing held (its `base` is 0), walks are open
in decisions alone, and what a decision will return is part of what it keeps;
without it `Restore` could leave units behind. `StartWritten`: a step starts at
what had been written, which also shows that the subtraction in a refusal's
message does not underflow (`RoomIsNatural`). The heart is the chain of open
walks: each walk's paths lie above what was held when it began and below what
was held when the walk inside it began, so that overwriting the count with the
outermost base plus what was returned covers all that remains. `ChainPush`,
`ChainPop` and `ChainGrows` say how the chain moves.

**`Limits_proofs`**, of `Contest` - `MemoIsTrue`, for any tokens and sets, any limit
of the memo and any texts that hold what the tokens can be read as
(`TextsAssumption`). It has two halves. The comparison itself: two tokens that are
read of one text contest (`MeetingContest`: a keyword's boundary never parts what
the lexer could hand to either), the engine's text, numbers and strings among
them, and two whose first characters are known contest
only if such a text exists (`ContestIsWarranted`, by building the text: the longer
literal, in the shorter one's case where the longer does not mind), but for a
keyword and a literal that is none and goes on with a word character
(`Overtaken`), which the code lets contest. Known they are not (`Told`) of ANY, of
text, whose rest fixed tokens may claim, of a pattern that is not exact, and of
whatever folds case and reaches beyond ASCII, a literal as much as a pattern: such
a token the code lets contest with any head. The assumptions are
`CaseAssumption`, of the matcher; `EngineAssumption`, that no quote begins a
number; and that a set's members are no sets. And the memo: every answer kept is the
one that would be given without it, but for the pair being asked; of that pair, no
members asked so far contest, or the last ones do (`Asking`). It takes that the
comparison does not depend on the order of the tokens (`ContestEitherWay`), since
the memo's key does not hold it, and that the pair in question has a set, so that
its provisional entry is never served to its members (`MembersNotInQuestion`).

**`Walks_proofs`**, of `PaullOrder` - `OrderIsDoneRules` and `SortedButForCycles`, for every
set of rules, finite or not, every graph over them and every sequence of roots
that names each rule. What the code relies on and says nowhere is the stack's
meaning, and that is the strengthening: the rules in progress are the Exit
entries, each once (`ExitsInProgress`); a rule not yet seen is still a root to
visit or an Enter entry (`Waiting`); a rule in progress can begin with
everything above it (`StackReaches`) and has the unseen rules it begins with
above it (`TargetsAbove`). One lemma per action, on lemmas about the stack and
the graph. `AcyclicIsTopological` draws the conclusion the substitution needs
when no rule can begin with itself.

**`Walks_proofs`**, of `LeadCycles` - `ScanCorrect`: when the scan ends it has kept exactly
the rules that can begin with themselves (`CyclesFound`, the safety part of
`CyclicIsExact`), for every set of rules and every graph over them. The
invariant of Tarjan's algorithm is about two stacks the code keeps apart, its
own and the frames: both are in the order the rules were seen in
(`StackInOrder`, `FramesInOrder`), so a rule on the stack belongs to one frame
(`Belongs`). A frame's rule can begin with every open rule seen since
(`FramesLead`), and an open rule with the rule of its frame (`LedBack`): what a
root pops is strongly connected. A frame's lowlink is the number of an open rule
it can begin with (`LowIsLed`), so a frame that is no root hands its rules to
the one below; and no reference followed from what belongs to the frame goes
lower (`LowIsLeast`), so nothing a root pops begins with a rule left open. Hence
closed rules begin with closed rules only, and each has its right answer
(`ClosedDecided`). Counting an edge into a closed component, or not carrying the
lowlink to the parent, breaks one of these.

**`Elimination_proofs`** - of the rewrites themselves, for any set of rules and any
grammars that declare each once (`GrammarsAssumption`; what `=/` adds to a rule
is merged into it before the pass, `ir.rs:381`, and a name declared by `=` twice is
left out). `GetsFurther` is `Progress`, for every
grammar. `BehindIsClean` is `PaullInvariant` and `NoLeadingCycle` is
`LeadAcyclic`, for every grammar without an empty alternative: with one, a
substitution can bring to the front what stood behind, and the claim is false
(divergence 8).

The invariant (`PassInv`) holds until the pass gives up. Its half for every grammar
(`Shape`) is that the rules stay the rules that were given, each once, and that
the walks run over the leading references of the rules as they stand
(`Mirrors`), so that `SortInv` and `ScanInv` of `Walks_proofs` hold of the steps
taken. Its half for grammars without an empty alternative (`Depth`) is about
Paull's loop. `WellLed`: whatever a rule comes to begin with, it could begin with
when the cycles were found, which is why the cycles need not be found again.
`Behind`: a rule whose turn is over is clean or an exempt alias. And `Counted`,
without which the guard says nothing: inlining a clean rule brings no earlier rule
back, so only an exempt alias does; an alias is exempt because it is on no cycle,
so each time one gives way, what it brings has one rule more above it (`Upstream`)
than the alias had. What still leads the rule in turn after n rounds therefore has
at least n rules above it, and there are not as many rules as the guard allows
rounds (`NoneEarlier`). At the end a rule that led itself would have to lead down the
graph and back within a cycle, where no alias is exempt and every rule leads only
to later ones (`NoneLeadsBack`).

**`Classes_proofs`** - first the functions of `ranges.rs` and the two walks over
coverages, for every code space. `NormalizeExact`: normalising spans in any
number and order gives a sorted, merged coverage of the same characters.
`ComplementExact` and `ReachExact`: a complement takes what its coverage does
not, and the code units a coverage reaches are those its characters start on.
`PointClassExact`: a class read by code points takes a character by its first
unit as the coverage does. `SweepAnswers`: the sweep implements `Question`
(Question's steps under a refinement mapping), for every two coverages of any
length. The invariant is that whatever the two scans have left behind shares
nothing with what is to come (`LeftBehindApart`); a coverage whose span ends
first can be left because spans of a coverage are in order and apart. That is an
assumption on the coverages it is asked about (`AskedAssumption`), which class
analysis meets, by normalising, and left factoring does not (finding 2).
`NoCharacterInTwo` and `UnionsAreExact`: the partition, for every set of
coverages, sorted or not. `AtomsApart` is inductive together with "every atom
ends before the scan"; for exactness (`ExactBelow`) a coverage takes a character
below the scan exactly when it holds the atom the character is in, because no
span begins or ends inside a window between neighbouring cuts.

Then the composition, for every sequence of classes:
`ClassesReadAsWritten`, `ReachIsExact`, `AtomsStayApart`, `ClassesAreUnions` and
`ClassesAsk`. `ClassesInv` says what each phase hands the next: a coverage held
for a class is its own and normalised (`CoverageOK`), so that the sweep's
`AskedAssumption` is met by `NormalizeExact` and its theorem carries over;
what is compared and cut is among them and covers something (`ContestedOK`); once
`Exclude` is over, no class read by code unit names a lead that one read by code
point names (`LeadsApart`), which is why an atom compiled for one class can serve
another of the other reading; a token stands for the atom it was minted for and
a set for the atoms its class holds (`MintedOK`, `SetsOK`).

**`SuffixDebts_proofs`** - `LoopsHeldIffOwed` and `LoopItemsCarryNoDebt`, for every
grammar as assumed above, copies of loops included, any overlap of tokens, and
parses of any depth.
`DebtInv` says, besides types, what each loop settled so far holds (`LoopsInv`)
and what each push carries for it (`DebtsInv`). Neither tells why a counter
inherited through many frames is right. That is `ParseInv`, about a `Zone`: the
loop and the rules from which its owner can be reached. Whatever pushes a rule
of the zone is of the zone (`ZoneIsClosed`), so a frame in it was reached through
frames in it alone, and every push on the way that left something to match is
one the pass charged or cleared: there the counter tells whether what the
nearest such frame needs competes with the loop. `ParseInv` is of the loops whose
own rule's suffix counts: at a copy of which that is not so the frame that needs
something may be its own, by a push the pass left alone. That copies share a
counter does no harm to the others, as they begin alike (`CopiesCompeteAlike`).

**`FirstFollow_proofs`** - `FirstExact`, `FollowExact` and `PairsFollow`, for every
grammar and every set of token classes. That a set is never too large is an
invariant of every step: each token or pair in it is backed by a word or a
continuation (`Backed`, `Followed`), however far the sets it was read from have
been updated. That it is not too small holds when a round ends in which nothing
was added; before, it holds of every place but those the round has yet to visit
(`AltHeld`, `RefHeld`), unless something has changed since it was visited, in
which case another round follows. From closed sets, that every word's beginning
is in FIRST is by induction over the depth of derivations, with
`AnalysisInvariant` the conjunction of it all. The theorems are of `Analysis`,
the three fixed points alone; the run checks them within `Parse`, whose steps
are those of `Analysis` until it is done and then leave its variables as they
are.

**`Actions_proofs`** - `ActionsInvariant` and `RunInOrder`, for every set of
rules, marks and functions and any number of calls. What keeps one call from
undoing another is that user refs are numbered without a gap (`NumberedInv`), so
the number a call starts from and all after it are free, and that no alternate
holds a ref still to be handed out (`KnownInv`): what a name runs never changes
once an alternate holds it, except a hook, which no alternate holds. Then an
alternate's names and the keys accepted for it grow together (`AltsInv`,
`HooksInv`). The lemmas are about the operators both lean on: flattening a
sequence that grows at its end (`FlatAppend`), the place of an alternate among
those with its mark (`Places`), and attaching one name to each (`AltsAttached`).

**`Induction`** - the natural numbers' induction as a statement about a *set*
(`Induct`, `InductNat`), from the library's theorem that a well-founded relation
has minimal elements, and the existence of functions defined by recursion
(`Recursion`). What normalisation, derivations, words over recursive
functions and flattened sequences compute is proved with these.

**Only model-checked.** Liveness, that the two walks end: the provers take neither
fairness nor ENABLED. What `LeftRec` says beyond `Elimination` (languages, source
trees, blame, charges), and everything else that walks nested elements or is judged by such
a walk (`LeftRec`, `RewriteSources`, `Probe`, `Factor`, `Desugar`, `Rewrites`,
`Lexicon`, `Dispatch`, `Emission`, `Parse`)
and `SameAsRecursive`, whose reference does: their operators are RECURSIVE, which
the provers do not take.

## 7. Hazards without a property

`PROJECT.json` lists the hazards. Two of them happen and have a divergence
instead: hidden recursion left by the split (`leftrec.rs:338`, items 3 and 4
above) and the nullable reference that keeps its place (`emit.rs:2288`, item 7).

## 8. Not modelled

* Value annotations (`annotate.rs`, but for `exempt_alias`): case analyses that
  keep no state. Node building, marks and value actions in `emit.rs` and
  `spec.rs`: what they do happens in the engine.
* Transduction, serialisation, source spans, diagnostics' wording, the depth
  check, option parsing and re-exports.
* The syntax of patterns: a class is its members, and whether it is a single one
  is given. Regular expressions in `Factor`. The token sets read through class
  names in FIRST.
* The alternates written for tail repeats and probe helpers: their meaning is
  modelled (`Meaning` in `Desugar`, the pass in `Probe`), their alternates not.
* The ports to Go, TypeScript and Python.

## 9. Plan

1. The alternates of tail repeats and probe dispatchers in `Emission`, so that
   `Parse` runs what `Rewrites` returns.
2. `EmitBudget` refined by `Dispatch` with its units.
3. Value annotations, if they come to keep state.
