------------------------------ MODULE Actions -------------------------------
(***************************************************************************)
(* Attaching user functions to an emitted specification (attach_actions    *)
(* and attach_action_slots, rs/src/spec.rs), call after call: an alternate *)
(* holds the names of its actions, the ref map what each name runs.        *)
(***************************************************************************)
EXTENDS Integers, SequencesExt

CONSTANTS
    Rules,              \* the rules of the specification
    Marks,              \* the marks of alternates
    Functions,          \* the functions attached
    MaxCalls,           \* calls made, for TLC
    MaxKeys             \* keys attached by all of them, for TLC

VARIABLES
    rule,               \* the alternates [m, a] of each rule, open and close
    refs,               \* the ref map: what each name runs, in order
    call,               \* "idle", "actions" or "slots"
    counter,            \* the number the next user ref takes
    calls,              \* how many calls were begun
    attached            \* every key a call accepted, in order

vars == <<rule, refs, call, counter, calls, attached>>

Sides  == {"open", "close"}
PHASES == {"bo", "ao"}          \* bc and ac are handled as these are
NoMark == "unmarked"

\* A name is what it is put together from.  The compiler's own action is
\* none, a closure in the ref map, or a builtin.
OwnRef  == <<"own">>
Builtin == <<"builtin">>
Own     == { <<>>, <<OwnRef>>, <<Builtin>> }

UserRef(k)     == <<"user", k>>
HookRef(r, ph) == <<"hook", r, ph>>
SlotName(key)  == <<"slot", key.rule, key.side, key.mark>>

\* @rule:phase names a hook, @rule:o|c:mark alternates.
Hooks   == [rule : Rules, sel : PHASES]
AltKeys == [rule : Rules, side : Sides, mark : Marks]
\* Names no rule has, and the forms resolve_target refuses, '$' included.
BadKeys == { [rule |-> "malformed", sel |-> "bo"] }
IsHook(key) == "sel" \in DOMAIN key

Init == /\ rule \in [Rules -> { [s \in Sides |-> IF s = "open" THEN <<x, y>> ELSE <<z>>] :
                                  x \in [m : Marks, a : Own],
                                  y \in [m : Marks \cup {NoMark}, a : { <<>> }],
                                  z \in [m : Marks, a : { <<OwnRef>> }] }]
        /\ refs = [x \in {OwnRef} |-> <<OwnRef>>]
        /\ call = "idle" /\ counter = 0 /\ calls = 0
        /\ attached = <<>>

-----------------------------------------------------------------------------
\* The alternates with the key's mark.
Matching(key) == { i \in DOMAIN rule[key.rule][key.side] : rule[key.rule][key.side][i].m = key.mark }

\* resolve_target finds the rule, and an alternate unless it is a hook.
Resolves(key) == /\ key.rule \in DOMAIN rule
                 /\ ~IsHook(key) => Matching(key) # {}

\* Each of the key's alternates runs its name last.
AppendAction(alt, name) == [alt EXCEPT !.a = Append(@, name)]
Appending(key, name) ==
    LET alts == rule[key.rule][key.side]
    IN  [rule EXCEPT ![key.rule][key.side] =
            [i \in DOMAIN alts |-> IF i \in DOMAIN name THEN AppendAction(alts[i], name[i]) ELSE alts[i]]]

\* The ref map with functions under some names.
Mapping(names, fns) == [x \in DOMAIN refs \cup names |-> IF x \in names THEN fns ELSE refs[x]]

\* A bug: every call numbers its refs from the first.
FromZero == 0
FirstFree == CHOOSE n \in 0..Cardinality(DOMAIN refs) :
                /\ UserRef(n) \notin DOMAIN refs
                /\ \A k \in 0..(n - 1) : UserRef(k) \in DOMAIN refs

Begin(kind) == /\ call = "idle" /\ calls < MaxCalls
               /\ call' = kind /\ calls' = calls + 1
               /\ counter' = IF kind = "actions" THEN FirstFree ELSE counter
               /\ UNCHANGED <<rule, refs, attached>>

\* A hook that is there already is extended.
AttachHook(key, fns) ==
    /\ call = "actions" /\ IsHook(key) /\ Resolves(key)
    /\ LET name == HookRef(key.rule, key.sel)
           old  == IF name \in DOMAIN refs THEN refs[name] ELSE <<>>
       IN  refs' = Mapping({name}, old \o fns)
    /\ attached' = Append(attached, [key |-> key, runs |-> fns])
    /\ UNCHANGED <<rule, call, counter, calls>>

\* One user ref for each alternate, in order, each running all the functions.
AttachAlts(key, fns) ==
    /\ call = "actions" /\ ~IsHook(key) /\ Resolves(key)
    /\ LET number == [i \in Matching(key) |-> counter + Cardinality({ j \in Matching(key) : j < i })]
       IN  /\ rule' = Appending(key, [i \in Matching(key) |-> UserRef(number[i])])
           /\ refs' = Mapping({ UserRef(number[i]) : i \in Matching(key) }, fns)
    /\ counter' = counter + Cardinality(Matching(key))
    /\ attached' = Append(attached, [key |-> key, runs |-> fns])
    /\ UNCHANGED <<call, calls>>

\* A slot is a name the loader will resolve; it has no function yet.
AttachSlot(key) ==
    /\ call = "slots" /\ ~IsHook(key) /\ Resolves(key)
    /\ rule' = Appending(key, [i \in Matching(key) |-> SlotName(key)])
    /\ attached' = Append(attached, [key |-> key, runs |-> <<SlotName(key)>>])
    /\ UNCHANGED <<refs, call, counter, calls>>

\* The call fails; what it attached before stays attached.
Fail(key) == /\ call # "idle"
             /\ Resolves(key) => call = "slots" /\ IsHook(key)
             /\ call' = "idle"
             /\ UNCHANGED <<rule, refs, counter, calls, attached>>

Return == /\ call # "idle"
          /\ call' = "idle"
          /\ UNCHANGED <<rule, refs, counter, calls, attached>>

Lists == { <<f>> : f \in Functions } \cup { <<p[1], p[2]>> : p \in { q \in Functions \X Functions : q[1] # q[2] } }

Next == \/ \E kind \in {"actions", "slots"} : Begin(kind)
        \/ /\ Len(attached) < MaxKeys
           /\ \/ \E key \in Hooks, fns \in Lists : AttachHook(key, fns)
              \/ \E key \in AltKeys, fns \in Lists : AttachAlts(key, fns)
              \/ \E key \in AltKeys : AttachSlot(key)
        \/ \E key \in Hooks \cup AltKeys \cup BadKeys : Fail(key)
        \/ Return

Spec == Init /\ [][Next]_vars

-----------------------------------------------------------------------------
\* What a list of names runs; a builtin or a slot stands for itself.
Runs(names) == FlattenSeq([k \in DOMAIN names |->
                  IF names[k] \in DOMAIN refs THEN refs[names[k]] ELSE <<names[k]>>])

\* What the accepted keys with this target ask for, in order.
AskedOf(key) == FlattenSeq([k \in DOMAIN attached |-> IF attached[k].key = key THEN attached[k].runs ELSE <<>>])

\* The compiler's own action of an alternate never leaves the head of it.
OwnOf(alt) == IF alt.a # <<>> /\ Head(alt.a) \in {OwnRef, Builtin} THEN <<Head(alt.a)>> ELSE <<>>

(* "The functions run AFTER the compiler's own action, in attachment       *)
(* order" (attach_actions): over any calls, failed ones included, an       *)
(* alternate runs its own action and then exactly what the keys with its   *)
(* mark asked for, and a hook exactly what was asked of it.                *)
RunsInOrder ==
    /\ \A r \in Rules, s \in Sides : \A i \in DOMAIN rule[r][s] :
         LET alt == rule[r][s][i]
         IN  Runs(alt.a) = Runs(OwnOf(alt)) \o AskedOf([rule |-> r, side |-> s, mark |-> alt.m])
    /\ \A r \in Rules, ph \in PHASES :
         LET hook == HookRef(r, ph)
         IN  (IF hook \in DOMAIN refs THEN refs[hook] ELSE <<>>) = AskedOf([rule |-> r, sel |-> ph])
=============================================================================
