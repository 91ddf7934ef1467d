------------------------------- MODULE Classes ------------------------------
(***************************************************************************)
(* class_analysis (rs/src/ranges.rs) and emit_class_token (rs/src/emit.rs):*)
(* character classes that overlap are laid over a shared partition, whose  *)
(* atoms become match tokens.  It asks Overlap whether each two of them    *)
(* share a character, and cuts with Partition those that share one with    *)
(* another.                                                                *)
(***************************************************************************)
EXTENDS Overlap, Partition, Patterns

CONSTANT Inputs             \* the terminals of each grammar, in order

ASSUME InputsAssumption == Inputs \subseteq Seq(Terminals)

VARIABLES
    terminals,              \* the grammar's
    phase,
    n,                      \* the next terminal
    coverage,               \* class -> its coverage
    mine, other,            \* the two classes compared, by position
    contested,              \* the classes that share a character
    atom_tokens,            \* span -> the token minted for it
    token_sets,             \* class -> the tokens of its atoms
    set_ranges              \* class -> what the contest checks take it to cover

tokenVars == <<atom_tokens, token_sets, set_ranges>>
scanVars == <<mine, other, contested>>
vars == <<terminals, phase, n, coverage, scanVars, sweepVars, partitionVars, tokenVars>>

Nothing == [c \in {} |-> <<>>]
With(f, x, v) == [ y \in DOMAIN f \cup {x} |-> IF y = x THEN v ELSE f[y] ]

Init == /\ terminals \in Inputs
        /\ phase = "collect" /\ n = 1
        /\ coverage = Nothing
        /\ mine = 1 /\ other = 1 /\ contested = {}
        /\ SweepInit
        /\ coverages = {} /\ at = 0 /\ atoms = {}
        /\ atom_tokens = Nothing /\ token_sets = Nothing /\ set_ranges = Nothing

-----------------------------------------------------------------------------
(* class_analysis.                                                         *)

Collect ==
    /\ phase = "collect" /\ n <= Len(terminals)
    /\ LET t == terminals[n]
       IN  coverage' = IF t \notin DOMAIN coverage /\ TakesPart(t)
                       THEN With(coverage, t, Normalize(PatternRanges(t))) ELSE coverage
    /\ n' = n + 1
    /\ UNCHANGED <<terminals, phase, scanVars, sweepVars, partitionVars, tokenVars>>

PointLeads == UNION { Leads(coverage[t]) : t \in { s \in DOMAIN coverage : s.points } }

\* A class read by the code unit that names a lead some class read by the
\* code point names is left out.  A bug: it stays.
StayAll == DOMAIN coverage
Stay == { t \in DOMAIN coverage : t.points \/ Leads(coverage[t]) \cap PointLeads = {} }

Exclude ==
    /\ phase = "collect" /\ n > Len(terminals)
    /\ coverage' = [ t \in Stay |-> coverage[t] ]
    /\ phase' = "contest"
    /\ UNCHANGED <<terminals, n, scanVars, sweepVars, partitionVars, tokenVars>>

\* The classes, in the order they were met.
Met(keys, t) == IF t \in DOMAIN coverage /\ ~(\E k \in DOMAIN keys : keys[k] = t) THEN Append(keys, t) ELSE keys
Keys == LET met[k \in 0..Len(terminals)] == IF k = 0 THEN <<>> ELSE Met(met[k - 1], terminals[k])
        IN  met[Len(terminals)]

SameClass ==
    /\ phase = "contest" /\ mine <= Len(Keys) /\ other = mine
    /\ other' = other + 1
    /\ UNCHANGED <<terminals, phase, n, coverage, mine, contested, sweepVars, partitionVars, tokenVars>>

Compare ==
    /\ phase = "contest" /\ mine <= Len(Keys) /\ other <= Len(Keys) /\ other # mine
    /\ Ask(coverage[Keys[mine]], coverage[Keys[other]])
    /\ phase' = "sweep"
    /\ UNCHANGED <<terminals, n, coverage, scanVars, partitionVars, tokenVars>>

SweepOn ==
    /\ phase = "sweep" /\ Sweep
    /\ UNCHANGED <<terminals, phase, n, coverage, scanVars, partitionVars, tokenVars>>

\* The first class it shares a character with is enough.
Hear ==
    /\ phase = "sweep" /\ answer # "open"
    /\ phase' = "contest"
    /\ IF answer = "yes" THEN mine' = mine + 1 /\ other' = 1 /\ contested' = contested \cup {Keys[mine]}
       ELSE other' = other + 1 /\ UNCHANGED <<mine, contested>>
    /\ UNCHANGED <<terminals, n, coverage, sweepVars, partitionVars, tokenVars>>

NoneLeft ==
    /\ phase = "contest" /\ mine <= Len(Keys) /\ other > Len(Keys)
    /\ mine' = mine + 1 /\ other' = 1
    /\ UNCHANGED <<terminals, phase, n, coverage, contested, sweepVars, partitionVars, tokenVars>>

Compared ==
    /\ phase = "contest" /\ mine > Len(Keys)
    /\ coverages' = { coverage[t] : t \in contested }
    /\ IF contested = {} THEN phase' = "allocate" /\ UNCHANGED at
       ELSE phase' = "partition" /\ at' = Min(Cuts(coverages'))
    /\ n' = 1
    /\ UNCHANGED <<terminals, coverage, scanVars, sweepVars, atoms, tokenVars>>

CutWindow ==
    /\ phase = "partition" /\ Window
    /\ UNCHANGED <<terminals, phase, n, coverage, scanVars, sweepVars, tokenVars>>

Partitioned ==
    /\ phase = "partition" /\ AllCut
    /\ phase' = "allocate"
    /\ UNCHANGED <<terminals, n, coverage, scanVars, sweepVars, partitionVars, tokenVars>>

-----------------------------------------------------------------------------
(* emit_class_token.                                                       *)

\* class_pattern: whether the atom is compiled with u, for the first class
\* that needs it.
Unicode(s, points) == s.hi > MaxUnit \/ (points /\ s.lo <= LeadHi /\ LeadLo <= s.hi)

\* The atoms of a class, and the tokens with those minted for it.
Held(t) == { s \in atoms : Holds(coverage[t], s) }
Minted(t) == [ s \in DOMAIN atom_tokens \cup Held(t) |->
                 IF s \in DOMAIN atom_tokens THEN atom_tokens[s]
                 ELSE [span |-> s, u |-> Unicode(s, t.points)] ]

Allocate ==
    /\ phase = "allocate" /\ n <= Len(terminals)
    /\ LET t == terminals[n]
       IN  IF t \notin contested \/ t \in DOMAIN token_sets
           THEN UNCHANGED <<atom_tokens, token_sets, set_ranges>>
           ELSE /\ atom_tokens' = Minted(t)
                /\ token_sets' = With(token_sets, t, { Minted(t)[s] : s \in Held(t) })
                /\ set_ranges' = With(set_ranges, t, CodeUnitReach(coverage[t], t.points))
    /\ n' = n + 1
    /\ UNCHANGED <<terminals, phase, coverage, scanVars, sweepVars, partitionVars>>

Done == phase = "allocate" /\ n > Len(terminals)
Returned == Done /\ UNCHANGED vars

Next == \/ Collect \/ Exclude
        \/ SameClass \/ Compare \/ SweepOn \/ Hear \/ NoneLeft \/ Compared
        \/ CutWindow \/ Partitioned
        \/ Allocate \/ Returned
Spec == Init /\ [][Next]_vars

-----------------------------------------------------------------------------
\* A token of the set takes the code point.
SetTakes(t, c) == \E m \in token_sets[t] : Takes(<<m.span>>, m.u, c)

(* A class laid over the partition takes at every position what its own    *)
(* matcher would, though its atoms are shared with classes of another      *)
(* reading and compiled for whichever came first (class_analysis).         *)
ReadsAsWritten == \A t \in DOMAIN token_sets, c \in CodePoint :
                     SetTakes(t, c) <=> Takes(coverage[t], t.points, c)

(* What the contest checks believe a token set covers is what its tokens   *)
(* can start on (code_unit_reach).                                         *)
ReachIsWhatItTakes == \A t \in DOMAIN set_ranges, c \in CodePoint :
                         SetTakes(t, c) <=> Covers(set_ranges[t], c)
=============================================================================
