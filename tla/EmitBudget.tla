----------------------------- MODULE EmitBudget -----------------------------
(***************************************************************************)
(* The emit limit (rs/src/budget.rs) and the code that spends it: what a   *)
(* compile has written, and what the decision under way holds while it     *)
(* enumerates token paths (alt_prefixes_raw, alt_prefixes and              *)
(* dispatch_prefixes in rs/src/analysis.rs, and their callers in           *)
(* rs/src/emit.rs).                                                        *)
(*                                                                         *)
(* A path is abstracted to its units.  A walk is one call of               *)
(* alt_prefixes_raw, which calls itself for a reference, and at what was   *)
(* held when it began.  left is the units of the paths it has still to     *)
(* extend by the element under way; spent of those it has come to, and of  *)
(* what nested walks returned to it, in memory until the element ends;     *)
(* next of those it has put in their place; and copied of those of them    *)
(* that are clones of paths it has come to, which are not held again.      *)
(***************************************************************************)
EXTENDS Integers, Sequences

CONSTANTS Max,          \* MAX_EMIT_UNITS
          Depth,        \* the most rules that can be open in a walk
          Units         \* the units one charge, path or prefix can count

ASSUME ConstantsAssumption == Max \in Nat /\ Depth \in Nat /\ Units \subseteq Nat

VARIABLES written,      \* units the compiled grammar holds
          held,         \* units the decision under way holds
          start,        \* what was written when the step under way began
          phase,        \* what the emitter is doing
          base,         \* what was held when the decision began
          kept,         \* units of the paths and prefixes the decision has kept
          result,       \* those of them it will return
          walks,        \* the walks open, the innermost last
          refused       \* the refusal, once made

vars == <<written, held, start, phase, base, kept, result, walks, refused>>

\* "idle", a decision of one of three kinds, one whose result is in use,
\* or the end.
Kinds  == {"dispatch", "peek", "seconds"}
Phases == Kinds \cup {"idle", "using", "refused"}
Walk   == [at : Nat, left : Nat, spent : Nat, next : Nat, copied : Nat]
NoRefusal == [holding |-> FALSE, asked |-> 0]

(* The types of the state.  EmitBudget::settle, keep and restore write a   *)
(* count that is natural, and so are the counts of every walk.             *)
TypeOK == /\ written \in Nat /\ held \in Nat /\ start \in Nat
          /\ base \in Nat /\ kept \in Nat /\ result \in Nat
          /\ phase \in Phases
          /\ walks \in Seq(Walk)
          /\ refused \in [holding : BOOLEAN, asked : Nat]

Init == /\ written = 0 /\ held = 0 /\ start = 0
        /\ phase = "idle"
        /\ base = 0 /\ kept = 0 /\ result = 0
        /\ walks = <<>>
        /\ refused = NoRefusal

\* A bug: what is held does not count.
RoomUnheld == Max - written
Room == IF written + held > Max THEN 0 ELSE Max - (written + held)

Refuse(holding, n) == /\ phase' = "refused"
                      /\ refused' = [holding |-> holding, asked |-> n]
                      /\ UNCHANGED <<written, held, start, base, kept, result, walks>>

Depths == 1..Len(walks)
Inner == walks[Len(walks)]
Outer == SubSeq(walks, 1, Len(walks) - 1)
Walking == phase \in Kinds /\ walks # <<>>

-----------------------------------------------------------------------------
(* Steps of the emitter, and what they write.                              *)
Begin == /\ phase = "idle"
         /\ start' = written
         /\ UNCHANGED <<written, held, phase, base, kept, result, walks, refused>>

CanCharge == phase \in {"idle", "using"}

Charge(n) == /\ CanCharge
             /\ n <= Room
             /\ written' = written + n
             /\ UNCHANGED <<held, start, phase, base, kept, result, walks, refused>>

RefuseCharge(n) == CanCharge /\ n > Room /\ Refuse(FALSE, n)

(* A decision.                                                             *)
Decide(kind) == /\ phase = "idle"
                /\ phase' = kind
                /\ base' = held /\ kept' = 0 /\ result' = 0
                /\ UNCHANGED <<written, held, start, walks, refused>>

\* alt_prefixes_raw begins with one path of no token.  Of the decisions
\* only dispatch_prefixes enumerates more than once.
Enter == /\ phase \in Kinds
         /\ Len(walks) < Depth
         /\ IF walks = <<>> THEN result = 0 ELSE Inner.left > 0
         /\ 1 <= Room
         /\ held' = held + 1
         /\ walks' = Append(walks, [at |-> held, left |-> 0, spent |-> 0, next |-> 1, copied |-> 0])
         /\ UNCHANGED <<written, start, phase, base, kept, result, refused>>

RefuseEnter == /\ phase \in Kinds /\ Len(walks) < Depth
               /\ IF walks = <<>> THEN result = 0 ELSE Inner.left > 0
               /\ 1 > Room
               /\ Refuse(TRUE, 1)

InnerBecomes(left, spent, next, copied) ==
    walks' = Append(Outer, [at |-> Inner.at, left |-> left, spent |-> spent,
                            next |-> next, copied |-> copied])

\* The next element: the paths put become the paths to extend, and the paths
\* they are made of go.
NextElement == /\ Walking
               /\ Inner.left = 0 /\ Inner.next > 0
               /\ InnerBecomes(Inner.next, 0, 0, 0)
               /\ UNCHANGED <<written, held, start, phase, base, kept, result, refused>>

\* A path that can grow no more is handed on as it is: its clone is not held
\* again, and stands beside it until the element ends.
Carry(u) == /\ Walking
            /\ u <= Inner.left
            /\ InnerBecomes(Inner.left - u, Inner.spent + u, Inner.next + u, Inner.copied + u)
            /\ UNCHANGED <<written, held, start, phase, base, kept, result, refused>>

\* put: a path made by extending another is held before it is made.
Put(n) == /\ Walking
          /\ Inner.left > 0
          /\ n <= Room
          /\ held' = held + n
          /\ InnerBecomes(Inner.left, Inner.spent, Inner.next + n, Inner.copied)
          /\ UNCHANGED <<written, start, phase, base, kept, result, refused>>

RefusePut(n) == Walking /\ Inner.left > 0 /\ n > Room /\ Refuse(TRUE, n)

\* A path all of whose extensions have been put, or filtered out.
Drop(u) == /\ Walking
           /\ u <= Inner.left
           /\ InnerBecomes(Inner.left - u, Inner.spent + u, Inner.next, Inner.copied)
           /\ UNCHANGED <<written, held, start, phase, base, kept, result, refused>>

\* A nested walk returns its paths to the walk that made it, which keeps them
\* until its element ends (by_length); what it held stays held.
Leave == /\ Walking /\ Len(walks) > 1
         /\ Inner.left = 0
         /\ walks' = [Outer EXCEPT ![Len(Outer)].spent = @ + Inner.next]
         /\ UNCHANGED <<written, held, start, phase, base, kept, result, refused>>

\* settle: only the paths the outermost walk returns stay held.
SettleAt(h) == /\ phase = "dispatch" /\ Len(walks) = 1
               /\ Inner.left = 0
               /\ held' = h
               /\ kept' = kept + Inner.next
               /\ walks' = <<>>
               /\ UNCHANGED <<written, start, phase, base, result, refused>>

\* Bugs: what was held before is forgotten, or nothing is given back.
SettleForgets == SettleAt(Inner.next)
SettleAdds    == SettleAt(held + Inner.next)

Settle == SettleAt(Inner.at + Inner.next)

\* dispatch_prefixes holds each prefix it keeps, then keeps them alone.  A
\* prefix is no longer than the path it is of, and no path has two.
Kept(n) == phase = "dispatch" /\ walks = <<>> /\ result + n <= kept - result

Prefix(n) == /\ Kept(n)
             /\ n <= Room
             /\ held' = held + n /\ kept' = kept + n /\ result' = result + n
             /\ UNCHANGED <<written, start, phase, base, walks, refused>>

RefusePrefix(n) == Kept(n) /\ n > Room /\ Refuse(TRUE, n)

KeepPrefixes == /\ phase = "dispatch" /\ walks = <<>>
                /\ held' = base + result /\ kept' = result
                /\ phase' = "using"
                /\ UNCHANGED <<written, start, base, result, walks, refused>>

\* alt_prefixes keeps the distinct ones of the paths its walk returned.
KeepDistinct(n) == /\ phase = "peek" /\ Len(walks) = 1
                   /\ Inner.left = 0 /\ n <= Inner.next
                   /\ held' = base + n /\ kept' = n /\ result' = n
                   /\ walks' = <<>>
                   /\ phase' = "using"
                   /\ UNCHANGED <<written, start, base, refused>>

\* The keyword guards read their paths and give all of them back, before
\* they are charged.
ReadSecondsTo(h) == /\ phase = "seconds" /\ Len(walks) = 1
                    /\ Inner.left = 0
                    /\ held' = h
                    /\ walks' = <<>>
                    /\ phase' = "idle"
                    /\ UNCHANGED <<written, start, base, kept, result, refused>>

\* A bug: the paths are not given back.
ReadSecondsKept == ReadSecondsTo(held)

ReadSeconds == ReadSecondsTo(base)

\* restore: what the decision returned has been used.
Restore == /\ phase = "using"
           /\ held' = base
           /\ phase' = "idle"
           /\ UNCHANGED <<written, start, base, kept, result, walks, refused>>

Returned == phase = "refused" /\ UNCHANGED vars

Next == \/ Begin \/ Enter \/ RefuseEnter \/ NextElement \/ Leave \/ Settle
        \/ KeepPrefixes \/ ReadSeconds \/ Restore \/ Returned
        \/ \E kind \in Kinds : Decide(kind)
        \/ \E n \in Units : \/ Charge(n) \/ RefuseCharge(n) \/ Carry(n) \/ Put(n) \/ RefusePut(n)
                          \/ Drop(n) \/ Prefix(n) \/ RefusePrefix(n) \/ KeepDistinct(n)

Spec == Init /\ [][Next]_vars

-----------------------------------------------------------------------------
(* "Written and held together never pass the limit" (MAX_EMIT_UNITS).      *)
WithinLimit == written + held <= Max

\* The units of a walk's paths, of a clone and what it is a clone of once.
Once(w) == w.left + (w.spent - w.copied) + w.next

(* What is held is never less than what is in memory, but for the second   *)
(* copy of a path handed on: the units of the paths of every open walk and *)
(* of the paths and prefixes kept.  Each walk's paths lie in what was held *)
(* since it began, before the walk inside it began; its clones are of      *)
(* paths that are still there.                                             *)
Covered ==
    /\ \A k \in Depths :
         /\ base + kept <= walks[k].at
         /\ walks[k].copied <= walks[k].spent
         /\ walks[k].at + Once(walks[k]) <= (IF k = Len(walks) THEN held ELSE walks[k + 1].at)
    /\ phase \in Kinds \cup {"using"} => base + kept <= held

(* Between decisions nothing is held: a decision that forgot to give back  *)
(* what it held would make a later rule be refused for it.                 *)
NothingLeaks == phase = "idle" => held = 0

(* Giving back never takes: settle, keep and restore leave less held, so   *)
(* only a charge or a hold that was let through can bring the limit nearer.*)
OnlyLetThrough == [][written' + held' - (written + held) <= Room]_vars
=============================================================================
