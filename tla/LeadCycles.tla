----------------------------- MODULE LeadCycles -----------------------------
(***************************************************************************)
(* find_leading_ref_cycle_members (rs/src/leftrec.rs): Tarjan's strongly   *)
(* connected components, carried on an explicit stack of frames, keeping   *)
(* the rules on a cycle of leading references.                             *)
(***************************************************************************)
EXTENDS LeadGraph, FiniteSetsExt

Unseen == -1            \* a rule that has no index yet

VARIABLES roots,        \* the roots still to visit, in declared order
          frames,       \* the frames [name, next]; the last is the current
          stack,        \* Tarjan's stack; on_stack is its range
          index,        \* the next index to give out
          indices,      \* the index of each rule, or Unseen
          lowlinks,     \* its lowlink, or Unseen
          cyclic        \* the rules found on a cycle

scanVars == <<lead, roots, frames, stack, index, indices, lowlinks, cyclic>>

StartScan(g, seq) == /\ lead = g
                     /\ roots = seq
                     /\ frames = <<>>
                     /\ stack = <<>>
                     /\ index = 0
                     /\ indices = [n \in Names |-> Unseen]
                     /\ lowlinks = [n \in Names |-> Unseen]
                     /\ cyclic = {}

ScanInit == \E g \in LeadGraphs, seq \in Seq(Names) :
            (\A n \in Names : \E i \in 1..Len(seq) : seq[i] = n) /\ StartScan(g, seq)

OnStack(n) == \E i \in 1..Len(stack) : stack[i] = n
Cur        == frames[Len(frames)]
Callers    == SubSeq(frames, 1, Len(frames) - 1)
Target     == lead[Cur.name][Cur.next + 1]
HasTarget  == frames # <<>> /\ Cur.next < Len(lead[Cur.name])
Exhausted  == frames # <<>> /\ Cur.next = Len(lead[Cur.name])

\* open_frame: number the rule, put it on both stacks.
OpenFrame(n, below) ==
    /\ indices'  = [indices EXCEPT ![n] = index]
    /\ lowlinks' = [lowlinks EXCEPT ![n] = index]
    /\ index'    = index + 1
    /\ stack'    = Append(stack, n)
    /\ frames'   = Append(below, [name |-> n, next |-> 0])
    /\ UNCHANGED <<lead, cyclic>>

OpenRoot == /\ frames = <<>> /\ roots # <<>>
            /\ indices[Head(roots)] = Unseen
            /\ roots' = Tail(roots)
            /\ OpenFrame(Head(roots), <<>>)

SkipRoot == /\ frames = <<>> /\ roots # <<>>
            /\ indices[Head(roots)] # Unseen
            /\ roots' = Tail(roots)
            /\ UNCHANGED <<lead, frames, stack, index, indices, lowlinks, cyclic>>

Advanced == [frames EXCEPT ![Len(frames)].next = @ + 1]

\* The first edge into a rule: descend into it.
Descend == /\ HasTarget
           /\ indices[Target] = Unseen
           /\ OpenFrame(Target, Advanced)
           /\ UNCHANGED roots

\* An edge back to a rule whose component is still open.
BackEdge == /\ HasTarget
            /\ indices[Target] # Unseen /\ OnStack(Target)
            /\ frames' = Advanced
            /\ lowlinks' = [lowlinks EXCEPT ![Cur.name] = Min({@, indices[Target]})]
            /\ UNCHANGED <<lead, roots, stack, index, indices, cyclic>>

\* An edge into a component already closed.
CrossEdge == /\ HasTarget
             /\ indices[Target] # Unseen /\ ~OnStack(Target)
             /\ frames' = Advanced
             /\ UNCHANGED <<lead, roots, stack, index, indices, lowlinks, cyclic>>

\* On return the child's lowlink is carried up to the parent frame.
PopFrame == /\ frames' = Callers
            /\ lowlinks' = IF Callers = <<>> THEN lowlinks
                           ELSE [lowlinks EXCEPT ![Callers[Len(Callers)].name] =
                                                    Min({@, lowlinks[Cur.name]})]
            /\ UNCHANGED <<lead, roots, index, indices>>

\* The stack is popped down to the component's root.
IsRoot(r) == stack[r] = Cur.name /\ \A k \in (r + 1)..Len(stack) : stack[k] # Cur.name
Component(r) == { stack[k] : k \in r..Len(stack) }
\* A bug: a rule that begins with itself alone is not a cycle.
IsLarge(r) == r < Len(stack)
IsCycle(r) == r < Len(stack) \/ Cur.name \in LeadSet(lead, Cur.name)

CloseComponent ==
    /\ Exhausted /\ lowlinks[Cur.name] = indices[Cur.name]
    /\ \E r \in 1..Len(stack) :
         /\ IsRoot(r)
         /\ stack' = SubSeq(stack, 1, r - 1)
         /\ cyclic' = IF IsCycle(r) THEN cyclic \cup Component(r) ELSE cyclic
    /\ PopFrame

Return == /\ Exhausted /\ lowlinks[Cur.name] # indices[Cur.name]
          /\ PopFrame
          /\ UNCHANGED <<stack, cyclic>>

ScanNext == OpenRoot \/ SkipRoot \/ Descend \/ BackEdge \/ CrossEdge \/ CloseComponent \/ Return

Scanned == roots = <<>> /\ frames = <<>>

ScanSpec == ScanInit /\ [][ScanNext]_scanVars /\ WF_scanVars(ScanNext)

-----------------------------------------------------------------------------
(* The scan ends, and keeps exactly the rules that can begin with          *)
(* themselves.  A wrong answer of find_leading_ref_cycle_members exempts   *)
(* an alias of a cycle, or dissolves the name of one that is not on any;   *)
(* a frame whose cursor stands still never gives one.                      *)
CyclesFound == Scanned => cyclic = { n \in Names : CanReach(lead, n, n) }
CyclicIsExact == <>[](Scanned /\ CyclesFound)
=============================================================================
