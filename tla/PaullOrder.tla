----------------------------- MODULE PaullOrder -----------------------------
(***************************************************************************)
(* topo_order_for_paull (rs/src/leftrec.rs): the depth-first search, on an *)
(* explicit stack, that orders the rules so that a rule comes after the    *)
(* rules its alternatives begin with.  An Enter entry is a rule still to   *)
(* be visited, an Exit entry is what the recursive call did on return.     *)
(* References to rules the grammar does not declare are filtered out of    *)
(* lead, as the code filters them, so the code's arm for a missing rule is *)
(* unreachable.                                                            *)
(***************************************************************************)
EXTENDS LeadGraph

VARIABLES todo,         \* the roots still to visit, in declared order
          steps,        \* the stack; its last entry is the top
          colour,       \* 0 unseen, 1 in progress, 2 done
          order         \* the post-order built so far

sortVars == <<lead, todo, steps, colour, order>>

Entry == [op : {"Enter", "Exit"}, name : Names]
Enter(n) == [op |-> "Enter", name |-> n]
Exit(n)  == [op |-> "Exit",  name |-> n]

\* The types of the search's state: the order and the stack hold rules, and
\* topo_order_for_paull's colours are three.
TypeOK == /\ lead   \in LeadGraphs
          /\ todo   \in Seq(Names)
          /\ steps  \in Seq(Entry)
          /\ colour \in [Names -> 0..2]
          /\ order  \in Seq(Names)

\* The walk of graph g whose roots are the rules of seq, in that order.
StartSort(g, seq) == /\ lead = g
                     /\ todo = seq
                     /\ steps = <<>>
                     /\ colour = [n \in Names |-> 0]
                     /\ order = <<>>

SortInit == \E g \in LeadGraphs, seq \in Seq(Names) :
            (\A n \in Names : \E i \in 1..Len(seq) : seq[i] = n) /\ StartSort(g, seq)

Top == steps[Len(steps)]
Below == SubSeq(steps, 1, Len(steps) - 1)

\* The targets of a rule, pushed so that the first one is on top.
\* A bug: the last one is.
EnterAllForward(targets) == [i \in 1..Len(targets) |-> Enter(targets[i])]
EnterAll(targets) == [i \in 1..Len(targets) |-> Enter(targets[Len(targets) + 1 - i])]

NextRoot == /\ steps = <<>>
            /\ todo # <<>>
            /\ steps' = <<Enter(Head(todo))>>
            /\ todo' = Tail(todo)
            /\ UNCHANGED <<lead, colour, order>>

EnterSeen == /\ steps # <<>>
             /\ Top.op = "Enter"
             /\ colour[Top.name] # 0
             /\ steps' = Below
             /\ UNCHANGED <<lead, todo, colour, order>>

Mark(c, next) == /\ steps # <<>>
                 /\ Top.op = "Enter"
                 /\ colour[Top.name] = 0
                 /\ colour' = [colour EXCEPT ![Top.name] = c]
                 /\ steps' = next
                 /\ UNCHANGED <<lead, todo, order>>

\* Bugs: entering counts as done; the rule is left before its targets.
EnterDone   == Mark(2, Append(Below, Exit(Top.name)) \o EnterAll(lead[Top.name]))
EnterBefore == Mark(1, Append(Below \o EnterAll(lead[Top.name]), Exit(Top.name)))
EnterNew    == Mark(1, Append(Below, Exit(Top.name)) \o EnterAll(lead[Top.name]))

Leave == /\ steps # <<>>
         /\ Top.op = "Exit"
         /\ colour' = [colour EXCEPT ![Top.name] = 2]
         /\ order' = Append(order, Top.name)
         /\ steps' = Below
         /\ UNCHANGED <<lead, todo>>

SortNext == NextRoot \/ EnterSeen \/ EnterNew \/ Leave

Sorted == todo = <<>> /\ steps = <<>>

\* A sequential function runs until it returns.
SortSpec == SortInit /\ [][SortNext]_sortVars /\ WF_sortVars(SortNext)

-----------------------------------------------------------------------------
Ordered(n) == \E i \in 1..Len(order) : order[i] = n

(* A rule stands in the order exactly once, and exactly when the search is *)
(* done with it; when the search is over every rule does.                  *)
(* topo_order_for_paull drops no production and repeats none, though its   *)
(* stack holds a rule once per reference to it.                            *)
OrderIsDoneRules ==
    /\ \A n \in Names : colour[n] = 2 <=> Ordered(n)
    /\ \A i, k \in 1..Len(order) : order[i] = order[k] => i = k
    /\ Sorted => \A n \in Names : Ordered(n)

(* Each rule follows every rule it begins with, unless the two can begin   *)
(* with each other: only the edges of a cycle may point forward, so the    *)
(* substitution finds a leading reference already rewritten.               *)
SortedButForCycles ==
    \A i \in 1..Len(order) : \A m \in LeadSet(lead, order[i]) :
       (\E k \in 1..(i - 1) : order[k] = m) \/ CanReach(lead, m, order[i])
=============================================================================
