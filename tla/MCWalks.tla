------------------------------- MODULE MCWalks -------------------------------
(* The two walks over the leading references, one after the other as       *)
(* eliminate_left_recursion_keeping makes them, the scan for cycles over   *)
(* the rules in the order the sort left them: on every graph of four rules *)
(* with at most two references out of each.                                *)
EXTENDS PaullOrder, LeadCycles, SequencesExt
CONSTANTS a, b, c, d
MCNames == {a, b, c, d}
Declared == <<a, b, c, d>>
BoundedLeads == { SelectSeq(Declared, LAMBDA n : n \in S) :
                    S \in { T \in SUBSET MCNames : Cardinality(T) <= 2 } }

walkVars == <<sortVars, scanVars>>

MCInit == \E g \in [MCNames -> BoundedLeads] : StartSort(g, Declared) /\ StartScan(g, <<>>)
BeginScan == /\ Sorted /\ roots = <<>> /\ index = 0
             /\ roots' = order
             /\ UNCHANGED <<sortVars, frames, stack, index, indices, lowlinks, cyclic>>
MCNext == \/ SortNext /\ UNCHANGED <<roots, frames, stack, index, indices, lowlinks, cyclic>>
          \/ BeginScan
          \/ ScanNext /\ UNCHANGED <<todo, steps, colour, order>>
MCSpec == MCInit /\ [][MCNext]_walkVars /\ WF_walkVars(MCNext)

\* The recursive walk the explicit stack stands for: visit the rules of
\* seq, one after the other, each after what it begins with.
RECURSIVE Visited(_, _, _)
Visited(g, seq, out) ==
    IF seq = <<>> THEN out
    ELSE LET n == Head(seq)
         IN  IF n \in out.seen THEN Visited(g, Tail(seq), out)
             ELSE LET sub == Visited(g, g[n], [out EXCEPT !.seen = @ \cup {n}])
                  IN  Visited(g, Tail(seq), [sub EXCEPT !.post = Append(@, n)])

(* The search ends, whatever the graph, with the order of the recursion:   *)
(* "Exit is what the recursive call did after its children returned, so    *)
(* the post-order is unchanged" (the comment on topo_order_for_paull).     *)
SameAsRecursive ==
    <>[](Sorted /\ order = Visited(lead, Declared, [seen |-> {}, post |-> <<>>]).post)
=============================================================================
