-------------------------- MODULE ComponentSearch ---------------------------
(***************************************************************************)
(* What the monitor of the registry counts on when it looks for a          *)
(* partition: a graph that stays as it is, and a search that, in one step, *)
(* finds one peer of each of its connected components, in any order.       *)
(* Registry takes that step for the search; ConnectedComponents is shown   *)
(* to implement it, one call of the recursion after the other.             *)
(***************************************************************************)
EXTENDS PeerGraph

CONSTANT Peers

VARIABLES
    nodes,      \* peers that have answered
    graph,      \* the neighbours of each
    found,      \* one peer of each component, <<>> before the search
    done
vars == <<nodes, graph, found, done>>

Init ==
    /\ nodes \subseteq Peers
    /\ graph \in [Peers -> SUBSET Peers]
    /\ \A p, q \in nodes : p \in graph[q] => q \in graph[p]
    /\ found = <<>> /\ done = FALSE

Find ==
    /\ ~done /\ done' = TRUE
    /\ found' \in Seq(nodes) /\ OneOfEach(found', nodes, graph)
    /\ UNCHANGED <<nodes, graph>>

Spec == Init /\ [][Find]_vars
=============================================================================
