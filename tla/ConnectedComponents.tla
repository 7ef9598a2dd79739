------------------------ MODULE ConnectedComponents -------------------------
(***************************************************************************)
(* FindConnectedComponents and its recursive search (registry/services/    *)
(* graph.go), one visit a step: path has the peers whose calls are on the  *)
(* stack.  Go visits the keys of a map in any order.  A call returns what  *)
(* the calls it makes return and nothing of its own, so every search       *)
(* returns no peer, and a component has the peer it was started from only: *)
(* roots is the result.                                                    *)
(***************************************************************************)
EXTENDS PeerGraph

CONSTANT Peers

ASSUME PeersAssumption == IsFiniteSet(Peers)

VARIABLES
    nodes,      \* peers that have answered
    links,      \* their neighbours
    pc,         \* "build", "visit" or "done"
    visited,    \* peers visitedMap says true of
    path,
    roots
vars == <<nodes, links, pc, visited, path, roots>>

TypeOK ==
    /\ nodes \subseteq Peers /\ links \in [Peers -> SUBSET Peers]
    /\ pc \in {"build", "visit", "done"}
    /\ visited \subseteq nodes
    /\ path \in Seq(nodes) /\ roots \in Seq(nodes)

(* Any peers have answered, with any neighbours. *)
Init ==
    /\ nodes \in SUBSET Peers
    /\ links \in {L \in [Peers -> SUBSET Peers] :
                     \A p \in Peers : p \notin L[p] /\ (p \notin nodes => L[p] = {})}
    /\ pc = "build"
    /\ visited = {} /\ path = <<>> /\ roots = <<>>

(* Variant of the graph that is searched: the links as they are reported.  *)
Reported == links
Graph == Undirected(nodes, links)

BuildGraph ==
    /\ pc = "build"
    /\ pc' = "visit"
    /\ links' = Graph
    /\ UNCHANGED <<nodes, visited, path, roots>>

Top == path[Len(path)]

(* The neighbours a call has still to visit: those of the graph that are   *)
(* not visited yet.  Variants: those that have no call on the stack, and   *)
(* those that need not be in the graph.                                    *)
NotOnStack == {q \in links[Top] \cap nodes : \A i \in DOMAIN path : path[i] # q}
NotInMap == links[Top] \ visited
ToVisit == (links[Top] \cap nodes) \ visited

StartComponent(p) ==
    /\ pc = "visit" /\ path = <<>> /\ p \in nodes \ visited
    /\ visited' = visited \cup {p}
    /\ path' = <<p>>
    /\ roots' = Append(roots, p)
    /\ UNCHANGED <<nodes, links, pc>>

VisitNeighbour(p) ==
    /\ pc = "visit" /\ path # <<>> /\ p \in ToVisit
    /\ visited' = visited \cup {p}
    /\ path' = Append(path, p)
    /\ UNCHANGED <<nodes, links, pc, roots>>

(* The call has seen all neighbours. *)
Return ==
    /\ pc = "visit" /\ path # <<>> /\ ToVisit = {}
    /\ path' = SubSeq(path, 1, Len(path) - 1)
    /\ UNCHANGED <<nodes, links, pc, visited, roots>>

ReturnComponents ==
    /\ pc = "visit" /\ path = <<>> /\ nodes \subseteq visited
    /\ pc' = "done"
    /\ UNCHANGED <<nodes, links, visited, path, roots>>

Next ==
    \/ BuildGraph
    \/ \E p \in Peers : StartComponent(p) \/ VisitNeighbour(p)
    \/ Return \/ ReturnComponents

Spec == Init /\ [][Next]_vars
FairSpec == Spec /\ WF_vars(Next)

(* The search finds one peer of each connected component of the graph, and *)
(* only one: what the monitor takes for a partition of the network is one. *)
OnePerComponent == pc = "done" => OneOfEach(roots, nodes, links)

(* Step by step it does what the registry counts on: the graph is, from    *)
(* the start, the undirected one of the reported links, no step of the     *)
(* search changes it, and the result is there all at once.                 *)
Search == INSTANCE ComponentSearch
            WITH graph <- Undirected(nodes, links),
                 found <- IF pc = "done" THEN roots ELSE <<>>,
                 done <- pc = "done"
ImplementsSearch == Search!Spec

(* The search ends, whatever the cycles of the graph. *)
SearchEnds == <>(pc = "done")

(* It does because every step leaves fewer of them: a call visits a peer   *)
(* that nobody has visited, and returns once.                              *)
StepsLeft ==
    2 * Cardinality(nodes \ visited) + Len(path)
        + CASE pc = "build" -> 2 [] pc = "visit" -> 1 [] pc = "done" -> 0
SearchDescends == [][StepsLeft' \in 0..(StepsLeft - 1)]_vars

-----------------------------------------------------------------------------
(* What makes OnePerComponent inductive: while the graph is searched ...   *)
OnPath(p) == \E i \in DOMAIN path : path[i] = p

SearchInv ==
    /\ pc = "build" => visited = {} /\ path = <<>> /\ roots = <<>>
    (* ... links go both ways, *)
    /\ pc # "build" => \A p, q \in nodes : p \in links[q] => q \in links[p]
    (* a peer on the stack has been visited, as has the first of a search, *)
    /\ \A i \in DOMAIN path : path[i] \in visited
    /\ \A i \in DOMAIN roots : roots[i] \in visited
    (* a peer whose call has returned has only visited neighbours,         *)
    /\ \A p \in visited : ~OnPath(p) => links[p] \cap nodes \subseteq visited
    (* a visited peer has a path from the first of its search,             *)
    /\ \A p \in visited : \E i \in DOMAIN roots : Reaches(roots[i], p, nodes, links)
    (* which has none from the first of another one.                       *)
    /\ \A i, j \in DOMAIN roots : i # j => ~Reaches(roots[i], roots[j], nodes, links)
    /\ pc = "done" => path = <<>> /\ nodes \subseteq visited

Inv == TypeOK /\ SearchInv
=============================================================================
