----------------------------- MODULE PeerGraph ------------------------------
(***************************************************************************)
(* The graph the registry builds of the overlay network (registry/         *)
(* services/graph.go): nodes are the keys of the Go map, next[p] the keys  *)
(* of the map it holds for p.                                              *)
(***************************************************************************)
EXTENDS Integers, Sequences, FiniteSets

(* The third loop of buildGraph makes the links undirected: of a link      *)
(* either end may have reported it.                                        *)
Undirected(nodes, next) ==
    [p \in DOMAIN next |-> IF p \in nodes THEN next[p] \cup {q \in nodes : p \in next[q]}
                                          ELSE {}]

(* Every set of peers that has p and, with a peer, its neighbours has q:   *)
(* there is a path from p to q.                                            *)
Closed(S, nodes, next) == \A r \in S : next[r] \cap nodes \subseteq S
Reaches(p, q, nodes, next) == \A S \in SUBSET nodes : p \in S /\ Closed(S, nodes, next) => q \in S

(* roots has one peer, and only one, of each connected component. *)
OneOfEach(roots, nodes, next) ==
    /\ \A p \in nodes : \E i \in DOMAIN roots : Reaches(roots[i], p, nodes, next)
    /\ \A i, j \in DOMAIN roots : i # j => ~Reaches(roots[i], roots[j], nodes, next)
=============================================================================
