---------------------------- MODULE MCFileSharing ---------------------------
(* Instances of FileSharing for TLC. *)
EXTENDS FileSharing

CONSTANTS p1, p2, p3, d1, d2, x1, i1

(* Every node is a neighbour of the others. *)
Complete == [p \in Peers |-> Peers \ {p}]
(* Each request goes to another node. *)
OneEach == [r \in Requests |-> CASE r = d1 -> p1 [] r = x1 -> p2 [] OTHER -> p3]
(* GetEdge gave all of them the same id. *)
SameId == [r \in Requests |-> i1]
=============================================================================
