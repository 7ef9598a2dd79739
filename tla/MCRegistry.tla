----------------------------- MODULE MCRegistry -----------------------------
(* Instances of Registry for TLC. *)
EXTENDS Registry, TLC

CONSTANTS p1, p2, p3

(* Peers differ only by their names. *)
PeerSymmetry == Permutations(Peers)
=============================================================================
