----------------------- MODULE MCConnectedComponents ------------------------
(* Instances of ConnectedComponents for TLC. *)
EXTENDS ConnectedComponents

CONSTANTS p1, p2, p3, p4
=============================================================================
