--------------------------- MODULE MCPeerNetwork ----------------------------
(* Instances of PeerNetwork for TLC. *)
EXTENDS PeerNetwork

CONSTANTS p1, p2
=============================================================================
