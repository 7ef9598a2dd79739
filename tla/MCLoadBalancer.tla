--------------------------- MODULE MCLoadBalancer ---------------------------
(* Instances of LoadBalancer for TLC. *)
EXTENDS LoadBalancer

CONSTANTS e1, e2, r1, r2, r3
=============================================================================
