---------------------------- MODULE MCEdgeCache -----------------------------
(* Instances of EdgeCache for TLC. *)
EXTENDS EdgeCache

CONSTANTS f1, f2, f3, h1, h2, h3

(* Two goroutines serve requests for f1 that both insert it. *)
TwoInserters == [f \in Files |-> IF f = f1 THEN {h1, h2} ELSE {h1}]
(* Only one goroutine inserts. *)
OneInserter == [f \in Files |-> {h1}]

(* As many inodes for each file as its path and the goroutines can hold. *)
InodesPerFile == [f \in Files |-> CASE f = f1 -> 1..3 [] f = f2 -> 4..6 [] OTHER -> 7..9]

UnitSize == [f \in Files |-> 1]
(* f1, or f3, takes as much room as two of the others. *)
LargeFirst == [f \in Files |-> IF f = f1 THEN 2 ELSE 1]
LargeLast == [f \in Files |-> IF f = f3 THEN 2 ELSE 1]
=============================================================================
