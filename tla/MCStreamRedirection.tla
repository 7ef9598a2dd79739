------------------------ MODULE MCStreamRedirection -------------------------
(* Instances of StreamRedirection for TLC. *)
EXTENDS StreamRedirection
=============================================================================
