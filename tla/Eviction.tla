------------------------------ MODULE Eviction ------------------------------
(***************************************************************************)
(* The choice of the files that chooseAndDeleteFiles (edge/cache/cache.go) *)
(* deletes to make room for a new one: a function of the sizes of the      *)
(* cached files, listed by increasing popularity, and of the space that    *)
(* is missing.                                                             *)
(***************************************************************************)
EXTENDS Integers, Sequences, FiniteSetsExt

(* Bytes taken by the files at the positions in S. *)
BytesOf(sizes, S) == MapThenSumSet(LAMBDA i : sizes[i], S)

(* The first loop walks the list from the least popular file and stops as  *)
(* soon as the files met so far add up to the space required, or at the    *)
(* end of the list.                                                        *)
EnoughPrefixes(sizes, required) ==
    {k \in 1..Len(sizes) : BytesOf(sizes, 1..k) >= required}

SelectedCount(sizes, required) ==
    IF EnoughPrefixes(sizes, required) = {}
    THEN Len(sizes)
    ELSE Min(EnoughPrefixes(sizes, required))

(* The second loop goes back over the selected files, `for index > 0`, and *)
(* keeps for deletion those without which the selection would be too       *)
(* small.  memoryCount stays the size of the whole selection throughout,   *)
(* and position 0 of the Go slice (1 here) is never visited.               *)
FilesToDelete(sizes, required) ==
    LET selected == SelectedCount(sizes, required)
    IN  {i \in DOMAIN sizes \ {1} :
            i <= selected /\ BytesOf(sizes, 1..selected) - sizes[i] < required}
=============================================================================
