------------------------------ MODULE Transfer ------------------------------
(***************************************************************************)
(* What an edge node promises of one transfer of a file, whatever          *)
(* goroutines and channels it is made of: the sink, S3 for an upload and   *)
(* the client for a download, gets the chunks of the file one after the    *)
(* other; it accepts the file only when it has all of them; the handler    *)
(* reports success only for a file the sink has accepted; and the cache    *)
(* keeps a copy only if that is whole.  StreamRedirection is shown to      *)
(* implement it.                                                           *)
(***************************************************************************)
EXTENDS Naturals, Sequences

VARIABLES
    size,       \* chunks of the file
    ordered,    \* the source gives each chunk its own bytes
    delivered,  \* chunks the sink has got
    sink,       \* "open", "accepted", "refused"
    answer,     \* "none", "ok", "failed"
    stored,     \* chunks in the copy
    copy        \* "open", "kept", "dropped"

vars == <<size, ordered, delivered, sink, answer, stored, copy>>

Outcome(s) == IF s = "accepted" THEN "ok" ELSE "failed"

Init ==
    /\ size \in Nat /\ ordered \in BOOLEAN
    /\ delivered = <<>> /\ sink = "open" /\ answer = "none"
    /\ stored = <<>> /\ copy \in {"open", "dropped"}

(* The sink gets the next chunk. *)
Deliver ==
    /\ sink = "open"
    /\ Len(delivered) < size
    /\ \E c \in 1..size :
        /\ ordered => c = Len(delivered) + 1
        /\ delivered' = Append(delivered, c)
    /\ UNCHANGED <<size, ordered, sink, answer, stored, copy>>

(* It accepts the whole file, or refuses it at any time.  A download is    *)
(* answered in the same step.                                              *)
Settle ==
    /\ sink = "open"
    /\ \/ sink' = "accepted" /\ Len(delivered) = size
       \/ sink' = "refused"
    /\ answer' \in {answer, Outcome(sink')}
    /\ UNCHANGED <<size, ordered, delivered, stored, copy>>

(* An upload is answered afterwards, and may be reported as failed though  *)
(* S3 has accepted the file: its client could not be told of the success.  *)
Answer ==
    /\ sink # "open" /\ answer = "none"
    /\ answer' \in {Outcome(sink), "failed"}
    /\ UNCHANGED <<size, ordered, delivered, sink, stored, copy>>

(* The copy grows in order. *)
Store ==
    /\ copy = "open" /\ Len(stored) < size
    /\ stored' = Append(stored, Len(stored) + 1)
    /\ UNCHANGED <<size, ordered, delivered, sink, answer, copy>>

(* It is kept when it is whole, or dropped at any time, whatever becomes   *)
(* of the transfer.                                                        *)
Close ==
    /\ copy = "open"
    /\ \/ copy' = "kept" /\ Len(stored) = size
       \/ copy' = "dropped"
    /\ UNCHANGED <<size, ordered, delivered, sink, answer, stored>>

Next == Deliver \/ Settle \/ Answer \/ Store \/ Close

Spec == Init /\ [][Next]_vars
=============================================================================
