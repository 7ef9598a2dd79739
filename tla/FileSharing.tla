----------------------------- MODULE FileSharing ----------------------------
(***************************************************************************)
(* One file among the edge nodes, S3 and the clients that download and     *)
(* delete it.  A download that misses the local cache floods a lookup over *)
(* the neighbours, takes the file from one that answers, and from S3 when  *)
(* its timer expires; a deletion removes the file here and in S3, and      *)
(* floods a notification.                                                  *)
(*                                                                         *)
(* Each handler of a message is one step; a download and a deletion are    *)
(* several, between which other requests run.  How a file is copied is the *)
(* subject of StreamRedirection and EdgeCache: here a copy is made whole   *)
(* or not at all, and the cache may also not keep it.  Neighbours and      *)
(* their filters come and go in PeerNetwork: here the neighbours are       *)
(* fixed, and filters change.                                              *)
(***************************************************************************)
EXTENDS Integers, FiniteSets

CONSTANTS
    Peers,          \* edge nodes
    Nobody,         \* the forwarder of a deletion of the node's own client
    S3,
    Downloads,      \* requests to download the file
    Deletions,      \* requests to delete it
    Edge,           \* the edge node each request is sent to
    Id,             \* its request id: two requests may have the same
    Neighbours,     \* of each edge node
    RequestTTL,     \* REQUEST_TTL
    MaxContactable, \* MAX_CONTACTABLE_ADJ
    MaxCopies,      \* bound on the nodes that have the file at first
    MaxFaults       \* bound on faults, wrong filters and expiries of records

Requests == Downloads \cup Deletions

ASSUME NamesAssumption ==
    /\ Nobody \notin Peers /\ S3 \notin Peers \cup {Nobody}
    /\ Downloads \cap Deletions = {} /\ IsFiniteSet(Peers)
ASSUME RequestsAssumption ==
    /\ Edge \in [Requests -> Peers] /\ DOMAIN Id = Requests
    /\ Neighbours \in [Peers -> SUBSET Peers]
(* Registry and PeerNetwork show that no node is its own neighbour. *)
ASSUME NeighboursAssumption == \A p \in Peers : p \notin Neighbours[p]
(* The loop of peer.go:235 ends at MaxContactable only if that is not 0.   *)
ASSUME NumbersAssumption ==
    /\ RequestTTL \in Nat \ {0} /\ MaxContactable \in Nat \ {0}
    /\ MaxCopies \in Nat /\ MaxFaults \in Nat

Ids == {Id[r] : r \in Requests}
Keys == Ids \X (Peers \cup {Nobody})

VARIABLES
    up,         \* nodes that are running
    doomed,     \* nodes with a goroutine that is about to panic
    cached,     \* nodes that have the file in their cache
    inS3,       \* the file is in S3
    yes, no,    \* neighbours by whether their filters have the file: filterMap
    fresh,      \* keys of requestMap
    expired,    \* those older than REQUEST_CACHE_TTL
    pc,         \* where each request is
    source,     \* where a download takes, or took, the file from, Nobody: its
                \* own cache
    file,       \* what a download has left in the files of its client
    lookups,    \* calls of FileLookup that are not handled yet
    answers,    \* answers that are in the network or in callbackChannel
    notices,    \* calls of DeleteFile that are not handled yet
    faults,
    acted,      \* history: lookups of each id a node did not ignore
    lapsed      \* history: records of the node have expired

nodeVars == <<up, doomed>>
filterVars == <<yes, no>>
recordVars == <<fresh, expired>>
requestVars == <<pc, source, file>>
messageVars == <<lookups, answers, notices>>
historyVars == <<acted, lapsed>>
vars == <<nodeVars, cached, inS3, filterVars, recordVars, requestVars, messageVars,
          faults, historyVars>>

(* A download waits for answers, asks a source and copies from it; a       *)
(* deletion has removed the file here, found it in S3, removed it there.   *)
Stages == {"new", "waiting", "asking", "copying", "local", "found", "s3", "ok", "failed"}

(* The client's file is what it was before, is being written, is left half *)
(* written, is the whole one or one with a wrong chunk, or is removed.     *)
FileStates == {"old", "part", "left", "whole", "garbled", "none"}

Lookups == Downloads \X (0..RequestTTL) \X Peers \X Peers

TypeOK ==
    /\ up \subseteq Peers /\ doomed \subseteq up
    /\ cached \subseteq up /\ inS3 \in BOOLEAN
    /\ yes \in [Peers -> SUBSET Peers] /\ no \in [Peers -> SUBSET Peers]
    /\ \A p \in Peers :
        yes[p] \cap no[p] = {} /\ yes[p] \cup no[p] \subseteq Neighbours[p]
    /\ fresh \in [Peers -> SUBSET Keys] /\ expired \in [Peers -> SUBSET Keys]
    /\ \A p \in Peers : fresh[p] \cap expired[p] = {}
    /\ pc \in [Requests -> Stages]
    /\ source \in [Downloads -> Peers \cup {S3, Nobody}]
    /\ file \in [Downloads -> FileStates]
    /\ lookups \subseteq Lookups
    /\ \A m \in lookups : m[2] > 0 /\ m[3] # m[4] /\ m[4] \in up
    /\ answers \subseteq Downloads \X Peers
    /\ notices \subseteq Deletions \X Peers \X Peers
    /\ faults \in 0..MaxFaults
    /\ acted \in [Peers -> [Ids -> 0..3]]
    /\ lapsed \subseteq Peers

Init ==
    /\ up = Peers /\ doomed = {}
    /\ cached \in {C \in SUBSET Peers : Cardinality(C) <= MaxCopies}
    /\ inS3 \in BOOLEAN
    /\ yes = [p \in Peers |-> {}] /\ no = [p \in Peers |-> {}]
    /\ fresh = [p \in Peers |-> {}] /\ expired = [p \in Peers |-> {}]
    /\ pc = [r \in Requests |-> "new"]
    /\ source = [r \in Downloads |-> Nobody]
    /\ file = [r \in Downloads |-> "old"]
    /\ lookups = {} /\ answers = {} /\ notices = {}
    /\ faults = 0
    /\ acted = [p \in Peers |-> [i \in Ids |-> 0]]
    /\ lapsed = {}

-----------------------------------------------------------------------------
Fault == faults < MaxFaults /\ faults' = faults + 1

Goes(r, stage) == pc' = [pc EXCEPT ![r] = stage]

(* The client has given up, by an error of its own, and the edge node goes *)
(* on with the request.                                                    *)
ClientGone(r) == pc[r] # "new" /\ file[r] \in {"old", "left"}

(* The client's call ends with an error: it removes the file it opened for *)
(* writing, whatever that was before.  Only an error of the call does so,  *)
(* not one of the client's own.  Variant: it leaves the file.              *)
LeavesFile(r) == file
RemovesFile(r) == [file EXCEPT ![r] = IF ClientGone(r) THEN @ ELSE "none"]

(* What r was copied from is of no use when it fails, or waits again. *)
NoSource(r) == source' = [source EXCEPT ![r] = Nobody]

Fails(r) == Goes(r, "failed") /\ NoSource(r) /\ file' = RemovesFile(r)

(* A copy from elsewhere fails because the source does, or in the stream   *)
(* to the client, of which the cache may have every chunk by then.         *)
MayKeepCopy(r) ==
    \/ UNCHANGED cached
    \/ source[r] # Nobody /\ cached' = cached \cup {Edge[r]}
StreamFails(r) ==
    /\ pc[r] = "copying"
    /\ Fault \/ (ClientGone(r) /\ UNCHANGED faults)
    /\ MayKeepCopy(r)

(* Nobody reads the answers to r any more, though its lookup server is     *)
(* never closed.                                                           *)
DropAnswers(r) == answers' = {a \in answers : a[1] # r}
ReadsAnswers(r) == pc[r] \in {"waiting", "asking", "copying"} /\ source[r] # S3

(* AddRequestInCache. *)
AddRequest(p, key) ==
    /\ fresh' = [fresh EXCEPT ![p] = @ \cup {key}]
    /\ expired' = [expired EXCEPT ![p] = @ \ {key}]

(* The request is already served if there is a record of its id, whoever   *)
(* forwarded it.  Variant: of its key.                                     *)
HasKey(p, key) == key \in fresh[p]
AlreadyServed(p, key) == \E k \in fresh[p] : k[1] = key[1]

(* IsRequestAlreadyServed records the key, and then deletes every expired  *)
(* record: also the one it has just renewed.                               *)
Look(p, key) ==
    /\ fresh' = [fresh EXCEPT ![p] = (@ \cup {key}) \ expired[p]]
    /\ expired' = [expired EXCEPT ![p] = {}]
LookAndAdd(p, key) ==
    /\ fresh' = [fresh EXCEPT ![p] = @ \cup {key}]
    /\ expired' = [expired EXCEPT ![p] = {}]

(* The neighbours a lookup may be sent to: as many as MaxContactable of    *)
(* those whose filter says yes, the forwarder excepted; then some of the   *)
(* others, drawn at random.  A draw of the forwarder contacts nobody, and  *)
(* the number of draws falls with every neighbour that is contacted.       *)
Draws(rest, forwarderDrawn) == (rest + IF forwarderDrawn THEN 2 ELSE 1) \div 2

Least(m, n) == IF m < n THEN m ELSE n

Contacts(p, forwarder) ==
    LET positive == yes[p] \ {forwarder}
        rest == MaxContactable - Least(Cardinality(positive), MaxContactable)
    IN  {C \cup (D \ {forwarder}) :
            C \in {C \in SUBSET positive :
                     Cardinality(C) = Least(Cardinality(positive), MaxContactable)},
            D \in {D \in SUBSET no[p] :
                     Cardinality(D) = IF rest = 0 THEN 0
                                      ELSE Least(Cardinality(no[p]),
                                                 Draws(rest, forwarder \in D))}}

(* neighboursFileLookup: a call to a node that is gone is lost. *)
Forward(r, ttl, p, forwarder, others) ==
    \E C \in Contacts(p, forwarder) :
        lookups' = others \cup {<<r, ttl, p, q>> : q \in C \cap up}

-----------------------------------------------------------------------------
(* A download, at its edge node. *)

(* The client opens its file, the edge node looks at its cache. *)
Hit(r) ==
    /\ pc[r] = "new" /\ Edge[r] \in up \cap cached
    /\ Goes(r, "asking")
    /\ file' = [file EXCEPT ![r] = "part"]
    /\ UNCHANGED <<nodeVars, cached, inS3, filterVars, recordVars, source,
                   messageVars, faults, historyVars>>

Miss(r) ==
    LET p == Edge[r] IN
    /\ pc[r] = "new" /\ p \in up \ cached
    /\ Goes(r, "waiting")
    /\ file' = [file EXCEPT ![r] = "part"]
    /\ AddRequest(p, <<Id[r], p>>)
    /\ Forward(r, RequestTTL, p, p, lookups)
    /\ UNCHANGED <<nodeVars, cached, inS3, filterVars, source, answers, notices,
                   faults, historyVars>>

Unreachable(r) ==
    /\ pc[r] = "new" /\ Edge[r] \notin up
    /\ Fails(r)
    /\ UNCHANGED <<nodeVars, cached, inS3, filterVars, recordVars, messageVars,
                   faults, historyVars>>

(* An IOError of the client, at opening or at writing its file, which is   *)
(* no error of the call: what is in the file stays there.  The others that *)
(* it could raise do not occur: the for loop over the chunks takes         *)
(* StopIteration for its end, and the chunks of a call are numbered in     *)
(* sequence or from 0 again.                                               *)
ClientFails(r) ==
    /\ Fault
    /\ \/ pc[r] = "new" /\ Goes(r, "failed") /\ UNCHANGED file
       \/ /\ pc[r] \in {"waiting", "asking", "copying"} /\ file[r] = "part"
          /\ \E state \in {"old", "left"} : file' = [file EXCEPT ![r] = state]
          /\ UNCHANGED pc
    /\ UNCHANGED <<nodeVars, cached, inS3, filterVars, recordVars, source,
                   messageVars, historyVars>>

(* An answer is taken from the channel; a datagram may come twice. *)
TakeAnswer(r) ==
    /\ pc[r] = "waiting"
    /\ \E a \in answers :
        /\ a[1] = r
        /\ Goes(r, "asking")
        /\ source' = [source EXCEPT ![r] = a[2]]
        /\ \/ answers' = answers \ {a} /\ UNCHANGED faults
           \/ Fault /\ UNCHANGED answers
    /\ UNCHANGED <<nodeVars, cached, inS3, filterVars, recordVars, file,
                   lookups, notices, historyVars>>

(* Go's select may take the timer though there are answers. *)
TimerExpires(r) ==
    /\ pc[r] = "waiting"
    /\ Goes(r, "asking")
    /\ source' = [source EXCEPT ![r] = S3]
    /\ DropAnswers(r)
    /\ UNCHANGED <<nodeVars, cached, inS3, filterVars, recordVars, file,
                   lookups, notices, faults, historyVars>>

(* The source has the file. *)
HasFile(r) ==
    CASE source[r] = S3 -> inS3
      [] source[r] = Nobody -> Edge[r] \in cached
      [] OTHER -> source[r] \in cached

Open(r) ==
    /\ pc[r] = "asking" /\ HasFile(r)
    /\ Goes(r, "copying")
    /\ UNCHANGED <<nodeVars, cached, inS3, filterVars, recordVars, source, file,
                   messageVars, faults, historyVars>>

(* A read of the local cache or of S3 that fails ends the download. *)
ReadFails(r) ==
    /\ source[r] \in {Nobody, S3}
    /\ \/ pc[r] = "asking" /\ ~HasFile(r) /\ UNCHANGED <<cached, faults>>
       \/ pc[r] = "asking" /\ Fault /\ UNCHANGED cached
       \/ StreamFails(r)
    /\ Fails(r)
    /\ UNCHANGED <<nodeVars, inS3, filterVars, recordVars, messageVars, historyVars>>

(* After a failure of another edge node the download waits on, but the     *)
(* goroutine that copied sends on closed channels.  Only when the call     *)
(* itself failed does it return before.                                    *)
FetchFails(r) ==
    LET s == source[r] IN
    /\ s \in Peers
    /\ \/ pc[r] = "asking" /\ ~HasFile(r) /\ UNCHANGED <<cached, faults>>
       \/ pc[r] = "asking" /\ Fault /\ UNCHANGED cached
       \/ pc[r] = "copying" /\ s \notin up /\ UNCHANGED <<cached, faults>>
       \/ StreamFails(r)
    /\ \/ doomed' = doomed \cup {Edge[r]}
       \/ pc[r] = "asking" /\ s \notin up /\ UNCHANGED doomed
    /\ Goes(r, "waiting")
    /\ NoSource(r)
    /\ UNCHANGED <<up, inS3, filterVars, recordVars, file, messageVars, historyVars>>

(* Every chunk is sent; the cache may have kept a copy.  A read of the     *)
(* local cache shares one buffer among the chunks in its channel: one may  *)
(* be overwritten before it is sent.  A client that has given up does not  *)
(* learn of it.                                                            *)
Finish(r) ==
    /\ pc[r] = "copying"
    /\ \/ ClientGone(r) /\ Goes(r, "failed") /\ UNCHANGED file
       \/ /\ ~ClientGone(r) /\ Goes(r, "ok")
          /\ \E state \in {"whole"} \cup (IF source[r] = Nobody THEN {"garbled"} ELSE {}) :
                file' = [file EXCEPT ![r] = state]
    /\ MayKeepCopy(r)
    /\ DropAnswers(r)
    /\ UNCHANGED <<nodeVars, inS3, filterVars, recordVars, source, lookups, notices,
                   faults, historyVars>>

-----------------------------------------------------------------------------
(* A lookup, at another edge node. *)

Acts(p, i) == acted' = [acted EXCEPT ![p][i] = IF @ = 3 THEN 3 ELSE @ + 1]

(* A lookup goes on as long as its TTL is positive.  Variant: or 0. *)
GoesToZero(ttl) == ttl >= 0
GoesOn(ttl) == ttl > 0

FileLookup(m) ==
    LET r == m[1]
        p == m[4]
        ttl == m[2] - 1
        key == <<Id[r], m[3]>>
    IN  /\ m \in lookups
        /\ \/ /\ AlreadyServed(p, key)
              /\ Look(p, key)
              /\ lookups' = lookups \ {m}
              /\ UNCHANGED <<answers, acted, faults>>
           \/ /\ ~AlreadyServed(p, key) /\ p \in cached
              /\ LookAndAdd(p, key)
              /\ Acts(p, Id[r])
              /\ lookups' = lookups \ {m}
              /\ \/ /\ answers' = IF ReadsAnswers(r)
                                   THEN answers \cup {<<r, p>>} ELSE answers
                    /\ UNCHANGED faults
                 \/ Fault /\ UNCHANGED answers
           \/ /\ ~AlreadyServed(p, key) /\ p \notin cached /\ GoesOn(ttl)
              /\ LookAndAdd(p, key)
              /\ Acts(p, Id[r])
              /\ Forward(r, ttl, p, m[3], lookups \ {m})
              /\ UNCHANGED <<answers, faults>>
           \/ /\ ~AlreadyServed(p, key) /\ p \notin cached /\ ~GoesOn(ttl)
              /\ Look(p, key)
              /\ Acts(p, Id[r])
              /\ lookups' = lookups \ {m}
              /\ UNCHANGED <<answers, faults>>
        /\ UNCHANGED <<nodeVars, cached, inS3, filterVars, requestVars, notices,
                       lapsed>>

-----------------------------------------------------------------------------
(* A deletion. *)

(* RemoveFileFromCache.  Variant: the file stays. *)
StillCached(p) == cached
RemovedFromCache(p) == cached \ {p}

DeleteLocal(x) ==
    /\ pc[x] = "new" /\ Edge[x] \in up
    /\ cached' = RemovedFromCache(Edge[x])
    /\ Goes(x, "local")
    /\ UNCHANGED <<nodeVars, inS3, filterVars, recordVars, source, file,
                   messageVars, faults, historyVars>>

(* A file S3 does not know, and an error of S3, end the deletion: nobody   *)
(* is told of it.                                                          *)
HeadObject(x) ==
    /\ pc[x] = "local"
    /\ \/ inS3 /\ Goes(x, "found") /\ UNCHANGED faults
       \/ ~inS3 /\ Goes(x, "failed") /\ UNCHANGED faults
       \/ Goes(x, "failed") /\ Fault
    /\ UNCHANGED <<nodeVars, cached, inS3, filterVars, recordVars, source, file,
                   messageVars, historyVars>>

(* Another deletion may have come between, and S3 does not mind.  An error *)
(* may come after the object has gone: from DeleteObject, or from waiting  *)
(* until it does not exist.                                                *)
DeleteObject(x) ==
    /\ pc[x] = "found"
    /\ \/ inS3' = FALSE /\ Goes(x, "s3") /\ UNCHANGED faults
       \/ inS3' \in {inS3, FALSE} /\ Goes(x, "failed") /\ Fault
    /\ UNCHANGED <<nodeVars, cached, filterVars, recordVars, source, file,
                   messageVars, historyVars>>

(* notifyFileDeletion: to all neighbours whose filter says yes. *)
Notify(x, p, forwarder, others) ==
    /\ AddRequest(p, <<Id[x], forwarder>>)
    /\ notices' = others \cup {<<x, p, q>> : q \in (yes[p] \ {forwarder}) \cap up}

NotifyFileDeletion(x) ==
    /\ pc[x] = "s3"
    /\ Notify(x, Edge[x], Nobody, notices)
    /\ Goes(x, "ok")
    /\ UNCHANGED <<nodeVars, cached, inS3, filterVars, source, file, lookups,
                   answers, faults, historyVars>>

(* DeleteFile never asks whether it has served the notification. *)
DeleteFile(m) ==
    /\ m \in notices
    /\ cached' = RemovedFromCache(m[3])
    /\ Notify(m[1], m[3], m[2], notices \ {m})
    /\ UNCHANGED <<nodeVars, inS3, filterVars, requestVars, lookups, answers,
                   faults, historyVars>>

-----------------------------------------------------------------------------
(* filterMap of the running neighbours of p, with p or without it. *)
Updated(filters, p, with) ==
    LET told == {q \in up : p \in Neighbours[q]}
    IN  [q \in Peers |-> IF q \notin told THEN filters[q]
                         ELSE IF with THEN filters[q] \cup {p} ELSE filters[q] \ {p}]

(* A round of notifications: the neighbours of p get its filter, which is  *)
(* a stable Bloom filter and may be wrong.                                 *)
NotifyBloomFilters(p) ==
    /\ p \in up
    /\ \E positive \in BOOLEAN :
        /\ IF positive = (p \in cached) THEN UNCHANGED faults ELSE Fault
        /\ yes' = Updated(yes, p, positive)
        /\ no' = Updated(no, p, ~positive)
    /\ UNCHANGED <<nodeVars, cached, inS3, recordVars, requestVars, messageVars,
                   historyVars>>

(* REQUEST_CACHE_TTL has passed for the records. *)
Expire(p) ==
    /\ Fault
    /\ fresh[p] # {}
    /\ fresh' = [fresh EXCEPT ![p] = {}]
    /\ expired' = [expired EXCEPT ![p] = @ \cup fresh[p]]
    /\ acted' = [acted EXCEPT ![p] = [i \in DOMAIN @ |-> 0]]
    /\ lapsed' = lapsed \cup {p}
    /\ UNCHANGED <<nodeVars, cached, inS3, filterVars, requestVars,
                   messageVars>>

(* The process stops, by a panic or another fault, with all its requests   *)
(* and the calls to it.                                                    *)
Stop(p) ==
    LET lost == {r \in Requests :
                   Edge[r] = p /\ pc[r] \notin {"new", "ok", "failed"}} IN
    /\ p \in up
    /\ IF p \in doomed THEN UNCHANGED faults ELSE Fault
    /\ up' = up \ {p} /\ doomed' = doomed \ {p} /\ cached' = cached \ {p}
    /\ yes' = [yes EXCEPT ![p] = {}] /\ no' = [no EXCEPT ![p] = {}]
    /\ fresh' = [fresh EXCEPT ![p] = {}] /\ expired' = [expired EXCEPT ![p] = {}]
    /\ pc' = [r \in Requests |-> IF r \in lost THEN "failed" ELSE pc[r]]
    /\ file' = [r \in Downloads |-> IF r \in lost THEN RemovesFile(r)[r] ELSE file[r]]
    /\ lookups' = {m \in lookups : m[4] # p}
    /\ notices' = {m \in notices : m[3] # p}
    /\ answers' = {a \in answers : a[1] \notin lost}
    /\ source' = [r \in Downloads |-> IF r \in lost THEN Nobody ELSE source[r]]
    /\ UNCHANGED <<inS3, historyVars>>

-----------------------------------------------------------------------------
DownloadStep(r) ==
    \/ Hit(r) \/ Miss(r) \/ Unreachable(r) \/ TakeAnswer(r) \/ TimerExpires(r)
    \/ Open(r) \/ ReadFails(r) \/ FetchFails(r) \/ Finish(r)
DeletionStep(x) ==
    DeleteLocal(x) \/ HeadObject(x) \/ DeleteObject(x) \/ NotifyFileDeletion(x)

Next ==
    \/ \E r \in Downloads : DownloadStep(r) \/ ClientFails(r)
    \/ \E m \in lookups : FileLookup(m)
    \/ \E x \in Deletions : DeletionStep(x)
    \/ \E m \in notices : DeleteFile(m)
    \/ \E p \in Peers : NotifyBloomFilters(p) \/ Expire(p) \/ Stop(p)

Spec == Init /\ [][Next]_vars

(* Requests that have begun go on, calls are handled, and filters are sent *)
(* again and again.  Nobody has to begin a request.  Each of these steps   *)
(* changes the variables it is fair for, but for a filter that has not     *)
(* changed and is sent again.                                              *)
Fairness ==
    /\ \A r \in Downloads : WF_pc(pc[r] # "new" /\ DownloadStep(r))
    /\ WF_pc(\E x \in Deletions : pc[x] # "new" /\ DeletionStep(x))
    /\ WF_messageVars((\E m \in lookups : FileLookup(m)) \/ \E m \in notices : DeleteFile(m))
    /\ WF_filterVars(\E p \in Peers : NotifyBloomFilters(p))
    /\ WF_up(\E p \in doomed : Stop(p))

FairSpec == Spec /\ Fairness

-----------------------------------------------------------------------------
(* Properties. *)

(* A node answers or forwards a request once, by whatever paths and from   *)
(* whichever neighbours its copies come: "Se la richiesta è già stata      *)
(* servita una volta, la ignoriamo" (peer_services.go:100).  The count     *)
(* starts again when records expire, and it may then come to two: the      *)
(* record that IsRequestAlreadyServed renews is deleted with the expired   *)
(* ones (file_request_cache.go:66).                                        *)
ActsOnce ==
    \A p \in Peers : \A i \in DOMAIN acted[p] :
        acted[p][i] <= IF p \in lapsed THEN 2 ELSE 1

(* The client whose call has ended has the whole file, but for the chunk   *)
(* that a read of the local cache may overwrite ...                        *)
HasReceived(r) == file[r] = "whole" \/ (source[r] = Nobody /\ file[r] = "garbled")
(* ... and after an error none, unless it has failed itself.               *)
RemovedOrGone(r) == file[r] = "none" \/ ClientGone(r)

(* A download that has begun ends, whether answers are lost or late, other *)
(* nodes or the client fail, or have another request with the same id, and *)
(* the client then has the file, or nothing of it (doDownload,             *)
(* server_services.go:118, and downloadFile, Controller.py:82).            *)
DownloadsEnd ==
    \A r \in Downloads :
        pc[r] # "new" ~> \/ pc[r] = "ok" /\ HasReceived(r)
                         \/ pc[r] = "failed" /\ RemovedOrGone(r)

(* Lookups end, though records expire and the neighbours are in a cycle;   *)
(* and so do the notifications of a deletion, which DeleteFile forwards    *)
(* without asking whether it has seen them (peer_services.go:32), for they *)
(* take the file away from the filters they follow.                        *)
FloodsEnd == <>[](lookups = {} /\ notices = {})

-----------------------------------------------------------------------------
(* What makes TypeOK and ActsOnce inductive. *)

(* A request under way has its edge node running: its goroutines are lost  *)
(* with the node.                                                          *)
UnderWay(r) == pc[r] \notin {"new", "ok", "failed"}
ServedByRunning == \A r \in Requests : UnderWay(r) => Edge[r] \in up

(* What a download has left in the client's files: a part as long as it is *)
(* under way, and never after it has ended, unless the client failed.      *)
FilesAgree ==
    \A r \in Downloads :
        /\ pc[r] = "new" => file[r] = "old"
        /\ UnderWay(r) => file[r] = "part" \/ ClientGone(r)
        /\ pc[r] = "ok" => HasReceived(r)
        /\ pc[r] = "failed" => RemovedOrGone(r)

(* A running node that has acted on an id has a record of it, or has acted *)
(* once since its records expired, and has deleted the record it renewed   *)
(* with all the expired ones: it cannot delete another.                    *)
Recorded(p, i) == \E k \in fresh[p] : k[1] = i
ActsRecorded ==
    \A p \in Peers :
        /\ p \notin lapsed => expired[p] = {}
        /\ \A i \in DOMAIN acted[p] :
            p \in up /\ acted[p][i] > 0 =>
                \/ Recorded(p, i)
                \/ p \in lapsed /\ acted[p][i] = 1 /\ expired[p] = {}

(* A node acts on a lookup as often as its records allow, whatever path    *)
(* the copies take (IsRequestAlreadyServed, file_request_cache.go:47), and *)
(* a call that fails, whichever node stops, leaves no part of a file with  *)
(* a client that did not fail itself (downloadFile removes it,             *)
(* Controller.py:90).                                                      *)
SharingInv == TypeOK /\ ServedByRunning /\ FilesAgree /\ ActsRecorded /\ ActsOnce
=============================================================================
