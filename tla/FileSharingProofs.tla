------------------------- MODULE FileSharingProofs --------------------------
(***************************************************************************)
(* Proofs about FileSharing.                                               *)
(***************************************************************************)
EXTENDS FileSharing, FiniteSetTheorems, TLAPS

(* What a request and its messages are made of. *)
LEMMA Names ==
    /\ \A r \in Downloads : r \in Requests
    /\ \A x \in Deletions : x \in Requests
    /\ \A r \in Requests : Edge[r] \in Peers
    /\ \A r \in Requests : Id[r] \in Ids
    /\ \A r \in Requests : \A p \in Peers \cup {Nobody} : <<Id[r], p>> \in Keys
BY RequestsAssumption DEF Requests, Ids, Keys

(* A lookup goes to neighbours only, and never back to its forwarder. *)
LEMMA ContactsAreNeighbours ==
    ASSUME TypeOK, NEW p \in Peers, NEW forwarder, NEW C \in Contacts(p, forwarder)
    PROVE  /\ C \subseteq Neighbours[p]
           /\ forwarder \notin C
           /\ p \notin C
<1>1. C \subseteq yes[p] \cup no[p] /\ forwarder \notin C
  BY DEF Contacts
<1>2. yes[p] \cup no[p] \subseteq Neighbours[p]
  BY DEF TypeOK
<1> QED BY <1>1, <1>2, NeighboursAssumption

(* The lookups a node sends are well formed. *)
LEMMA ForwardType ==
    ASSUME TypeOK, NEW r \in Downloads, NEW ttl \in 1..RequestTTL, NEW p \in Peers,
           NEW forwarder, NEW others \in SUBSET lookups,
           Forward(r, ttl, p, forwarder, others)
    PROVE  /\ lookups' \subseteq Lookups
           /\ \A m \in lookups' : m[2] > 0 /\ m[3] # m[4] /\ m[4] \in up
<1>1. PICK C \in Contacts(p, forwarder) :
          lookups' = others \cup {<<r, ttl, p, q>> : q \in C \cap up}
  BY DEF Forward
<1>2. p \notin C
  BY ContactsAreNeighbours
<1>3. up \subseteq Peers /\ ttl \in 0..RequestTTL /\ ttl > 0
  BY NumbersAssumption DEF TypeOK
<1>4. \A q \in C \cap up : <<r, ttl, p, q>> \in Lookups /\ p # q
  BY <1>2, <1>3 DEF Lookups
<1>5. others \subseteq Lookups /\ \A m \in others : m[2] > 0 /\ m[3] # m[4] /\ m[4] \in up
  BY DEF TypeOK
<1>6. lookups' \subseteq Lookups
  BY <1>1, <1>4, <1>5
<1>7. ASSUME NEW m \in lookups'
      PROVE  m[2] > 0 /\ m[3] # m[4] /\ m[4] \in up
  <2>1. CASE m \in others
    BY <1>5, <2>1
  <2>2. ASSUME NEW q \in C \cap up, m = <<r, ttl, p, q>>
        PROVE  m[2] > 0 /\ m[3] # m[4] /\ m[4] \in up
    BY <1>3, <1>4, <2>2
  <2> QED BY <1>1, <2>1, <2>2
<1> QED BY <1>6, <1>7

(* The copy of the node's own cache is read. *)
LEMMA HitType ==
    ASSUME TypeOK, ServedByRunning, NEW r \in Downloads, Hit(r)
    PROVE  TypeOK' /\ ServedByRunning'
<1> USE Names DEF TypeOK, Hit, Goes
<1>1. pc' \in [Requests -> Stages]
  BY DEF Stages
<1>2. file' \in [Downloads -> FileStates]
  BY DEF FileStates
<1>3. TypeOK'
  BY <1>1, <1>2 DEF nodeVars, filterVars, recordVars, requestVars, messageVars, historyVars
<1>4. ServedByRunning'
  BY DEF ServedByRunning, UnderWay, nodeVars, requestVars
<1> QED BY <1>3, <1>4

(* The call of the client fails. *)
LEMMA UnreachableType ==
    ASSUME TypeOK, ServedByRunning, NEW r \in Downloads, Unreachable(r)
    PROVE  TypeOK' /\ ServedByRunning'
<1> USE Names DEF TypeOK, Unreachable, Goes, Fails, RemovesFile, NoSource
<1>1. pc' \in [Requests -> Stages]
  BY DEF Stages
<1>2. file' \in [Downloads -> FileStates]
  BY DEF FileStates
<1>3. TypeOK'
  BY <1>1, <1>2 DEF nodeVars, filterVars, recordVars, requestVars, messageVars, historyVars
<1>4. ServedByRunning'
  BY DEF ServedByRunning, UnderWay, nodeVars, requestVars
<1> QED BY <1>3, <1>4

(* The client fails. *)
LEMMA ClientFailsType ==
    ASSUME TypeOK, ServedByRunning, NEW r \in Downloads, ClientFails(r)
    PROVE  TypeOK' /\ ServedByRunning'
<1> USE Names DEF TypeOK, ClientFails, Goes
<1>1. pc' \in [Requests -> Stages]
  BY DEF Stages
<1>2. file' \in [Downloads -> FileStates]
  BY DEF FileStates
<1>3. faults' \in 0..MaxFaults
  BY NumbersAssumption DEF Fault
<1>4. TypeOK'
  BY <1>1, <1>2, <1>3 DEF nodeVars, filterVars, recordVars, requestVars, messageVars,
                          historyVars
<1>5. ServedByRunning'
  BY DEF ServedByRunning, UnderWay, nodeVars, requestVars
<1> QED BY <1>4, <1>5

(* The source is one of the nodes that answered. *)
LEMMA TakeAnswerType ==
    ASSUME TypeOK, ServedByRunning, NEW r \in Downloads, TakeAnswer(r)
    PROVE  TypeOK' /\ ServedByRunning'
<1> USE Names DEF TypeOK, TakeAnswer, Goes
<1>1. pc' \in [Requests -> Stages]
  BY DEF Stages
<1>2. answers' \subseteq answers
  OBVIOUS
<1>3. source' \in [Downloads -> Peers \cup {S3, Nobody}]
  OBVIOUS
<1>4. faults' \in 0..MaxFaults
  BY NumbersAssumption DEF Fault
<1>5. TypeOK'
  BY <1>1, <1>2, <1>3, <1>4 DEF nodeVars, filterVars, recordVars, requestVars,
                                messageVars, historyVars
<1>6. ServedByRunning'
  BY DEF ServedByRunning, UnderWay, nodeVars, requestVars
<1> QED BY <1>5, <1>6

(* The source is S3. *)
LEMMA TimerExpiresType ==
    ASSUME TypeOK, ServedByRunning, NEW r \in Downloads, TimerExpires(r)
    PROVE  TypeOK' /\ ServedByRunning'
<1> USE Names DEF TypeOK, TimerExpires, Goes
<1>1. pc' \in [Requests -> Stages]
  BY DEF Stages
<1>2. answers' \subseteq answers
  BY DEF DropAnswers
<1>3. source' \in [Downloads -> Peers \cup {S3, Nobody}]
  OBVIOUS
<1>4. TypeOK'
  BY <1>1, <1>2, <1>3 DEF nodeVars, filterVars, recordVars, requestVars, messageVars, historyVars
<1>5. ServedByRunning'
  BY DEF ServedByRunning, UnderWay, nodeVars, requestVars
<1> QED BY <1>4, <1>5

(* The source has the file. *)
LEMMA OpenType ==
    ASSUME TypeOK, ServedByRunning, NEW r \in Downloads, Open(r)
    PROVE  TypeOK' /\ ServedByRunning'
<1> USE Names DEF TypeOK, Open, Goes
<1>1. pc' \in [Requests -> Stages]
  BY DEF Stages
<1>2. TypeOK'
  BY <1>1 DEF nodeVars, filterVars, recordVars, requestVars, messageVars, historyVars
<1>3. ServedByRunning'
  BY DEF ServedByRunning, UnderWay, nodeVars, requestVars
<1> QED BY <1>2, <1>3

(* The node that may keep a copy is one that runs. *)
LEMMA StreamFailsType ==
    ASSUME TypeOK, ServedByRunning, NEW r \in Downloads,
           \/ StreamFails(r)
           \/ UNCHANGED cached /\ (Fault \/ UNCHANGED faults)
    PROVE  cached' \subseteq up /\ faults' \in 0..MaxFaults
<1>1. cached' \subseteq up
  BY Names DEF TypeOK, ServedByRunning, UnderWay, StreamFails, MayKeepCopy
<1>2. faults' \in 0..MaxFaults
  BY NumbersAssumption DEF TypeOK, StreamFails, Fault
<1> QED BY <1>1, <1>2

(* The download ends with an error. *)
LEMMA ReadFailsType ==
    ASSUME TypeOK, ServedByRunning, NEW r \in Downloads, ReadFails(r)
    PROVE  TypeOK' /\ ServedByRunning'
<1> USE Names DEF TypeOK, ReadFails, Goes, Fails, RemovesFile, NoSource
<1>1. pc' \in [Requests -> Stages]
  BY DEF Stages
<1>2. file' \in [Downloads -> FileStates]
  BY DEF FileStates
<1>3. cached' \subseteq up /\ faults' \in 0..MaxFaults
  BY StreamFailsType
<1>4. TypeOK'
  BY <1>1, <1>2, <1>3 DEF nodeVars, filterVars, recordVars, requestVars, messageVars, historyVars
<1>5. ServedByRunning'
  BY DEF ServedByRunning, UnderWay, nodeVars, requestVars
<1> QED BY <1>4, <1>5

(* The node whose goroutine is to panic is one that runs. *)
LEMMA FetchFailsType ==
    ASSUME TypeOK, ServedByRunning, NEW r \in Downloads, FetchFails(r)
    PROVE  TypeOK' /\ ServedByRunning'
<1> USE Names DEF TypeOK, FetchFails, Goes, NoSource
<1>1. pc' \in [Requests -> Stages]
  BY DEF Stages
<1>2. cached' \subseteq up /\ faults' \in 0..MaxFaults
  BY StreamFailsType
<1>3. Edge[r] \in up
  BY DEF ServedByRunning, UnderWay, StreamFails
<1>4. doomed' \subseteq up
  BY <1>3
<1>5. TypeOK'
  BY <1>1, <1>2, <1>3, <1>4 DEF nodeVars, filterVars, recordVars, requestVars,
                                messageVars, historyVars
<1>6. ServedByRunning'
  BY <1>3 DEF ServedByRunning, UnderWay
<1> QED BY <1>5, <1>6

(* The node that may keep a copy is one that runs. *)
LEMMA FinishType ==
    ASSUME TypeOK, ServedByRunning, NEW r \in Downloads, Finish(r)
    PROVE  TypeOK' /\ ServedByRunning'
<1> USE Names DEF TypeOK, Finish, Goes
<1>1. pc' \in [Requests -> Stages]
  BY DEF Stages
<1>2. file' \in [Downloads -> FileStates]
  BY DEF FileStates
<1>3. cached' \subseteq up
  BY DEF ServedByRunning, UnderWay, MayKeepCopy
<1>4. answers' \subseteq answers
  BY DEF DropAnswers
<1>5. TypeOK'
  BY <1>1, <1>2, <1>3, <1>4 DEF nodeVars, filterVars, recordVars, requestVars,
                                messageVars, historyVars
<1>6. ServedByRunning'
  BY DEF ServedByRunning, UnderWay, nodeVars, requestVars
<1> QED BY <1>5, <1>6

(* The copy of the node's own cache is removed. *)
LEMMA DeleteLocalType ==
    ASSUME TypeOK, ServedByRunning, NEW x \in Deletions, DeleteLocal(x)
    PROVE  TypeOK' /\ ServedByRunning'
<1> USE Names DEF TypeOK, DeleteLocal, Goes
<1>1. pc' \in [Requests -> Stages]
  BY DEF Stages
<1>2. cached' \subseteq up
  BY DEF RemovedFromCache
<1>3. TypeOK'
  BY <1>1, <1>2 DEF nodeVars, filterVars, recordVars, requestVars, messageVars, historyVars
<1>4. ServedByRunning'
  BY DEF ServedByRunning, UnderWay, nodeVars, requestVars
<1> QED BY <1>3, <1>4

(* The object is found and removed, or the deletion ends. *)
LEMMA DeleteFromS3Type ==
    ASSUME TypeOK, ServedByRunning, NEW x \in Deletions, HeadObject(x) \/ DeleteObject(x)
    PROVE  TypeOK' /\ ServedByRunning'
<1> USE Names DEF TypeOK, HeadObject, DeleteObject, Goes
<1>1. pc' \in [Requests -> Stages]
  BY DEF Stages
<1>2. faults' \in 0..MaxFaults
  <2>1. Fault \/ UNCHANGED faults
    OBVIOUS
  <2> QED BY <2>1, NumbersAssumption DEF Fault
<1>3. inS3' \in BOOLEAN
  OBVIOUS
<1>4. TypeOK'
  BY <1>1, <1>2, <1>3 DEF nodeVars, filterVars, recordVars, requestVars, messageVars, historyVars
<1>5. ServedByRunning'
  BY DEF ServedByRunning, UnderWay, nodeVars, requestVars
<1> QED BY <1>4, <1>5

-----------------------------------------------------------------------------
(* The steps that change the records of a node. *)

(* A record is fresh or expired, and has a key of a request. *)
RecordsOK ==
    /\ fresh \in [Peers -> SUBSET Keys] /\ expired \in [Peers -> SUBSET Keys]
    /\ \A p \in Peers : fresh[p] \cap expired[p] = {}

LEMMA RecordsType ==
    ASSUME TypeOK, NEW p \in Peers, NEW key \in Keys,
           AddRequest(p, key) \/ Look(p, key) \/ LookAndAdd(p, key)
    PROVE  RecordsOK'
<1>1. CASE AddRequest(p, key)
  BY <1>1 DEF TypeOK, RecordsOK, AddRequest
<1>2. CASE Look(p, key)
  BY <1>2 DEF TypeOK, RecordsOK, Look
<1>3. CASE LookAndAdd(p, key)
  BY <1>3 DEF TypeOK, RecordsOK, LookAndAdd
<1> QED BY <1>1, <1>2, <1>3

(* A count of acts stays a count. *)
LEMMA ActsType ==
    ASSUME TypeOK, NEW p \in Peers, NEW i \in Ids,
           Acts(p, i) \/ acted' = acted
    PROVE  acted' \in [Peers -> [Ids -> 0..3]]
<1>1. CASE Acts(p, i)
  <2> DEFINE row == [acted[p] EXCEPT ![i] = IF @ = 3 THEN 3 ELSE @ + 1]
  <2>1. acted[p] \in [Ids -> 0..3]
    BY DEF TypeOK
  <2>2. row \in [Ids -> 0..3]
    BY <2>1
  <2>3. acted' = [acted EXCEPT ![p] = row]
    BY <1>1 DEF Acts
  <2> QED BY <2>2, <2>3 DEF TypeOK
<1>2. CASE acted' = acted
  BY <1>2 DEF TypeOK
<1> QED BY <1>1, <1>2

(* The lookup of a node that misses goes to its neighbours. *)
LEMMA MissType ==
    ASSUME TypeOK, ServedByRunning, NEW r \in Downloads, Miss(r)
    PROVE  TypeOK' /\ ServedByRunning'
<1> DEFINE p == Edge[r]
<1>1. p \in Peers /\ <<Id[r], p>> \in Keys /\ p \in up
  BY Names DEF Miss
<1>2. RecordsOK'
  BY <1>1, RecordsType DEF Miss
<1>3. /\ lookups' \subseteq Lookups
      /\ \A m \in lookups' : m[2] > 0 /\ m[3] # m[4] /\ m[4] \in up
  BY <1>1, ForwardType, NumbersAssumption DEF Miss
<1>4. /\ pc' \in [Requests -> Stages]
      /\ file' \in [Downloads -> FileStates]
  BY Names DEF TypeOK, Miss, Goes, Stages, FileStates
<1>5. UNCHANGED <<up, doomed, cached, inS3, yes, no, source, answers, notices, faults,
                  acted, lapsed>>
  BY DEF Miss, nodeVars, filterVars, historyVars
<1>6. TypeOK'
  BY <1>2, <1>3, <1>4, <1>5 DEF TypeOK, RecordsOK
<1>7. ServedByRunning'
  BY <1>1, <1>5, Names DEF TypeOK, Miss, Goes, ServedByRunning, UnderWay
<1> QED BY <1>6, <1>7

(* A node that gets a lookup ignores it, answers it, forwards it or drops  *)
(* it.                                                                     *)
LEMMA FileLookupType ==
    ASSUME TypeOK, ServedByRunning, NEW m \in lookups, FileLookup(m)
    PROVE  TypeOK' /\ ServedByRunning'
<1> DEFINE r == m[1]
           p == m[4]
           ttl == m[2] - 1
           key == <<Id[r], m[3]>>
<1>1. /\ r \in Downloads /\ r \in Requests /\ p \in Peers /\ key \in Keys
      /\ m[2] \in 1..RequestTTL
  BY Names, NumbersAssumption DEF TypeOK, Lookups
<1>2. Look(p, key) \/ LookAndAdd(p, key)
  BY DEF FileLookup
<1>3. RecordsOK'
  BY <1>1, <1>2, RecordsType
<1>4. Acts(p, Id[r]) \/ acted' = acted
  BY DEF FileLookup
<1>5. acted' \in [Peers -> [Ids -> 0..3]]
  BY <1>1, <1>4, Names, ActsType
<1>6. lookups' = lookups \ {m} \/ (GoesOn(ttl) /\ Forward(r, ttl, p, m[3], lookups \ {m}))
  BY DEF FileLookup
<1>7. /\ lookups' \subseteq Lookups
      /\ \A n \in lookups' : n[2] > 0 /\ n[3] # n[4] /\ n[4] \in up
  <2>1. CASE lookups' = lookups \ {m}
    BY <2>1 DEF TypeOK
  <2>2. CASE GoesOn(ttl) /\ Forward(r, ttl, p, m[3], lookups \ {m})
    <3>1. ttl \in 1..RequestTTL
      BY <1>1, <2>2, NumbersAssumption DEF GoesOn
    <3> QED BY <1>1, <2>2, <3>1, ForwardType
  <2> QED BY <1>6, <2>1, <2>2
<1>8. answers' \subseteq Downloads \X Peers
  BY <1>1 DEF FileLookup, TypeOK
<1>9. faults' \in 0..MaxFaults
  BY NumbersAssumption DEF FileLookup, TypeOK, Fault
<1>10. UNCHANGED <<up, doomed, cached, inS3, yes, no, pc, source, file, notices, lapsed>>
  BY DEF FileLookup, nodeVars, filterVars, requestVars
<1>11. TypeOK'
  BY <1>3, <1>5, <1>7, <1>8, <1>9, <1>10 DEF TypeOK, RecordsOK
<1>12. ServedByRunning'
  BY <1>10 DEF ServedByRunning, UnderWay
<1> QED BY <1>11, <1>12

(* The notification of a deletion is recorded and goes to other nodes. *)
LEMMA NotifyType ==
    ASSUME TypeOK, NEW x \in Deletions, NEW p \in Peers,
           NEW forwarder \in Peers \cup {Nobody}, NEW others \in SUBSET notices,
           Notify(x, p, forwarder, others)
    PROVE  RecordsOK' /\ notices' \subseteq Deletions \X Peers \X Peers
<1>1. <<Id[x], forwarder>> \in Keys
  BY Names
<1>2. RecordsOK'
  BY <1>1, RecordsType DEF Notify
<1>3. notices' \subseteq Deletions \X Peers \X Peers
  BY DEF Notify, TypeOK
<1> QED BY <1>2, <1>3

(* The edge node of a deletion tells its neighbours. *)
LEMMA NotifyFileDeletionType ==
    ASSUME TypeOK, ServedByRunning, NEW x \in Deletions, NotifyFileDeletion(x)
    PROVE  TypeOK' /\ ServedByRunning'
<1>1. RecordsOK' /\ notices' \subseteq Deletions \X Peers \X Peers
  BY Names, NotifyType DEF NotifyFileDeletion
<1>2. pc' \in [Requests -> Stages]
  BY Names DEF NotifyFileDeletion, Goes, TypeOK, Stages
<1>3. UNCHANGED <<up, doomed, cached, inS3, yes, no, source, file, lookups, answers,
                  faults, acted, lapsed>>
  BY DEF NotifyFileDeletion, nodeVars, filterVars, historyVars
<1>4. TypeOK'
  BY <1>1, <1>2, <1>3 DEF TypeOK, RecordsOK
<1>5. ServedByRunning'
  BY <1>3, Names DEF TypeOK, NotifyFileDeletion, Goes, ServedByRunning, UnderWay
<1> QED BY <1>4, <1>5

(* A node that is told of a deletion tells others. *)
LEMMA DeleteFileType ==
    ASSUME TypeOK, ServedByRunning, NEW m \in notices, DeleteFile(m)
    PROVE  TypeOK' /\ ServedByRunning'
<1>1. m[1] \in Deletions /\ m[2] \in Peers /\ m[3] \in Peers
  BY DEF TypeOK
<1>2. RecordsOK' /\ notices' \subseteq Deletions \X Peers \X Peers
  BY <1>1, NotifyType DEF DeleteFile
<1>3. cached' \subseteq cached
  BY DEF DeleteFile, RemovedFromCache
<1>4. UNCHANGED <<up, doomed, inS3, yes, no, pc, source, file, lookups, answers,
                  faults, acted, lapsed>>
  BY DEF DeleteFile, nodeVars, filterVars, requestVars, historyVars
<1>5. TypeOK'
  BY <1>2, <1>3, <1>4 DEF TypeOK, RecordsOK
<1>6. ServedByRunning'
  BY <1>4 DEF ServedByRunning, UnderWay
<1> QED BY <1>5, <1>6

-----------------------------------------------------------------------------
(* The steps of a node. *)

(* A filter is known of neighbours only. *)
LEMMA NotifyBloomFiltersType ==
    ASSUME TypeOK, ServedByRunning, NEW p \in Peers, NotifyBloomFilters(p)
    PROVE  TypeOK' /\ ServedByRunning'
<1>1. PICK positive \in BOOLEAN : /\ yes' = Updated(yes, p, positive)
                                  /\ no' = Updated(no, p, ~positive)
  BY DEF NotifyBloomFilters
<1>2. yes' \in [Peers -> SUBSET Peers] /\ no' \in [Peers -> SUBSET Peers]
  BY <1>1 DEF Updated, TypeOK
<1>3. ASSUME NEW q \in Peers
      PROVE  yes'[q] \cap no'[q] = {} /\ yes'[q] \cup no'[q] \subseteq Neighbours[q]
  <2>1. CASE q \notin up \/ p \notin Neighbours[q]
    <3>1. yes'[q] = yes[q] /\ no'[q] = no[q]
      BY <1>1, <2>1 DEF Updated
    <3> QED BY <3>1 DEF TypeOK
  <2>2. CASE q \in up /\ p \in Neighbours[q] /\ positive
    <3>1. yes'[q] = yes[q] \cup {p} /\ no'[q] = no[q] \ {p}
      BY <1>1, <2>2 DEF Updated
    <3> QED BY <2>2, <3>1 DEF TypeOK
  <2>3. CASE q \in up /\ p \in Neighbours[q] /\ ~positive
    <3>1. yes'[q] = yes[q] \ {p} /\ no'[q] = no[q] \cup {p}
      BY <1>1, <2>3 DEF Updated
    <3> QED BY <2>3, <3>1 DEF TypeOK
  <2> QED BY <2>1, <2>2, <2>3
<1>4. faults' \in 0..MaxFaults
  BY NumbersAssumption DEF NotifyBloomFilters, TypeOK, Fault
<1>5. UNCHANGED <<up, doomed, cached, inS3, fresh, expired, pc, source, file, lookups,
                  answers, notices, acted, lapsed>>
  BY DEF NotifyBloomFilters, nodeVars, recordVars, requestVars, messageVars, historyVars
<1>6. TypeOK'
  BY <1>2, <1>3, <1>4, <1>5 DEF TypeOK
<1>7. ServedByRunning'
  BY <1>5 DEF ServedByRunning, UnderWay
<1> QED BY <1>6, <1>7

(* The records of a node expire together. *)
LEMMA ExpireType ==
    ASSUME TypeOK, ServedByRunning, NEW p \in Peers, Expire(p)
    PROVE  TypeOK' /\ ServedByRunning'
<1>1. RecordsOK'
  BY DEF Expire, TypeOK, RecordsOK
<1>2. acted' \in [Peers -> [Ids -> 0..3]]
  BY DEF Expire, TypeOK
<1>3. faults' \in 0..MaxFaults /\ lapsed' \subseteq Peers
  BY NumbersAssumption DEF Expire, TypeOK, Fault
<1>4. UNCHANGED <<up, doomed, cached, inS3, yes, no, pc, source, file, lookups, answers,
                  notices>>
  BY DEF Expire, nodeVars, filterVars, requestVars, messageVars
<1>5. TypeOK'
  BY <1>1, <1>2, <1>3, <1>4 DEF TypeOK, RecordsOK
<1>6. ServedByRunning'
  BY <1>4 DEF ServedByRunning, UnderWay
<1> QED BY <1>5, <1>6

(* All that a node had is lost with it. *)
LEMMA StopType ==
    ASSUME TypeOK, ServedByRunning, NEW p \in Peers, Stop(p)
    PROVE  TypeOK' /\ ServedByRunning'
<1> DEFINE lost == {r \in Requests : Edge[r] = p /\ pc[r] \notin {"new", "ok", "failed"}}
<1>1. /\ up' = up \ {p} /\ doomed' = doomed \ {p} /\ cached' = cached \ {p}
      /\ yes' = [yes EXCEPT ![p] = {}] /\ no' = [no EXCEPT ![p] = {}]
      /\ fresh' = [fresh EXCEPT ![p] = {}] /\ expired' = [expired EXCEPT ![p] = {}]
      /\ pc' = [r \in Requests |-> IF r \in lost THEN "failed" ELSE pc[r]]
      /\ file' = [r \in Downloads |-> IF r \in lost THEN RemovesFile(r)[r] ELSE file[r]]
      /\ lookups' = {m \in lookups : m[4] # p}
      /\ notices' = {m \in notices : m[3] # p}
      /\ answers' = {a \in answers : a[1] \notin lost}
      /\ source' = [r \in Downloads |-> IF r \in lost THEN Nobody ELSE source[r]]
      /\ UNCHANGED <<inS3, acted, lapsed>>
  BY DEF Stop, historyVars
<1>2. pc' \in [Requests -> Stages]
  BY <1>1 DEF TypeOK, Stages
<1>3. file' \in [Downloads -> FileStates]
  BY <1>1 DEF TypeOK, RemovesFile, FileStates
<1>4. faults' \in 0..MaxFaults
  BY NumbersAssumption DEF Stop, TypeOK, Fault
<1>5. RecordsOK'
  BY <1>1 DEF TypeOK, RecordsOK
<1>6. /\ yes' \in [Peers -> SUBSET Peers] /\ no' \in [Peers -> SUBSET Peers]
      /\ \A q \in Peers :
          yes'[q] \cap no'[q] = {} /\ yes'[q] \cup no'[q] \subseteq Neighbours[q]
  BY <1>1 DEF TypeOK
<1>7. /\ lookups' \subseteq Lookups
      /\ \A m \in lookups' : m[2] > 0 /\ m[3] # m[4] /\ m[4] \in up'
  <2>1. ASSUME NEW m \in lookups'
        PROVE  m \in Lookups /\ m[2] > 0 /\ m[3] # m[4] /\ m[4] \in up'
    BY <1>1 DEF TypeOK
  <2> QED BY <2>1
<1>8. TypeOK'
  BY <1>1, <1>2, <1>3, <1>4, <1>5, <1>6, <1>7 DEF TypeOK, RecordsOK
<1>9. ServedByRunning'
  BY <1>1 DEF ServedByRunning, UnderWay
<1> QED BY <1>8, <1>9

-----------------------------------------------------------------------------
(* How often a node acts. *)

(* Nothing changes when records are only added to, or the node stops. *)
LEMMA MoreRecords ==
    ASSUME TypeOK, ActsRecorded, ActsOnce, UNCHANGED <<acted, lapsed>>, up' \subseteq up,
           \A q \in Peers : /\ q \in up' => fresh[q] \subseteq fresh'[q]
                           /\ expired'[q] \subseteq expired[q]
    PROVE  ActsRecorded' /\ ActsOnce'
<1>1. ActsOnce'
  BY DEF ActsOnce
<1>2. ASSUME NEW q \in Peers, NEW i \in DOMAIN acted[q], q \in up', acted[q][i] > 0
      PROVE  \/ Recorded(q, i)'
             \/ q \in lapsed /\ acted[q][i] = 1 /\ expired'[q] = {}
  <2>1. \/ Recorded(q, i)
        \/ q \in lapsed /\ acted[q][i] = 1 /\ expired[q] = {}
    BY <1>2 DEF ActsRecorded
  <2>2. Recorded(q, i) => Recorded(q, i)'
    BY <1>2 DEF Recorded
  <2> QED BY <2>1, <2>2
<1>3. ASSUME NEW q \in Peers, q \notin lapsed
      PROVE  expired'[q] = {}
  BY <1>3 DEF ActsRecorded
<1> QED BY <1>1, <1>2, <1>3 DEF ActsRecorded

(* A node that starts or forwards a request adds a record. *)
LEMMA AddRequestActs ==
    ASSUME TypeOK, ActsRecorded, ActsOnce, UNCHANGED <<up, acted, lapsed>>,
           NEW p \in Peers, NEW key, AddRequest(p, key)
    PROVE  ActsRecorded' /\ ActsOnce'
<1>1. \A q \in Peers : fresh[q] \subseteq fresh'[q] /\ expired'[q] \subseteq expired[q]
  BY DEF AddRequest, TypeOK
<1> QED BY <1>1, MoreRecords

(* What looking at the records leaves: the fresh ones, and the new one     *)
(* unless it was expired and is not added again.                           *)
LEMMA AfterLook ==
    ASSUME TypeOK, NEW p \in Peers, NEW key, Look(p, key) \/ LookAndAdd(p, key)
    PROVE  /\ fresh[p] \subseteq fresh'[p]
           /\ expired'[p] = {}
           /\ key \in fresh'[p] \/ (Look(p, key) /\ key \in expired[p])
           /\ \A q \in Peers \ {p} : fresh'[q] = fresh[q] /\ expired'[q] = expired[q]
<1>1. CASE Look(p, key)
  BY <1>1 DEF Look, TypeOK
<1>2. CASE LookAndAdd(p, key)
  BY <1>2 DEF LookAndAdd, TypeOK
<1> QED BY <1>1, <1>2

(* A node ignores a lookup of which it has a record ... *)
LEMMA IgnoredActs ==
    ASSUME TypeOK, ActsRecorded, ActsOnce, UNCHANGED <<up, acted, lapsed>>,
           NEW p \in Peers, NEW key, Look(p, key)
    PROVE  ActsRecorded' /\ ActsOnce'
<1>1. \A q \in Peers : fresh[q] \subseteq fresh'[q] /\ expired'[q] \subseteq expired[q]
  BY AfterLook
<1> QED BY <1>1, MoreRecords

(* ... and acts on one of which it has none: it has not acted on the id,   *)
(* or once and has nothing expired left, so that now the record stays.     *)
LEMMA ServedActs ==
    ASSUME TypeOK, ActsRecorded, ActsOnce, UNCHANGED <<up, lapsed>>,
           NEW p \in up, NEW i \in Ids, NEW key, key[1] = i,
           ~AlreadyServed(p, key), Acts(p, i), Look(p, key) \/ LookAndAdd(p, key)
    PROVE  ActsRecorded' /\ ActsOnce'
<1>1. p \in Peers /\ acted \in [Peers -> [Ids -> 0..3]]
  BY DEF TypeOK
<1>2. ~Recorded(p, i)
  BY DEF AlreadyServed, Recorded
<1>3. acted[p][i] > 0 => p \in lapsed /\ acted[p][i] = 1 /\ expired[p] = {}
  BY <1>1, <1>2 DEF ActsRecorded
<1>4. acted[p][i] \in {0, 1}
  BY <1>1, <1>3
<1>5. acted' = [acted EXCEPT ![p] = [acted[p] EXCEPT ![i] = acted[p][i] + 1]]
  <2>1. acted' = [acted EXCEPT ![p] =
                    [acted[p] EXCEPT ![i] = IF acted[p][i] = 3 THEN 3 ELSE acted[p][i] + 1]]
    BY <1>1 DEF Acts
  <2>2. acted[p][i] # 3
    BY <1>4
  <2> QED BY <2>1, <2>2
<1>6. /\ acted'[p][i] = acted[p][i] + 1
      /\ \A j \in Ids \ {i} : acted'[p][j] = acted[p][j]
      /\ \A q \in Peers \ {p} : acted'[q] = acted[q]
      /\ \A q \in Peers : DOMAIN acted[q] = Ids /\ DOMAIN acted'[q] = Ids
  BY <1>1, <1>5
<1>7. acted'[p][i] <= IF p \in lapsed THEN 2 ELSE 1
  BY <1>3, <1>4, <1>6
<1>8. ActsOnce'
  BY <1>6, <1>7 DEF ActsOnce
<1>9. Recorded(p, i)' \/ (p \in lapsed /\ acted'[p][i] = 1 /\ expired'[p] = {})
  <2>1. CASE key \in fresh'[p]
    BY <2>1 DEF Recorded
  <2>2. CASE key \in expired[p]
    <3>1. p \in lapsed
      BY <1>1, <2>2 DEF ActsRecorded
    <3>2. acted[p][i] = 0
      BY <1>3, <1>4, <2>2
    <3> QED BY <1>1, <1>6, <3>1, <3>2, AfterLook
  <2> QED BY <1>1, <2>1, <2>2, AfterLook
<1>10. ASSUME NEW q \in Peers, NEW j \in Ids, q \in up, acted'[q][j] > 0,
              q # p \/ j # i
       PROVE  \/ Recorded(q, j)'
              \/ q \in lapsed /\ acted'[q][j] = 1 /\ expired'[q] = {}
  <2>1. acted'[q][j] = acted[q][j]
    BY <1>6, <1>10
  <2>2. \/ Recorded(q, j)
        \/ q \in lapsed /\ acted[q][j] = 1 /\ expired[q] = {}
    BY <1>6, <1>10, <2>1 DEF ActsRecorded
  <2>3. fresh[q] \subseteq fresh'[q] /\ (expired[q] = {} => expired'[q] = {})
    BY <1>1, AfterLook
  <2> QED BY <2>1, <2>2, <2>3 DEF Recorded
<1>11. \A q \in Peers : q \notin lapsed => expired'[q] = {}
  BY <1>1, AfterLook DEF ActsRecorded
<1>12. ActsRecorded'
  <2>1. ASSUME NEW q \in Peers, NEW j \in Ids, q \in up, acted'[q][j] > 0
        PROVE  \/ Recorded(q, j)'
               \/ q \in lapsed /\ acted'[q][j] = 1 /\ expired'[q] = {}
    BY <1>9, <1>10, <2>1
  <2> QED BY <1>6, <1>11, <2>1 DEF ActsRecorded
<1> QED BY <1>8, <1>12

LEMMA FileLookupActs ==
    ASSUME TypeOK, ActsRecorded, ActsOnce, NEW m \in lookups, FileLookup(m)
    PROVE  ActsRecorded' /\ ActsOnce'
<1> DEFINE p == m[4]
           i == Id[m[1]]
           key == <<i, m[3]>>
<1>1. p \in up /\ p \in Peers /\ i \in Ids /\ key[1] = i
  BY Names DEF TypeOK, Lookups
<1>2. UNCHANGED <<up, lapsed>>
  BY DEF FileLookup, nodeVars
<1>3. \/ Look(p, key) /\ UNCHANGED acted
      \/ /\ ~AlreadyServed(p, key) /\ Acts(p, i)
         /\ Look(p, key) \/ LookAndAdd(p, key)
  BY DEF FileLookup
<1> HIDE DEF p, i, key
<1>4. CASE Look(p, key) /\ UNCHANGED acted
  BY <1>1, <1>2, <1>4, IgnoredActs
<1>5. CASE /\ ~AlreadyServed(p, key) /\ Acts(p, i)
           /\ Look(p, key) \/ LookAndAdd(p, key)
  BY <1>1, <1>2, <1>5, ServedActs
<1> QED BY <1>3, <1>4, <1>5

(* Once the records have expired, a node may act again. *)
LEMMA ExpireActs ==
    ASSUME TypeOK, ActsRecorded, ActsOnce, NEW p \in Peers, Expire(p)
    PROVE  ActsRecorded' /\ ActsOnce'
<1>1. /\ acted' = [acted EXCEPT ![p] = [i \in DOMAIN acted[p] |-> 0]]
      /\ lapsed' = lapsed \cup {p}
      /\ up' = up
      /\ fresh' = [fresh EXCEPT ![p] = {}]
      /\ expired' = [expired EXCEPT ![p] = expired[p] \cup fresh[p]]
  BY DEF Expire, nodeVars, TypeOK
<1>2. /\ \A i \in DOMAIN acted'[p] : acted'[p][i] = 0
      /\ \A q \in Peers \ {p} : /\ acted'[q] = acted[q] /\ fresh'[q] = fresh[q]
                               /\ expired'[q] = expired[q]
                               /\ q \in lapsed' <=> q \in lapsed
  BY <1>1 DEF TypeOK
<1>3. ActsOnce'
  BY <1>1, <1>2 DEF ActsOnce
<1>4. ActsRecorded'
  BY <1>1, <1>2 DEF ActsRecorded, Recorded
<1> QED BY <1>3, <1>4

-----------------------------------------------------------------------------
(* What a download leaves in the client's files. *)

(* A deletion, and a step of a node that goes on, leave them alone. *)
LEMMA FilesKept ==
    ASSUME FilesAgree, UNCHANGED <<file, source>>, \A r \in Downloads : pc'[r] = pc[r]
    PROVE  FilesAgree'
BY DEF FilesAgree, UnderWay, HasReceived, RemovedOrGone, ClientGone

(* What is left of one download agrees with where it is. *)
FileAgrees(r) ==
    /\ pc[r] = "new" => file[r] = "old"
    /\ UnderWay(r) => file[r] = "part" \/ ClientGone(r)
    /\ pc[r] = "ok" => HasReceived(r)
    /\ pc[r] = "failed" => RemovedOrGone(r)

LEMMA OneFile ==
    ASSUME FilesAgree, NEW r \in Downloads, FileAgrees(r)',
           \A d \in Downloads \ {r} :
               pc'[d] = pc[d] /\ file'[d] = file[d] /\ source'[d] = source[d]
    PROVE  FilesAgree'
<1>1. ASSUME NEW d \in Downloads, d # r PROVE FileAgrees(d)'
  BY <1>1 DEF FilesAgree, FileAgrees, UnderWay, HasReceived, RemovedOrGone, ClientGone
<1> QED BY <1>1 DEF FilesAgree, FileAgrees

(* The client opens its file at the first step, and has the whole of it or *)
(* removes it at the last, unless it fails itself.                         *)
LEMMA DownloadFiles ==
    ASSUME TypeOK, FilesAgree, NEW r \in Downloads, DownloadStep(r) \/ ClientFails(r)
    PROVE  FilesAgree'
<1>1. \A d \in Downloads \ {r} :
          pc'[d] = pc[d] /\ file'[d] = file[d] /\ source'[d] = source[d]
  BY Names DEF TypeOK, DownloadStep, ClientFails, Hit, Miss, Unreachable, TakeAnswer,
               TimerExpires, Open, ReadFails, FetchFails, Finish, Fails, RemovesFile,
               NoSource, Goes, requestVars
<1>2. FileAgrees(r)'
  <2> USE Names DEF FilesAgree, FileAgrees, UnderWay, HasReceived, RemovedOrGone,
                    ClientGone, TypeOK, Goes, Stages, FileStates
  <2>1. CASE Hit(r) \/ Miss(r)
    BY <2>1 DEF Hit, Miss
  <2>2. CASE Unreachable(r) \/ ReadFails(r)
    BY <2>2 DEF Unreachable, ReadFails, StreamFails, Fails, RemovesFile
  <2>3. CASE TakeAnswer(r) \/ TimerExpires(r) \/ Open(r) \/ FetchFails(r)
    BY <2>3 DEF TakeAnswer, TimerExpires, Open, FetchFails, StreamFails, requestVars
  <2>4. CASE Finish(r)
    BY <2>4 DEF Finish
  <2>5. CASE ClientFails(r)
    BY <2>5 DEF ClientFails
  <2> QED BY <2>1, <2>2, <2>3, <2>4, <2>5 DEF DownloadStep
<1> QED BY <1>1, <1>2, OneFile

LEMMA DeletionFiles ==
    ASSUME TypeOK, FilesAgree, NEW x \in Deletions, DeletionStep(x)
    PROVE  FilesAgree'
<1>1. UNCHANGED <<file, source>>
  BY DEF DeletionStep, DeleteLocal, HeadObject, DeleteObject, NotifyFileDeletion
<1>2. \A r \in Downloads : r # x /\ r \in Requests
  BY Names, NamesAssumption
<1>3. \A r \in Downloads : pc'[r] = pc[r]
  BY <1>2 DEF DeletionStep, DeleteLocal, HeadObject, DeleteObject, NotifyFileDeletion, Goes, TypeOK
<1> QED BY <1>1, <1>3, FilesKept

(* The clients of a node that stops remove their files, but for those that *)
(* have failed themselves.                                                 *)
LEMMA StopFiles ==
    ASSUME TypeOK, FilesAgree, NEW p \in Peers, Stop(p)
    PROVE  FilesAgree'
<1> SUFFICES ASSUME NEW r \in Downloads PROVE FileAgrees(r)'
  BY DEF FilesAgree, FileAgrees
<1> USE Names DEF TypeOK, FilesAgree, FileAgrees, UnderWay, HasReceived, RemovedOrGone,
                  ClientGone
<1>1. CASE Edge[r] = p /\ pc[r] \notin {"new", "ok", "failed"}
  <2>1. pc'[r] = "failed" /\ file'[r] = RemovesFile(r)[r]
    BY <1>1 DEF Stop
  <2> QED BY <1>1, <2>1 DEF RemovesFile
<1>2. CASE ~(Edge[r] = p /\ pc[r] \notin {"new", "ok", "failed"})
  <2>1. pc'[r] = pc[r] /\ file'[r] = file[r] /\ source'[r] = source[r]
    BY <1>2 DEF Stop
  <2> QED BY <2>1
<1> QED BY <1>1, <1>2

-----------------------------------------------------------------------------
(* The invariant. *)

LEMMA InitInv == Init => SharingInv
<1> SUFFICES ASSUME Init PROVE SharingInv
  OBVIOUS
<1>1. TypeOK
  BY NumbersAssumption DEF Init, TypeOK, Stages, FileStates
<1>2. ServedByRunning /\ FilesAgree /\ ActsRecorded /\ ActsOnce
  BY Names DEF Init, ServedByRunning, FilesAgree, UnderWay, ActsRecorded, ActsOnce
<1> QED BY <1>1, <1>2 DEF SharingInv

LEMMA DownloadInv ==
    ASSUME SharingInv, NEW r \in Downloads, DownloadStep(r) \/ ClientFails(r)
    PROVE  SharingInv'
<1> USE DEF SharingInv
<1>1. TypeOK' /\ ServedByRunning' /\ FilesAgree'
  BY DownloadFiles, HitType, MissType, UnreachableType, ClientFailsType, TakeAnswerType,
     TimerExpiresType, OpenType,
     ReadFailsType, FetchFailsType, FinishType DEF DownloadStep
<1>2. CASE Miss(r)
  <2>1. UNCHANGED <<up, acted, lapsed>> /\ Edge[r] \in Peers
    BY <1>2, Names DEF Miss, nodeVars, historyVars
  <2>2. AddRequest(Edge[r], <<Id[r], Edge[r]>>)
    BY <1>2 DEF Miss
  <2> QED BY <1>1, <2>1, <2>2, AddRequestActs
<1>3. CASE \/ Hit(r) \/ Unreachable(r) \/ TakeAnswer(r) \/ TimerExpires(r) \/ Open(r)
           \/ ReadFails(r) \/ FetchFails(r) \/ Finish(r) \/ ClientFails(r)
  <2>1. UNCHANGED <<up, fresh, expired, acted, lapsed>>
    BY <1>3 DEF Hit, Unreachable, TakeAnswer, TimerExpires, Open, ReadFails, FetchFails,
                Finish, ClientFails, nodeVars, recordVars, historyVars
  <2> QED BY <1>1, <2>1, MoreRecords
<1> QED BY <1>2, <1>3 DEF DownloadStep

LEMMA DeletionInv ==
    ASSUME SharingInv, NEW x \in Deletions, DeletionStep(x)
    PROVE  SharingInv'
<1> USE DEF SharingInv
<1>1. TypeOK' /\ ServedByRunning' /\ FilesAgree'
  BY DeletionFiles, DeleteLocalType, DeleteFromS3Type, NotifyFileDeletionType DEF DeletionStep
<1>2. CASE NotifyFileDeletion(x)
  <2>1. UNCHANGED <<up, acted, lapsed>> /\ Edge[x] \in Peers
    BY <1>2, Names DEF NotifyFileDeletion, nodeVars, historyVars
  <2>2. AddRequest(Edge[x], <<Id[x], Nobody>>)
    BY <1>2 DEF NotifyFileDeletion, Notify
  <2> QED BY <1>1, <2>1, <2>2, AddRequestActs
<1>3. CASE DeleteLocal(x) \/ HeadObject(x) \/ DeleteObject(x)
  <2>1. UNCHANGED <<up, fresh, expired, acted, lapsed>>
    BY <1>3 DEF DeleteLocal, HeadObject, DeleteObject, nodeVars, recordVars, historyVars
  <2> QED BY <1>1, <2>1, MoreRecords
<1> QED BY <1>2, <1>3 DEF DeletionStep

LEMMA DeleteFileInv ==
    ASSUME SharingInv, NEW m \in notices, DeleteFile(m)
    PROVE  SharingInv'
<1> USE DEF SharingInv
<1>1. UNCHANGED <<up, acted, lapsed>> /\ m[3] \in Peers
  BY DEF DeleteFile, nodeVars, historyVars, TypeOK
<1>2. AddRequest(m[3], <<Id[m[1]], m[2]>>)
  BY DEF DeleteFile, Notify
<1>3. FilesAgree'
  BY FilesKept DEF DeleteFile, requestVars
<1> QED BY <1>1, <1>2, <1>3, DeleteFileType, AddRequestActs

LEMMA NodeInv ==
    ASSUME SharingInv, NEW p \in Peers, NotifyBloomFilters(p) \/ Expire(p) \/ Stop(p)
    PROVE  SharingInv'
<1> USE DEF SharingInv
<1>1. CASE NotifyBloomFilters(p)
  <2>1. UNCHANGED <<up, fresh, expired, acted, lapsed>>
    BY <1>1 DEF NotifyBloomFilters, nodeVars, recordVars, historyVars
  <2>2. FilesAgree'
    BY <1>1, FilesKept DEF NotifyBloomFilters, requestVars
  <2> QED BY <1>1, <2>1, <2>2, NotifyBloomFiltersType, MoreRecords
<1>2. CASE Expire(p)
  <2>1. FilesAgree'
    BY <1>2, FilesKept DEF Expire, requestVars
  <2> QED BY <1>2, <2>1, ExpireType, ExpireActs
<1>3. CASE Stop(p)
  <2>1. UNCHANGED <<acted, lapsed>> /\ up' = up \ {p}
    BY <1>3 DEF Stop, historyVars
  <2>2. \A q \in Peers : /\ q \in up' => fresh[q] \subseteq fresh'[q]
                        /\ expired'[q] \subseteq expired[q]
    BY <1>3, <2>1 DEF Stop, TypeOK
  <2> QED BY <1>3, <2>1, <2>2, StopType, StopFiles, MoreRecords
<1> QED BY <1>1, <1>2, <1>3

LEMMA NextInv == SharingInv /\ [Next]_vars => SharingInv'
<1> SUFFICES ASSUME SharingInv, [Next]_vars PROVE SharingInv'
  OBVIOUS
<1>1. ASSUME NEW r \in Downloads, DownloadStep(r) \/ ClientFails(r) PROVE SharingInv'
  BY <1>1, DownloadInv
<1>2. ASSUME NEW m \in lookups, FileLookup(m) PROVE SharingInv'
  <2>1. FilesAgree'
    BY <1>2, FilesKept DEF FileLookup, requestVars, SharingInv
  <2> QED BY <1>2, <2>1, FileLookupType, FileLookupActs DEF SharingInv
<1>3. ASSUME NEW x \in Deletions, DeletionStep(x) PROVE SharingInv'
  BY <1>3, DeletionInv
<1>4. ASSUME NEW m \in notices, DeleteFile(m) PROVE SharingInv'
  BY <1>4, DeleteFileInv
<1>5. ASSUME NEW p \in Peers, NotifyBloomFilters(p) \/ Expire(p) \/ Stop(p)
      PROVE  SharingInv'
  BY <1>5, NodeInv
<1>6. CASE UNCHANGED vars
  BY <1>6 DEF vars, nodeVars, filterVars, recordVars, requestVars, messageVars, historyVars,
              SharingInv, TypeOK, ServedByRunning, FilesAgree, UnderWay, HasReceived,
              RemovedOrGone, ClientGone, ActsRecorded, Recorded, ActsOnce
<1> QED BY <1>1, <1>2, <1>3, <1>4, <1>5, <1>6 DEF Next

(* The state of the nodes, the requests and the messages is well formed,   *)
(* requests run on nodes that run, and the cache of requests bounds how    *)
(* often a node acts, whatever the network of nodes, the requests and the  *)
(* order of the handlers of FileLookup and DeleteFile.                     *)
THEOREM SharingInvariant == Spec => []SharingInv
<1>1. SharingInv /\ [Next]_vars => SharingInv'
  BY NextInv
<1> QED BY <1>1, InitInv, PTL DEF Spec

(* IsRequestAlreadyServed keeps its promise: a node answers or forwards a  *)
(* request once, and twice at most when its records have expired.          *)
THEOREM ActsOnceAlways == Spec => []ActsOnce
<1>1. SharingInv => ActsOnce
  BY DEF SharingInv
<1> QED BY <1>1, SharingInvariant, PTL

(* Whatever fails and whichever node stops, a download that has ended      *)
(* leaves the whole file if it came from another node or from S3, a chunk  *)
(* of it may be wrong if it came from the cache of the edge node, and      *)
(* after an error there is no part of it, unless the client failed itself. *)
THEOREM FilesAlwaysAgree == Spec => []FilesAgree
<1>1. SharingInv => FilesAgree
  BY DEF SharingInv
<1> QED BY <1>1, SharingInvariant, PTL

-----------------------------------------------------------------------------
(* Whom a lookup is sent to (peer.go:218-267). *)

(* The neighbours with a filter, or without one, are finitely many.        *)
LEMMA FinitelyMany ==
    ASSUME TypeOK, NEW p \in Peers, NEW S,
           S \subseteq yes[p] \/ S \subseteq no[p]
    PROVE  IsFiniteSet(S) /\ Cardinality(S) \in Nat
<1>1. S \in SUBSET Peers /\ IsFiniteSet(Peers)
  BY NamesAssumption DEF TypeOK
<1>2. IsFiniteSet(S)
  BY <1>1, FS_Subset
<1> QED BY <1>2, FS_CardinalityType

(* The draws that are left never exceed the contacts that are: though the  *)
(* bound of the loop of peer.go:253 falls while its index grows, a draw of *)
(* the forwarder, which contacts nobody, makes room for one more.          *)
LEMMA DrawsAreFew ==
    ASSUME NEW rest \in Nat \ {0}, NEW forwarder, NEW D
    PROVE  /\ Draws(rest, forwarder \in D) \in Nat
           /\ Draws(rest, forwarder \in D) <= IF forwarder \in D THEN rest + 1 ELSE rest
BY DEF Draws

(* A lookup is sent to as many as MAX_CONTACTABLE_ADJ neighbours, and to   *)
(* one whose filter says no only with all of those whose filters say yes.  *)
LEMMA ContactsAreFew ==
    ASSUME TypeOK, NEW p \in Peers, NEW forwarder, NEW C \in Contacts(p, forwarder)
    PROVE  /\ IsFiniteSet(C)
           /\ Cardinality(C) <= MaxContactable
           /\ C \cap no[p] # {} => yes[p] \ {forwarder} \subseteq C
<1> DEFINE positive == yes[p] \ {forwarder}
           rest == MaxContactable - Least(Cardinality(positive), MaxContactable)
<1>1. PICK Y \in SUBSET positive, D \in SUBSET no[p] :
          /\ C = Y \cup (D \ {forwarder})
          /\ Cardinality(Y) = Least(Cardinality(positive), MaxContactable)
          /\ Cardinality(D) = IF rest = 0 THEN 0
                              ELSE Least(Cardinality(no[p]), Draws(rest, forwarder \in D))
  BY DEF Contacts
<1>2. /\ IsFiniteSet(positive) /\ Cardinality(positive) \in Nat
      /\ IsFiniteSet(Y) /\ Cardinality(Y) \in Nat
      /\ IsFiniteSet(D) /\ Cardinality(D) \in Nat
      /\ Cardinality(no[p]) \in Nat
  BY FinitelyMany
<1>3. MaxContactable \in Nat \ {0}
  BY NumbersAssumption
<1>4. yes[p] \cap no[p] = {}
  BY DEF TypeOK
<1> HIDE DEF positive
<1>5. rest \in Nat /\ Cardinality(Y) + rest = MaxContactable
  BY <1>1, <1>2, <1>3 DEF Least
<1> HIDE DEF rest
<1>6. /\ IsFiniteSet(D \ {forwarder}) /\ Cardinality(D \ {forwarder}) \in Nat
      /\ Cardinality(D \ {forwarder}) <= rest
  <2>1. /\ IsFiniteSet(D \ {forwarder})
        /\ Cardinality(D \ {forwarder}) =
              IF forwarder \in D THEN Cardinality(D) - 1 ELSE Cardinality(D)
    BY <1>2, FS_RemoveElement
  <2>2. Cardinality(D \ {forwarder}) \in Nat
    BY <2>1, FS_CardinalityType
  <2>3. CASE rest = 0
    BY <1>1, <1>2, <1>5, <2>1, <2>2, <2>3
  <2>4. CASE rest # 0
    <3>1. PICK n \in Nat : /\ n = Draws(rest, forwarder \in D)
                           /\ n <= IF forwarder \in D THEN rest + 1 ELSE rest
      BY <1>5, <2>4, DrawsAreFew
    <3>2. Cardinality(D) = Least(Cardinality(no[p]), n)
      BY <1>1, <2>4, <3>1
    <3>3. Cardinality(D) <= n
      BY <1>2, <3>1, <3>2 DEF Least
    <3> QED BY <1>2, <1>5, <2>1, <2>2, <3>1, <3>3
  <2> QED BY <2>1, <2>2, <2>3, <2>4
<1>7. IsFiniteSet(C) /\ Cardinality(C) <= MaxContactable
  <2>1. Y \cap (D \ {forwarder}) = {}
    BY <1>1, <1>4 DEF positive
  <2>2. /\ IsFiniteSet(Y \cup (D \ {forwarder}))
        /\ Cardinality(Y \cup (D \ {forwarder})) =
              Cardinality(Y) + Cardinality(D \ {forwarder})
                - Cardinality(Y \cap (D \ {forwarder}))
    BY <1>2, <1>6, FS_Union
  <2>3. Cardinality(Y \cap (D \ {forwarder})) = 0
    BY <2>1, FS_EmptySet
  <2> QED BY <1>1, <1>2, <1>3, <1>5, <1>6, <2>2, <2>3
<1>8. ASSUME C \cap no[p] # {} PROVE positive \subseteq C
  <2>1. D # {}
    BY <1>1, <1>4, <1>8 DEF positive
  <2>2. Cardinality(D) # 0
    BY <1>2, <2>1, FS_EmptySet
  <2>3. rest # 0
    BY <1>1, <2>2
  <2>4. Cardinality(Y) = Cardinality(positive)
    BY <1>1, <1>2, <1>3, <1>5, <2>3 DEF Least
  <2>5. Y = positive
    BY <1>2, <2>4, FS_Subset
  <2> QED BY <1>1, <2>5
<1> QED BY <1>7, <1>8 DEF positive

(* The lookups that p sends to its contacts C, and maybe one less of those *)
(* that were there.                                                        *)
Sent(r, ttl, p, C) == {<<r, ttl, p, q>> : q \in C \cap up}
Sends(p, C) ==
    \E r, ttl : \E others \in SUBSET lookups : lookups' = others \cup Sent(r, ttl, p, C)

(* The call of neighboursFileLookup. *)
LEMMA ForwardSends ==
    ASSUME NEW r, NEW ttl, NEW p, NEW forwarder, NEW others \in SUBSET lookups,
           Forward(r, ttl, p, forwarder, others)
    PROVE  \E C \in Contacts(p, forwarder) : Sends(p, C)
<1>1. PICK C \in Contacts(p, forwarder) : lookups' = others \cup Sent(r, ttl, p, C)
  BY DEF Forward, Sent
<1>2. \E rest \in SUBSET lookups : lookups' = rest \cup Sent(r, ttl, p, C)
  BY <1>1, Zenon
<1>3. Sends(p, C)
  BY <1>2, Zenon DEF Sends
<1> QED BY <1>3

(* Only a download that misses the cache, and a handler that forwards,     *)
(* send lookups, to the contacts of their node.                            *)
LEMMA LookupsAreSent ==
    ASSUME TypeOK, Next
    PROVE  \/ lookups' \subseteq lookups
           \/ \E p \in Peers : \E forwarder : \E C \in Contacts(p, forwarder) : Sends(p, C)
<1>1. ASSUME NEW r \in Downloads, Miss(r)
      PROVE  \E C \in Contacts(Edge[r], Edge[r]) : Sends(Edge[r], C)
  BY <1>1, ForwardSends DEF Miss
<1>2. ASSUME NEW r \in Downloads, DownloadStep(r) \/ ClientFails(r), ~Miss(r)
      PROVE  lookups' = lookups
  BY <1>2 DEF DownloadStep, Hit, Unreachable, TakeAnswer, TimerExpires, Open, ReadFails,
              FetchFails, Finish, ClientFails, messageVars
<1>3. ASSUME NEW m \in lookups, FileLookup(m)
      PROVE  \/ lookups' = lookups \ {m}
             \/ \E C \in Contacts(m[4], m[3]) : Sends(m[4], C)
  <2>1. \/ lookups' = lookups \ {m}
        \/ Forward(m[1], m[2] - 1, m[4], m[3], lookups \ {m})
    BY <1>3 DEF FileLookup
  <2> QED BY <2>1, ForwardSends
<1>4. ASSUME NEW x \in Deletions, DeletionStep(x)
      PROVE  lookups' = lookups
  BY <1>4 DEF DeletionStep, DeleteLocal, HeadObject, DeleteObject, NotifyFileDeletion, Unreachable,
              messageVars
<1>5. ASSUME NEW m \in notices, DeleteFile(m)
      PROVE  lookups' = lookups
  BY <1>5 DEF DeleteFile, messageVars
<1>6. ASSUME NEW p \in Peers, NotifyBloomFilters(p) \/ Expire(p) \/ Stop(p)
      PROVE  lookups' \subseteq lookups
  BY <1>6 DEF NotifyBloomFilters, Expire, Stop, messageVars
<1>7. \A r \in Downloads : Edge[r] \in Peers
  BY Names
<1>8. \A m \in lookups : m[4] \in Peers
  BY DEF TypeOK, Lookups
<1> QED BY <1>1, <1>2, <1>3, <1>4, <1>5, <1>6, <1>7, <1>8 DEF Next

(* A handler of a lookup sends as many as MAX_CONTACTABLE_ADJ others, by   *)
(* filters and at random (peer.go:229-266): the flood of one request does  *)
(* not go to every neighbour.                                              *)
THEOREM LookupsAreFew ==
    Spec => [][Cardinality(lookups' \ lookups) <= MaxContactable]_vars
<1>1. ASSUME TypeOK, Next
      PROVE  Cardinality(lookups' \ lookups) <= MaxContactable
  <2> DEFINE sent == lookups' \ lookups
  <2>1. CASE lookups' \subseteq lookups
    <3>1. sent = {}
      BY <2>1
    <3> QED BY <3>1, FS_EmptySet, NumbersAssumption
  <2>2. ASSUME NEW p \in Peers, NEW forwarder, NEW C \in Contacts(p, forwarder), Sends(p, C)
        PROVE  Cardinality(sent) <= MaxContactable
    <3>1. PICK r, ttl : \A m \in sent : m \in Sent(r, ttl, p, C)
      BY <2>2 DEF Sends
    <3>2. \A m \in sent : \E q \in C : m = <<r, ttl, p, q>>
      BY <3>1 DEF Sent
    <3> DEFINE f == [m \in sent |-> m[4]]
    <3>3. f \in Injection(sent, C)
      <4>1. \A m \in sent : f[m] \in C /\ m = <<r, ttl, p, f[m]>>
        BY <3>2
      <4>2. f \in [sent -> C] /\ \A m, n \in sent : f[m] = f[n] => m = n
        BY <4>1
      <4> HIDE DEF f, sent
      <4> QED BY <4>2 DEF Injection, IsInjective
    <3>4. /\ IsFiniteSet(C) /\ Cardinality(C) \in Nat
          /\ Cardinality(C) <= MaxContactable
      BY <1>1, ContactsAreFew, FS_CardinalityType
    <3> HIDE DEF f, sent
    <3>5. IsFiniteSet(sent) /\ Cardinality(sent) <= Cardinality(C)
      BY <3>3, <3>4, FS_Injection
    <3>6. Cardinality(sent) \in Nat
      BY <3>5, FS_CardinalityType
    <3> QED BY <3>4, <3>5, <3>6, NumbersAssumption
  <2> QED BY <1>1, <2>1, <2>2, LookupsAreSent
<1>2. SharingInv => TypeOK
  BY DEF SharingInv
<1> QED BY <1>1, <1>2, SharingInvariant, PTL DEF Spec

(* A neighbour whose filter says no is asked only together with every      *)
(* running one whose filter says yes, the node the lookup came from        *)
(* excepted (peer.go:248: "come rimanenti").                               *)
THEOREM FiltersFirst ==
    Spec => [][\A m \in lookups' \ lookups :
                  m[4] \in no[m[3]] =>
                      \E forwarder : \A q \in (yes[m[3]] \cap up) \ {forwarder} :
                          <<m[1], m[2], m[3], q>> \in lookups']_vars
<1> DEFINE First ==
        \A m \in lookups' \ lookups :
            m[4] \in no[m[3]] =>
                \E forwarder : \A q \in (yes[m[3]] \cap up) \ {forwarder} :
                    <<m[1], m[2], m[3], q>> \in lookups'
<1>1. TypeOK /\ Next => First
  <2> SUFFICES ASSUME TypeOK, Next, NEW m \in lookups' \ lookups, m[4] \in no[m[3]]
               PROVE  \E forwarder : \A q \in (yes[m[3]] \cap up) \ {forwarder} :
                          <<m[1], m[2], m[3], q>> \in lookups'
    OBVIOUS
  <2>1. PICK p \in Peers :
            \E forwarder : \E C \in Contacts(p, forwarder) : Sends(p, C)
    BY LookupsAreSent
  <2>2. PICK forwarder : \E C \in Contacts(p, forwarder) : Sends(p, C)
    BY <2>1
  <2>3. PICK C \in Contacts(p, forwarder) : Sends(p, C)
    BY <2>2
  <2>4. PICK r, ttl : \E others \in SUBSET lookups :
                 lookups' = others \cup {<<r, ttl, p, q>> : q \in C \cap up}
    BY <2>3 DEF Sends, Sent
  <2>5. PICK s \in C \cap up : m = <<r, ttl, p, s>>
    BY <2>4
  <2>6. yes[p] \ {forwarder} \subseteq C
    BY <2>5, ContactsAreFew
  <2>7. \A q \in (yes[p] \cap up) \ {forwarder} : <<r, ttl, p, q>> \in lookups'
    BY <2>4, <2>6
  <2>8. m[1] = r /\ m[2] = ttl /\ m[3] = p
    BY <2>5
  <2> QED BY <2>7, <2>8, Zenon
<1>2. SharingInv => TypeOK
  BY DEF SharingInv
<1> QED BY <1>1, <1>2, SharingInvariant, PTL DEF Spec
=============================================================================
