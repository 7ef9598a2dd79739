--------------------------- MODULE RegistryProofs ---------------------------
(***************************************************************************)
(* Theorems about Registry, for any number of peers, any timeouts, faults, *)
(* crashes and restarts.                                                   *)
(***************************************************************************)
EXTENDS Registry, SequenceTheorems, TLAPS

(* Abbreviations the actions are written with. *)
USE DEF Register, LateNext, ConnectionsLeft, JoinCalls

-----------------------------------------------------------------------------
(* A fault is one more. *)
LEMMA FaultType ==
    ASSUME TypeOK, Fault \/ UNCHANGED faults
    PROVE  faults' \in 0..MaxFaults
BY RegistryAssumption DEF TypeOK, Fault

LEMMA InvInit == Init => RegistryInv
<1> SUFFICES ASSUME Init PROVE RegistryInv
  OBVIOUS
<1>1. roots = <<>> /\ <<>> \in Seq(Peers) /\ DOMAIN roots = {}
  BY DEF Init, NoGraph
<1>2. TypeOK
  <2>1. /\ status \in [Peers -> {"out", "up", "down"}]
        /\ adj \in [Peers -> SUBSET Peers]
        /\ toContact \in [Peers -> SUBSET Peers] /\ toNotify \in [Peers -> SUBSET Peers]
        /\ connections \in [Peers -> {"none", "open", "broken"}]
        /\ links \in [Peers -> SUBSET Peers]
    BY DEF Init, Nobody, NoGraph
  <2>2. roots \in Seq(Peers)
    BY <1>1
  <2>3. /\ heartbeats \subseteq Peers /\ late \subseteq quiet /\ quiet \subseteq heartbeats
        /\ pc \in Phases
        /\ toAsk \subseteq Peers /\ nodes \subseteq Peers /\ nilMaps \subseteq nodes
        /\ calls \subseteq Peers \X Peers
        /\ waited \in Nat
    BY DEF Init, NoGraph, Phases
  <2>4. answered \in BOOLEAN
    BY DEF Init
  <2>5. faults \in 0..MaxFaults
    BY RegistryAssumption DEF Init
  <2> QED BY <2>1, <2>2, <2>3, <2>4, <2>5 DEF TypeOK
<1>3. MapsAgree /\ ScanState /\ ScannedAreKnown /\ NoSelfNeighbour
  BY <1>1 DEF Init, Nobody, NoGraph, MapsAgree, ScanState, ScannedAreKnown, NoSelfNeighbour
<1> QED BY <1>2, <1>3 DEF RegistryInv

-----------------------------------------------------------------------------
(* Steps of the peers that the registry has no part in.                    *)

LEMMA PeerStep ==
    ASSUME RegistryInv, UNCHANGED <<mapVars, connections, pc, graphVars, joinVars>>,
           status' \in [Peers -> {"out", "up", "down"}],
           adj' \in [Peers -> SUBSET Peers],
           toContact' \in [Peers -> SUBSET Peers], toNotify' \in [Peers -> SUBSET Peers],
           faults' \in 0..MaxFaults,
           \A p \in Peers : p \notin adj'[p] /\ p \notin toContact'[p] /\ p \notin toNotify'[p]
    PROVE  RegistryInv'
<1> USE DEF mapVars, graphVars, joinVars
<1>1. TypeOK'
  BY DEF RegistryInv, TypeOK
<1>2. MapsAgree' /\ ScanState' /\ ScannedAreKnown'
  BY DEF RegistryInv, MapsAgree, ScanState, ScannedAreKnown
<1>3. NoSelfNeighbour'
  BY DEF RegistryInv, NoSelfNeighbour
<1> QED BY <1>1, <1>2, <1>3 DEF RegistryInv

(* What the peers have, in their types. *)
LEMMA PeerTypes ==
    ASSUME RegistryInv
    PROVE  /\ status \in [Peers -> {"out", "up", "down"}]
           /\ adj \in [Peers -> SUBSET Peers]
           /\ toContact \in [Peers -> SUBSET Peers] /\ toNotify \in [Peers -> SUBSET Peers]
           /\ faults \in 0..MaxFaults
           /\ \A p \in Peers : p \notin adj[p] /\ p \notin toContact[p] /\ p \notin toNotify[p]
BY DEF RegistryInv, TypeOK, NoSelfNeighbour

LEMMA EntryInv ==
    ASSUME RegistryInv, NEW p \in Peers, Entry(p)
    PROVE  RegistryInv'
<1> USE DEF peerVars
<1>1. PICK q \in Peers : ConnectToNeighbour(p, q) \/ NotifyNeighbour(p, q)
  BY DEF Entry
<1>2. p # q
  BY <1>1, PeerTypes DEF ConnectToNeighbour, NotifyNeighbour
<1>3. CASE ConnectToNeighbour(p, q)
  <2>1. /\ UNCHANGED <<status, mapVars, connections, pc, graphVars, joinVars, faults>>
        /\ toContact' = [toContact EXCEPT ![p] = @ \ {q}]
        /\ adj' = [adj EXCEPT ![p] = @ \cup {n \in {q} : Up(n)}]
        /\ toNotify' = [toNotify EXCEPT ![p] = {n \in {q} : Up(n)}]
    BY <1>3 DEF ConnectToNeighbour
  <2> QED BY <1>2, <2>1, PeerTypes, PeerStep
<1>4. CASE NotifyNeighbour(p, q)
  <2>1. /\ UNCHANGED <<status, toContact, mapVars, connections, pc, graphVars, joinVars, faults>>
        /\ toNotify' = [toNotify EXCEPT ![p] = {}]
        /\ adj' = [adj EXCEPT ![q] = @ \cup {n \in {p} : Up(q)}]
    BY <1>4 DEF NotifyNeighbour
  <2> QED BY <1>2, <2>1, PeerTypes, PeerStep
<1> QED BY <1>1, <1>3, <1>4

LEMMA LinkInv ==
    ASSUME RegistryInv, NEW p \in Peers, NEW q \in Peers, Ping(p, q) \/ LoseNeighbour(p, q)
    PROVE  RegistryInv'
<1>1. p # q
  BY PeerTypes DEF Ping, LoseNeighbour
<1>2. UNCHANGED <<status, toContact, toNotify, mapVars, connections, pc, graphVars, joinVars>>
  BY DEF Ping, LoseNeighbour
<1>3. faults' \in 0..MaxFaults
  BY FaultType DEF Ping, LoseNeighbour, RegistryInv
<1>4. adj' \in [Peers -> SUBSET Peers] /\ \A r \in Peers : r \notin adj'[r]
  BY <1>1, PeerTypes DEF Ping, LoseNeighbour
<1> QED BY <1>2, <1>3, <1>4, PeerTypes, PeerStep

LEMMA EntryFailsInv ==
    ASSUME RegistryInv, NEW p \in Peers, EntryFails(p)
    PROVE  RegistryInv'
<1>1. /\ UNCHANGED <<adj, toContact, toNotify, mapVars, connections, pc, graphVars, joinVars>>
      /\ status' = [status EXCEPT ![p] = "down"]
  BY DEF EntryFails
<1>2. faults' \in 0..MaxFaults
  BY FaultType DEF EntryFails, RegistryInv
<1> QED BY <1>1, <1>2, PeerTypes, PeerStep

(* A peer that stops has no neighbours, and a connection to it breaks.     *)
LEMMA StopsInv ==
    ASSUME RegistryInv, NEW p \in Peers, Stops(p), Fault \/ UNCHANGED faults
    PROVE  RegistryInv'
<1> USE DEF mapVars, graphVars, joinVars
<1>1. faults' \in 0..MaxFaults
  BY FaultType DEF RegistryInv
<1>2. TypeOK'
  BY <1>1 DEF RegistryInv, TypeOK, Stops
<1>3. MapsAgree'
  BY DEF RegistryInv, TypeOK, MapsAgree, Stops
<1>4. ScanState' /\ ScannedAreKnown'
  BY DEF RegistryInv, ScanState, ScannedAreKnown, Stops
<1>5. NoSelfNeighbour'
  BY DEF RegistryInv, TypeOK, NoSelfNeighbour, Stops
<1> QED BY <1>2, <1>3, <1>4, <1>5 DEF RegistryInv

-----------------------------------------------------------------------------
(* Entries, heartbeats and the check for dead peers.                       *)

LEMMA PeerEnterInv ==
    ASSUME RegistryInv, NEW p \in Peers, PeerEnter(p)
    PROVE  RegistryInv'
<1> USE DEF graphVars, joinVars
<1>1. PICK N \in NeighboursFor(p) : toContact' = [toContact EXCEPT ![p] = N]
  BY DEF PeerEnter
<1>2. N \subseteq Peers \ {p}
  BY DEF NeighboursFor, RegistryInv, TypeOK
<1>3. /\ pc = "idle"
      /\ status' = [status EXCEPT ![p] = "up"]
      /\ heartbeats' = heartbeats \cup {p} /\ quiet' = quiet \ {p} /\ late' = late \ {p}
      /\ connections' = [connections EXCEPT ![p] = "open"]
      /\ UNCHANGED <<adj, toNotify, pc, graphVars, joinVars, faults>>
  BY DEF PeerEnter
<1>4. TypeOK'
  BY <1>1, <1>2, <1>3 DEF RegistryInv, TypeOK
<1>5. MapsAgree'
  BY <1>3 DEF RegistryInv, TypeOK, MapsAgree
<1>6. ScanState' /\ ScannedAreKnown'
  BY <1>3 DEF RegistryInv, ScanState, ScannedAreKnown
<1>7. NoSelfNeighbour'
  BY <1>1, <1>2, <1>3 DEF RegistryInv, TypeOK, NoSelfNeighbour
<1> QED BY <1>4, <1>5, <1>6, <1>7 DEF RegistryInv

LEMMA HeartbeatInv ==
    ASSUME RegistryInv, NEW p \in Peers, Heartbeat(p)
    PROVE  RegistryInv'
<1> USE DEF peerVars, graphVars, joinVars
<1>1. /\ pc = "idle"
      /\ heartbeats' = heartbeats \cup {p} /\ quiet' = quiet \ {p} /\ late' = late \ {p}
      /\ connections' = [connections EXCEPT ![p] = ConnectionAfterHeartbeat(p)]
      /\ UNCHANGED <<status, adj, toContact, toNotify, pc, graphVars, joinVars, faults>>
  BY DEF Heartbeat
<1>2. /\ ConnectionAfterHeartbeat(p) \in {"none", "open", "broken"}
      /\ ConnectionAfterHeartbeat(p) # "none"
  BY DEF ConnectionAfterHeartbeat, RegistryInv, TypeOK, MapsAgree
<1>3. TypeOK'
  BY <1>1, <1>2 DEF RegistryInv, TypeOK
<1>4. MapsAgree'
  BY <1>1, <1>2 DEF RegistryInv, TypeOK, MapsAgree
<1>5. ScanState' /\ ScannedAreKnown'
  BY <1>1 DEF RegistryInv, ScanState, ScannedAreKnown
<1>6. NoSelfNeighbour'
  BY <1>1 DEF RegistryInv, NoSelfNeighbour
<1> QED BY <1>3, <1>4, <1>5, <1>6 DEF RegistryInv

LEMMA SilenceInv ==
    ASSUME RegistryInv, NEW p \in Peers, Silence(p)
    PROVE  RegistryInv'
<1> USE DEF peerVars, graphVars, joinVars
<1>1. /\ p \in heartbeats /\ quiet' = quiet \cup {p}
      /\ UNCHANGED <<peerVars, heartbeats, late, connections, pc, graphVars, joinVars>>
  BY DEF Silence
<1>2. faults' \in 0..MaxFaults
  BY FaultType DEF Silence, RegistryInv
<1>3. TypeOK'
  BY <1>1, <1>2 DEF RegistryInv, TypeOK
<1>4. MapsAgree' /\ ScanState' /\ ScannedAreKnown' /\ NoSelfNeighbour'
  BY <1>1 DEF RegistryInv, MapsAgree, ScanState, ScannedAreKnown, NoSelfNeighbour
<1> QED BY <1>3, <1>4 DEF RegistryInv

LEMMA CheckForDeadPeersInv ==
    ASSUME RegistryInv, CheckForDeadPeers
    PROVE  RegistryInv'
<1> USE DEF peerVars, graphVars
<1>1. /\ pc = "idle"
      /\ heartbeats' = heartbeats \ late /\ quiet' = quiet \ late /\ late' = quiet \ late
      /\ connections' = [p \in Peers |-> IF p \in late THEN "none" ELSE connections[p]]
      /\ calls' = {c \in calls : c[1] \notin late}
      /\ UNCHANGED <<peerVars, pc, graphVars, roots, answered, waited, faults>>
  BY DEF CheckForDeadPeers
<1>2. TypeOK'
  BY <1>1 DEF RegistryInv, TypeOK
<1>3. MapsAgree'
  BY <1>1 DEF RegistryInv, TypeOK, MapsAgree
<1>4. ScanState' /\ ScannedAreKnown'
  BY <1>1 DEF RegistryInv, ScanState, ScannedAreKnown
<1>5. NoSelfNeighbour'
  BY <1>1 DEF RegistryInv, NoSelfNeighbour
<1> QED BY <1>2, <1>3, <1>4, <1>5 DEF RegistryInv

-----------------------------------------------------------------------------
(* The graph.                                                              *)

LEMMA StartScanInv ==
    ASSUME RegistryInv, StartScan
    PROVE  RegistryInv'
<1> USE DEF peerVars, mapVars, joinVars
<1>1. /\ pc = "idle" /\ pc' = "ask"
      /\ toAsk' = {p \in heartbeats : connections[p] # "none"}
      /\ UNCHANGED <<peerVars, mapVars, connections, nodes, nilMaps, links, joinVars, faults>>
  BY DEF StartScan
<1>2. TypeOK'
  BY <1>1 DEF RegistryInv, TypeOK, Phases
<1>3. MapsAgree' /\ ScanState' /\ ScannedAreKnown' /\ NoSelfNeighbour'
  BY <1>1 DEF RegistryInv, MapsAgree, ScanState, ScannedAreKnown, NoSelfNeighbour
<1> QED BY <1>2, <1>3 DEF RegistryInv

LEMMA AnswerInv ==
    ASSUME RegistryInv, NEW p \in Peers,
           AnswerNeighbours(p) \/ AnswerError(p) \/ AnswerLate(p)
    PROVE  RegistryInv'
<1> USE DEF peerVars, mapVars
<1>1. /\ pc = "ask" /\ p \in toAsk /\ toAsk' = toAsk \ {p}
      /\ nodes' \in {nodes, nodes \cup {p}}
      /\ UNCHANGED <<peerVars, mapVars, connections, pc, roots, calls, answered>>
  BY DEF AnswerNeighbours, AnswerError, AnswerLate, Asked, joinVars
<1>2. links' \in [Peers -> SUBSET Peers]
  BY DEF AnswerNeighbours, AnswerError, AnswerLate, RegistryInv, TypeOK
<1>3. nilMaps' \subseteq nodes'
  BY DEF AnswerNeighbours, AnswerError, AnswerLate, RegistryInv, TypeOK
<1>4. waited' \in Nat
  BY RegistryAssumption
     DEF AnswerNeighbours, AnswerError, AnswerLate, joinVars, RegistryInv, TypeOK
<1>5. faults' \in 0..MaxFaults
  BY FaultType DEF AnswerNeighbours, AnswerError, AnswerLate, RegistryInv
<1>6. TypeOK'
  BY <1>1, <1>2, <1>3, <1>4, <1>5 DEF RegistryInv, TypeOK
<1>7. MapsAgree' /\ ScanState' /\ ScannedAreKnown' /\ NoSelfNeighbour'
  BY <1>1 DEF RegistryInv, MapsAgree, ScanState, ScannedAreKnown, NoSelfNeighbour
<1> QED BY <1>6, <1>7 DEF RegistryInv

(* The memory of the registry is lost.                                     *)
LEMMA DiesInv ==
    ASSUME RegistryInv, Dies, UNCHANGED peerVars, Fault \/ UNCHANGED faults
    PROVE  RegistryInv'
<1> USE DEF peerVars
<1>1. faults' \in 0..MaxFaults
  BY FaultType DEF RegistryInv
<1>2. /\ roots' = <<>> /\ <<>> \in Seq(Peers) /\ DOMAIN roots' = {}
      /\ links' \in [Peers -> SUBSET Peers]
      /\ connections' = [p \in Peers |-> "none"]
  BY DEF Dies, Nobody
<1>3. TypeOK'
  BY <1>1, <1>2 DEF Dies, RegistryInv, TypeOK, Phases
<1>4. MapsAgree' /\ ScanState' /\ ScannedAreKnown'
  BY <1>2 DEF Dies, MapsAgree, ScanState, ScannedAreKnown
<1>5. NoSelfNeighbour'
  BY <1>2 DEF Dies, RegistryInv, NoSelfNeighbour
<1> QED BY <1>3, <1>4, <1>5 DEF RegistryInv

(* A peer reaches itself: no peer stands for two components.               *)
LEMMA OneOfEachDiffer ==
    ASSUME NEW S, NEW next, NEW n \in Nat, NEW found \in [1..n -> S], OneOfEach(found, S, next)
    PROVE  /\ found \in Seq(S)
           /\ DOMAIN found = 1..n
           /\ \A i, j \in 1..n : found[i] = found[j] => i = j
<1>1. \A p : Reaches(p, p, S, next)
  BY DEF Reaches
<1>2. DOMAIN found = 1..n
  OBVIOUS
<1>3. \A i, j \in 1..n : i # j => ~Reaches(found[i], found[j], S, next)
  BY <1>2 DEF OneOfEach
<1>4. found \in Seq(S)
  BY SeqDef
<1> QED BY <1>1, <1>2, <1>3, <1>4

LEMMA FindComponentsInv ==
    ASSUME RegistryInv, FindComponents
    PROVE  RegistryInv'
<1> USE DEF peerVars, mapVars
<1>1. PICK n \in 0..Cardinality(nodes) : \E found \in [1..n -> nodes] :
        /\ OneOfEach(found, nodes, Undirected(nodes, [p \in Peers |-> Known(p)]))
        /\ roots' = found
  BY DEF FindComponents
<1>2. PICK found \in [1..n -> nodes] :
        /\ OneOfEach(found, nodes, Undirected(nodes, [p \in Peers |-> Known(p)]))
        /\ roots' = found
  BY <1>1
<1>3. /\ pc = "ask" /\ toAsk = {} /\ pc' = "join"
      /\ nodes' = {} /\ nilMaps' = {} /\ links' = Nobody
      /\ UNCHANGED <<peerVars, mapVars, connections, toAsk, calls, answered, waited, faults>>
  BY DEF FindComponents
<1>4. /\ roots' \in Seq(nodes)
      /\ DOMAIN roots' = 1..n /\ \A i \in 1..n : roots'[i] \in nodes
      /\ \A i, j \in 1..n : roots'[i] = roots'[j] => i = j
  <2> DEFINE next == Undirected(nodes, [p \in Peers |-> Known(p)])
  <2>1. OneOfEach(found, nodes, next)
    BY <1>2
  <2> HIDE DEF next
  <2>2. n \in Nat
    OBVIOUS
  <2> QED BY <1>2, <2>1, <2>2, OneOfEachDiffer
<1>5. nodes \subseteq heartbeats /\ nodes \subseteq Peers
  BY DEF RegistryInv, ScannedAreKnown, TypeOK
<1>6. roots' \in Seq(Peers)
  BY <1>4, <1>5
<1>7. TypeOK'
  BY <1>3, <1>6 DEF RegistryInv, TypeOK, Nobody, Phases
<1>8. MapsAgree' /\ ScanState' /\ ScannedAreKnown'
  BY <1>3, <1>4, <1>5 DEF RegistryInv, MapsAgree, ScanState, ScannedAreKnown
<1>9. NoSelfNeighbour'
  BY <1>3, <1>4 DEF RegistryInv, NoSelfNeighbour
<1> QED BY <1>7, <1>8, <1>9 DEF RegistryInv

-----------------------------------------------------------------------------
(* The components are joined.                                              *)

LEMMA CallNeighboursInv ==
    ASSUME RegistryInv, CallNeighbours
    PROVE  RegistryInv'
<1> USE DEF peerVars, mapVars, graphVars
<1>1. /\ pc = "join" /\ pc' = "wait" /\ Len(roots) > 1
      /\ calls' = calls \cup JoinCalls
      /\ answered' \in BOOLEAN
      /\ UNCHANGED <<peerVars, mapVars, connections, graphVars, roots, waited, faults>>
  BY DEF CallNeighbours
<1>2. roots \in Seq(Peers) /\ Len(roots) \in Nat /\ 1 \in DOMAIN roots /\ 2 \in DOMAIN roots
  BY <1>1 DEF RegistryInv, TypeOK
<1>3. First \in Peers /\ Second \in Peers /\ First # Second
  BY <1>2 DEF First, Second, RegistryInv, NoSelfNeighbour
<1>4. \A c \in JoinCalls : c \in Peers \X Peers /\ c[1] # c[2] /\ connections[c[1]] # "none"
  BY <1>3 DEF Pair
<1>5. TypeOK'
  BY <1>1, <1>4 DEF RegistryInv, TypeOK, Phases
<1>6. MapsAgree' /\ ScanState'
  BY <1>1 DEF RegistryInv, MapsAgree, ScanState
<1>7. ScannedAreKnown'
  <2>1. \A c \in JoinCalls : c[1] \in heartbeats
    BY <1>4 DEF RegistryInv, MapsAgree
  <2> QED BY <1>1, <2>1 DEF RegistryInv, ScannedAreKnown
<1>8. NoSelfNeighbour'
  BY <1>1, <1>4 DEF RegistryInv, NoSelfNeighbour
<1> QED BY <1>5, <1>6, <1>7, <1>8 DEF RegistryInv

LEMMA NextPairInv ==
    ASSUME RegistryInv, PairAnswered \/ PairLate
    PROVE  RegistryInv'
<1> USE DEF peerVars, mapVars, graphVars
<1>1. /\ pc = "wait" /\ pc' = "join" /\ roots' = Tail(roots) /\ answered' = FALSE
      /\ UNCHANGED <<peerVars, mapVars, connections, graphVars, calls>>
  BY DEF PairAnswered, PairLate, NextPair
<1>2. /\ roots \in Seq(Peers) /\ Len(roots) \in Nat /\ Len(roots) > 1
  BY <1>1 DEF RegistryInv, TypeOK, ScanState
<1>3. /\ Tail(roots) \in Seq(Peers)
      /\ \A i \in DOMAIN Tail(roots) : i + 1 \in DOMAIN roots /\ Tail(roots)[i] = roots[i + 1]
      /\ DOMAIN Tail(roots) \subseteq Nat
  BY <1>2
<1>4. waited' \in Nat
  BY RegistryAssumption DEF PairAnswered, PairLate, RegistryInv, TypeOK
<1>5. faults' \in 0..MaxFaults
  BY FaultType DEF PairAnswered, PairLate, RegistryInv
<1>6. TypeOK'
  BY <1>1, <1>3, <1>4, <1>5 DEF RegistryInv, TypeOK, Phases
<1>7. MapsAgree' /\ ScanState'
  BY <1>1 DEF RegistryInv, MapsAgree, ScanState
<1>8. ScannedAreKnown'
  BY <1>1, <1>3 DEF RegistryInv, ScannedAreKnown
<1>9. NoSelfNeighbour'
  BY <1>1, <1>3 DEF RegistryInv, NoSelfNeighbour
<1> QED BY <1>6, <1>7, <1>8, <1>9 DEF RegistryInv

LEMMA EndScanInv ==
    ASSUME RegistryInv, EndScan
    PROVE  RegistryInv'
<1> USE DEF peerVars, mapVars, graphVars
<1>1. /\ pc = "join" /\ pc' = "idle" /\ roots' = <<>> /\ waited' = 0
      /\ <<>> \in Seq(Peers) /\ DOMAIN roots' = {}
      /\ UNCHANGED <<peerVars, mapVars, connections, graphVars, calls, answered, faults>>
  BY DEF EndScan
<1>2. TypeOK'
  BY <1>1 DEF RegistryInv, TypeOK, Phases
<1>3. MapsAgree' /\ ScanState' /\ ScannedAreKnown' /\ NoSelfNeighbour'
  BY <1>1 DEF RegistryInv, MapsAgree, ScanState, ScannedAreKnown, NoSelfNeighbour
<1> QED BY <1>2, <1>3 DEF RegistryInv

(* The callee has a new neighbour, another peer, and the registry may lose *)
(* a connection that it had.                                               *)
LEMMA AddNeighbourInv ==
    ASSUME RegistryInv, NEW c \in calls, AddNeighbour(c)
    PROVE  RegistryInv'
<1> USE DEF mapVars, graphVars
<1> DEFINE callee == c[1]
           added == {q \in {c[2]} : Up(callee) /\ Up(c[2])}
<1>1. /\ callee \in Peers /\ c[2] \in Peers /\ callee # c[2] /\ callee \in heartbeats
  BY DEF RegistryInv, TypeOK, NoSelfNeighbour, ScannedAreKnown
<1>2. /\ calls' = calls \ {c}
      /\ adj' = [adj EXCEPT ![callee] = @ \cup added]
      /\ connections' \in {connections, [connections EXCEPT ![callee] = "broken"]}
      /\ UNCHANGED <<status, toContact, toNotify, mapVars, pc, graphVars, roots, waited, faults>>
  <2>1. connections' = [connections EXCEPT ![callee] =
                            IF Down(callee) \/ Up(c[2]) THEN "broken" ELSE @]
    BY DEF AddNeighbour
  <2>2. connections = [connections EXCEPT ![callee] = connections[callee]]
    BY DEF RegistryInv, TypeOK
  <2> QED BY <2>1, <2>2 DEF AddNeighbour
<1>3. answered' \in BOOLEAN
  BY DEF AddNeighbour
<1>4. added \subseteq {c[2]}
  OBVIOUS
<1> HIDE DEF added, callee
<1>5. TypeOK'
  BY <1>1, <1>2, <1>3, <1>4 DEF RegistryInv, TypeOK
<1>6. MapsAgree'
  BY <1>1, <1>2 DEF RegistryInv, TypeOK, MapsAgree
<1>7. ScanState' /\ ScannedAreKnown'
  BY <1>2 DEF RegistryInv, ScanState, ScannedAreKnown
<1>8. NoSelfNeighbour'
  BY <1>1, <1>2, <1>4 DEF RegistryInv, TypeOK, NoSelfNeighbour
<1> QED BY <1>5, <1>6, <1>7, <1>8 DEF RegistryInv

LEMMA RegistryStartInv ==
    ASSUME RegistryInv, RegistryStart
    PROVE  RegistryInv'
<1> USE DEF peerVars, mapVars, graphVars, joinVars
<1>1. /\ pc = "dead" /\ pc' = "idle"
      /\ UNCHANGED <<peerVars, mapVars, connections, graphVars, joinVars, faults>>
  BY DEF RegistryStart
<1>2. TypeOK'
  BY <1>1 DEF RegistryInv, TypeOK, Phases
<1>3. MapsAgree' /\ ScanState' /\ ScannedAreKnown' /\ NoSelfNeighbour'
  BY <1>1 DEF RegistryInv, MapsAgree, ScanState, ScannedAreKnown, NoSelfNeighbour
<1> QED BY <1>2, <1>3 DEF RegistryInv

-----------------------------------------------------------------------------
(* The theorems.                                                           *)

LEMMA InvStep == RegistryInv /\ [Next]_vars => RegistryInv'
<1> SUFFICES ASSUME RegistryInv, [Next]_vars PROVE RegistryInv'
  OBVIOUS
<1>1. ASSUME Scan PROVE RegistryInv'
  <2>1. ASSUME NilMapPanic PROVE RegistryInv'
    BY <2>1, DiesInv DEF NilMapPanic
  <2> QED
    BY <1>1, <2>1, AnswerInv, FindComponentsInv, CallNeighboursInv, NextPairInv, EndScanInv
       DEF Scan
<1>2. ASSUME NEW p \in Peers, Handler(p) \/ Crash(p) PROVE RegistryInv'
  <2>1. ASSUME HeartbeatPanic(p) \/ Crash(p) PROVE RegistryInv'
    BY <2>1, StopsInv DEF HeartbeatPanic, Crash
  <2> QED BY <1>2, <2>1, PeerEnterInv, EntryFailsInv, HeartbeatInv DEF Handler
<1>3. ASSUME RegistryCrash PROVE RegistryInv'
  BY <1>3, DiesInv DEF RegistryCrash
<1>4. CASE UNCHANGED vars
  BY <1>4 DEF vars, peerVars, mapVars, graphVars, joinVars, RegistryInv, TypeOK, MapsAgree,
              ScanState, ScannedAreKnown, NoSelfNeighbour
<1> QED
  BY <1>1, <1>2, <1>3, <1>4, StartScanInv, CheckForDeadPeersInv, SilenceInv, EntryInv, LinkInv,
     AddNeighbourInv, RegistryStartInv DEF Next

(* The maps of the registry keep the same keys, the scan has left no graph *)
(* behind when it ends, and what it holds stays true of peers that come,   *)
(* stop and answer late, through the crashes of the registry itself.       *)
THEOREM RegistryInvariant == Spec => []RegistryInv
BY InvInit, InvStep, PTL DEF Spec

(* buildGraph and unifyTwoComponents look the connections of peers up and  *)
(* call through them unchecked (graph.go:22, network_monitor.go:94): each  *)
(* one is in the map.                                                      *)
THEOREM ScannedAreConnected ==
    Spec => [](\A p \in Peers :
                    p \in toAsk \/ (\E i \in DOMAIN roots : roots[i] = p)
                        => connections[p] # "none")
<1>1. RegistryInv => \A p \in Peers :
                    p \in toAsk \/ (\E i \in DOMAIN roots : roots[i] = p)
                        => connections[p] # "none"
  BY DEF RegistryInv, MapsAgree, ScannedAreKnown
<1> QED BY RegistryInvariant, <1>1, PTL

(* Nor does the registry make a peer its own neighbour: not when it enters *)
(* (network_monitor.go:120), nor when components are joined.               *)
THEOREM NeverItsOwnNeighbour == Spec => []NoSelfNeighbour
<1>1. RegistryInv => NoSelfNeighbour
  BY DEF RegistryInv
<1> QED BY RegistryInvariant, <1>1, PTL
=============================================================================
