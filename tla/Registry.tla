------------------------------ MODULE Registry ------------------------------
(***************************************************************************)
(* The registry (registry/services) and the overlay network of edge peers  *)
(* it keeps together: peers enter and are given neighbours, send           *)
(* heartbeats, and are forgotten when they are silent; a monitor asks each *)
(* known peer for its neighbours, finds the connected components of the    *)
(* graph they form and joins them.                                         *)
(*                                                                         *)
(* The monitor holds the mutex of the registry for the whole scan, so that *)
(* entries, heartbeats and checks find pc = "idle"; the peers go on        *)
(* meanwhile.  Of a peer this module has what the registry sees or causes: *)
(* its neighbours, and how entering, pings and losses change them.  A peer *)
(* listens on a port the system chose: one that restarts is another        *)
(* element of Peers.                                                       *)
(***************************************************************************)
EXTENDS PeerGraph

CONSTANTS
    Peers,          \* addresses of edge peers
    RegistryWait,   \* MAX_WAITING_TIME_FOR_REGISTRY
    EdgeWait,       \* MAX_WAITING_TIME_FOR_EDGE
    MaxFaults,      \* links lost, late answers, silences and stops, all told
    Crashes         \* peers may stop

ASSUME RegistryAssumption ==
    /\ IsFiniteSet(Peers)
    /\ RegistryWait \in Nat /\ EdgeWait \in Nat /\ MaxFaults \in Nat
    /\ Crashes \in BOOLEAN

VARIABLES
    status,         \* of each peer: "out", "up" or "down"
    adj,            \* keys of the peerConns of each peer
    toContact,      \* neighbours of its entry a peer has still to connect to
    toNotify,       \* the one it is connected to and has still to notify
    heartbeats,     \* keys of heartbeats
    quiet,          \* those silent for more than HEARTBEAT_THR
    late,           \* those that were so at heartbeatCheckTime, and still are
    connections,    \* of each peer: "none", "open", or "broken" in the map
    pc,             \* where the monitor is; "dead": the registry has stopped
    toAsk,          \* peers buildGraph has still to ask
    nodes, nilMaps, \* keys of the graph, and those whose value is a nil map
    links,          \* its values
    roots,          \* connectedComponents, each of which has one peer
    calls,          \* calls of AddNeighbour in flight, <<callee, argument>>
    answered,       \* a call for the pair at hand has ended
    waited,         \* time spent in timeouts during this scan
    faults

peerVars == <<status, adj, toContact, toNotify>>
mapVars == <<heartbeats, quiet, late>>
graphVars == <<toAsk, nodes, nilMaps, links>>
joinVars == <<roots, calls, answered, waited>>
vars == <<peerVars, mapVars, connections, pc, graphVars, joinVars, faults>>

(* idle: nobody holds the mutex.  ask: buildGraph.  join: before the calls *)
(* for a pair of components.  wait: after them.                            *)
Phases == {"idle", "ask", "join", "wait", "dead"}

TypeOK ==
    /\ status \in [Peers -> {"out", "up", "down"}]
    /\ adj \in [Peers -> SUBSET Peers]
    /\ toContact \in [Peers -> SUBSET Peers] /\ toNotify \in [Peers -> SUBSET Peers]
    /\ heartbeats \subseteq Peers /\ late \subseteq quiet /\ quiet \subseteq heartbeats
    /\ connections \in [Peers -> {"none", "open", "broken"}]
    /\ pc \in Phases
    /\ toAsk \subseteq Peers /\ nodes \subseteq Peers /\ nilMaps \subseteq nodes
    /\ links \in [Peers -> SUBSET Peers]
    /\ roots \in Seq(Peers)
    /\ calls \subseteq Peers \X Peers
    /\ answered \in BOOLEAN
    /\ waited \in Nat
    /\ faults \in 0..MaxFaults

Nobody == [p \in Peers |-> {}]
NoGraph == toAsk = {} /\ nodes = {} /\ nilMaps = {} /\ links = Nobody /\ roots = <<>>

Init ==
    /\ status = [p \in Peers |-> "out"]
    /\ adj = Nobody /\ toContact = Nobody /\ toNotify = Nobody
    /\ heartbeats = {} /\ quiet = {} /\ late = {}
    /\ connections = [p \in Peers |-> "none"]
    /\ pc = "idle"
    /\ NoGraph
    /\ calls = {} /\ answered = FALSE /\ waited = 0
    /\ faults = 0

Up(p) == status[p] = "up"
Down(p) == status[p] = "down"
Fault == faults < MaxFaults /\ faults' = faults + 1

-----------------------------------------------------------------------------
(* Entries, heartbeats and the check of heartbeats, under the mutex. *)

(* What findNeighboursForPeer may return: one of the other known peers for *)
(* certain, the others by chance.                                          *)
NeighboursFor(p) ==
    LET others == heartbeats \ {p}
    IN  {N \in SUBSET others : others # {} => N # {}}

(* A handler takes the time of a peer, known or not.  Variant: only of one *)
(* that is.                                                                *)
RegisterKnown(p) ==
    /\ heartbeats' = heartbeats
    /\ quiet' = quiet \ {p} /\ late' = late \ {p}
Register(p) ==
    /\ heartbeats' = heartbeats \cup {p}
    /\ quiet' = quiet \ {p} /\ late' = late \ {p}

PeerEnter(p) ==
    /\ pc = "idle" /\ status[p] = "out"
    /\ status' = [status EXCEPT ![p] = "up"]
    /\ \E N \in NeighboursFor(p) : toContact' = [toContact EXCEPT ![p] = N]
    /\ Register(p)
    /\ connections' = [connections EXCEPT ![p] = "open"]
    /\ UNCHANGED <<adj, toNotify, pc, graphVars, joinVars, faults>>

(* A peer whose entry is late or fails exits. *)
EntryFails(p) ==
    /\ pc # "idle" /\ status[p] = "out"
    /\ Fault
    /\ status' = [status EXCEPT ![p] = "down"]
    /\ UNCHANGED <<adj, toContact, toNotify, mapVars, connections, pc, graphVars,
                   joinVars>>

(* The connection to a peer after its heartbeat: only a peer that is not   *)
(* known gets a new one.                                                   *)
ConnectionAfterHeartbeat(p) == IF p \in heartbeats THEN connections[p] ELSE "open"

Heartbeat(p) ==
    /\ pc = "idle" /\ Up(p)
    /\ connections' = [connections EXCEPT ![p] = ConnectionAfterHeartbeat(p)]
    /\ Register(p)
    /\ UNCHANGED <<peerVars, pc, graphVars, joinVars, faults>>

(* A peer stops, and the registry's connection to it breaks. *)
Stops(p) ==
    /\ status' = [status EXCEPT ![p] = "down"]
    /\ adj' = [adj EXCEPT ![p] = {}]
    /\ toContact' = [toContact EXCEPT ![p] = {}]
    /\ toNotify' = [toNotify EXCEPT ![p] = {}]
    /\ connections' = [connections EXCEPT ![p] = IF @ = "open" THEN "broken" ELSE @]
    /\ UNCHANGED <<mapVars, pc, graphVars, joinVars>>

(* The monitor keeps the heartbeat of a peer waiting for more than         *)
(* EdgeWait: the peer logs the error of a call that has none, and stops.   *)
HeartbeatPanic(p) ==
    /\ pc \notin {"idle", "dead"} /\ waited > EdgeWait /\ Up(p)
    /\ Stops(p)
    /\ UNCHANGED faults

(* HEARTBEAT_THR passes with no heartbeat from p. *)
Silence(p) ==
    /\ p \in heartbeats \ quiet
    /\ quiet' = quiet \cup {p}
    /\ IF Up(p) THEN Fault ELSE UNCHANGED faults
    /\ UNCHANGED <<peerVars, heartbeats, late, connections, pc, graphVars, joinVars>>

(* The peers that will be late at the next check, if they stay silent.     *)
(* Variant: none.                                                          *)
NobodyLate == {}
LateNext == quiet \ late

(* The connections to the peers that are forgotten go with their           *)
(* heartbeats.  Variant: they stay in the map.                             *)
AllConnections == connections
ConnectionsLeft == [p \in Peers |-> IF p \in late THEN "none" ELSE connections[p]]

(* checkForDeadPeers: a heartbeat is compared with the previous check.     *)
CheckForDeadPeers ==
    /\ pc = "idle"
    /\ heartbeats' = heartbeats \ late
    /\ quiet' = quiet \ late
    /\ late' = LateNext
    /\ connections' = ConnectionsLeft
    /\ calls' = {c \in calls : c[1] \notin late}
    /\ UNCHANGED <<peerVars, pc, graphVars, roots, answered, waited, faults>>

-----------------------------------------------------------------------------
(* buildGraph. *)

StartScan ==
    /\ pc = "idle"
    /\ pc' = "ask"
    /\ toAsk' = {p \in heartbeats : connections[p] # "none"}
    /\ UNCHANGED <<peerVars, mapVars, connections, nodes, nilMaps, links, joinVars,
                   faults>>

Asked(p) == toAsk' = toAsk \ {p}

(* The neighbours of a peer that answers. *)
AnswerNeighbours(p) ==
    /\ pc = "ask" /\ p \in toAsk /\ connections[p] = "open" /\ Up(p)
    /\ Asked(p)
    /\ nodes' = nodes \cup {p}
    /\ links' = [links EXCEPT ![p] = adj[p]]
    /\ UNCHANGED <<peerVars, mapVars, connections, pc, nilMaps, joinVars, faults>>

(* The call fails: the peer gets a nil map of neighbours. *)
AnswerError(p) ==
    /\ pc = "ask" /\ p \in toAsk /\ (connections[p] = "broken" \/ ~Up(p))
    /\ Asked(p)
    /\ nodes' = nodes \cup {p}
    /\ nilMaps' = nilMaps \cup {p}
    /\ UNCHANGED <<peerVars, mapVars, connections, pc, links, joinVars, faults>>

(* No answer in time: the peer is not in the graph. *)
AnswerLate(p) ==
    /\ pc = "ask" /\ p \in toAsk
    /\ Fault
    /\ Asked(p)
    /\ waited' = waited + RegistryWait
    /\ UNCHANGED <<peerVars, mapVars, connections, pc, nodes, nilMaps, links, roots,
                   calls, answered>>

(* The neighbours that have a heartbeat. *)
Known(p) == links[p] \cap heartbeats

(* The peers whose map the second loop of buildGraph writes. *)
Written == {q \in nodes : \E p \in nodes : q \in Known(p)}

(* Everything the registry has in memory is lost. *)
Dies ==
    /\ pc' = "dead"
    /\ heartbeats' = {} /\ quiet' = {} /\ late' = {}
    /\ connections' = [p \in Peers |-> "none"]
    /\ toAsk' = {} /\ nodes' = {} /\ nilMaps' = {} /\ links' = Nobody
    /\ roots' = <<>>
    /\ calls' = {} /\ answered' = FALSE /\ waited' = 0

(* A write to a nil map. *)
NilMapPanic ==
    /\ pc = "ask" /\ toAsk = {}
    /\ Written \cap nilMaps # {}
    /\ Dies
    /\ UNCHANGED <<peerVars, faults>>

(* The graph is known.  FindConnectedComponents returns, in any order, one *)
(* peer of each component, as ConnectedComponents shows.                   *)
FindComponents ==
    /\ pc = "ask" /\ toAsk = {}
    /\ Written \cap nilMaps = {}
    /\ pc' = "join"
    /\ \E n \in 0..Cardinality(nodes) : \E found \in [1..n -> nodes] :
        /\ OneOfEach(found, nodes, Undirected(nodes, [p \in Peers |-> Known(p)]))
        /\ roots' = found
    /\ nodes' = {} /\ nilMaps' = {} /\ links' = Nobody
    /\ UNCHANGED <<peerVars, mapVars, connections, toAsk, calls, answered, waited, faults>>

-----------------------------------------------------------------------------
(* unifyNetwork: the components are joined two by two.  The head of roots  *)
(* is the first component of the pair at hand.                             *)

First == roots[1]
Second == roots[2]

(* The calls of unifyTwoComponents, of one peer per component.  A call on  *)
(* a broken connection ends at once.  Variant: no calls.                   *)
NoCalls == {}
Pair == {<<First, Second>>, <<Second, First>>}
JoinCalls == {c \in Pair : connections[c[1]] = "open"}

CallNeighbours ==
    /\ pc = "join" /\ Len(roots) > 1
    /\ pc' = "wait"
    /\ calls' = calls \cup JoinCalls
    /\ answered' = (JoinCalls # Pair)
    /\ UNCHANGED <<peerVars, mapVars, connections, graphVars, roots, waited, faults>>

NextPair == pc' = "join" /\ roots' = Tail(roots) /\ answered' = FALSE

(* One of the two calls has ended, well or not. *)
PairAnswered ==
    /\ pc = "wait" /\ answered
    /\ NextPair
    /\ UNCHANGED <<peerVars, mapVars, connections, graphVars, calls, waited, faults>>

(* Neither has, in time: they may do so later. *)
PairLate ==
    /\ pc = "wait"
    /\ Fault
    /\ NextPair
    /\ waited' = waited + RegistryWait
    /\ UNCHANGED <<peerVars, mapVars, connections, graphVars, calls>>

EndScan ==
    /\ pc = "join" /\ Len(roots) <= 1
    /\ pc' = "idle"
    /\ roots' = <<>>
    /\ waited' = 0
    /\ UNCHANGED <<peerVars, mapVars, connections, graphVars, calls, answered, faults>>

(* The other end of a call: AddNeighbour connects to the peer it is given. *)
(* The reply is decoded into an argument that is not a pointer, which      *)
(* breaks the connection of the registry and ends every call on it; the    *)
(* reply to a call that fails is not decoded.                              *)
AddNeighbour(c) ==
    LET callee == c[1]
        peer == c[2]
        breaks == Down(callee) \/ Up(peer)
    IN  /\ c \in calls
        /\ calls' = calls \ {c}
        /\ adj' = [adj EXCEPT ![callee] = @ \cup {q \in {peer} : Up(callee) /\ Up(peer)}]
        /\ connections' = [connections EXCEPT ![callee] = IF breaks THEN "broken" ELSE @]
        /\ answered' = (answered \/ (pc = "wait" /\ (c \in Pair
                                      \/ (breaks /\ callee \in {First, Second}))))
        /\ UNCHANGED <<status, toContact, toNotify, mapVars, pc, graphVars, roots, waited,
                       faults>>

-----------------------------------------------------------------------------
(* The peers. *)

(* connectAndNotifyYourAdjacent: a neighbour that does not answer is       *)
(* ignored, any other becomes one ...                                      *)
ConnectToNeighbour(p, q) ==
    /\ Up(p) /\ toNotify[p] = {} /\ q \in toContact[p]
    /\ toContact' = [toContact EXCEPT ![p] = @ \ {q}]
    /\ adj' = [adj EXCEPT ![p] = @ \cup {n \in {q} : Up(n)}]
    /\ toNotify' = [toNotify EXCEPT ![p] = {n \in {q} : Up(n)}]
    /\ UNCHANGED <<status, mapVars, connections, pc, graphVars, joinVars, faults>>

(* ... and is called to do the same.                                       *)
NotifyNeighbour(p, q) ==
    /\ Up(p) /\ q \in toNotify[p]
    /\ toNotify' = [toNotify EXCEPT ![p] = {}]
    /\ adj' = [adj EXCEPT ![q] = @ \cup {n \in {p} : Up(q)}]
    /\ UNCHANGED <<status, toContact, mapVars, connections, pc, graphVars, joinVars,
                   faults>>

(* Ping: the peer that answers adds the one that calls. *)
Ping(p, q) ==
    /\ Up(p) /\ Up(q) /\ q \in adj[p]
    /\ adj' = [adj EXCEPT ![q] = @ \cup {p}]
    /\ UNCHANGED <<status, toContact, toNotify, mapVars, connections, pc, graphVars,
                   joinVars, faults>>

(* timeoutAction: a neighbour that has missed too many pings is removed.   *)
LoseNeighbour(p, q) ==
    /\ Up(p) /\ q \in adj[p]
    /\ IF Up(q) THEN Fault ELSE UNCHANGED faults
    /\ adj' = [adj EXCEPT ![p] = @ \ {q}]
    /\ UNCHANGED <<status, toContact, toNotify, mapVars, connections, pc, graphVars,
                   joinVars>>

Crash(p) ==
    /\ Crashes /\ Up(p)
    /\ Fault
    /\ Stops(p)

(* The registry stops, and starts again with empty maps. *)
RegistryCrash ==
    /\ Crashes /\ pc # "dead"
    /\ Fault
    /\ Dies
    /\ UNCHANGED peerVars

RegistryStart ==
    /\ pc = "dead"
    /\ pc' = "idle"
    /\ UNCHANGED <<peerVars, mapVars, connections, graphVars, joinVars, faults>>

-----------------------------------------------------------------------------
Scan ==
    \/ \E p \in Peers : AnswerNeighbours(p) \/ AnswerError(p) \/ AnswerLate(p)
    \/ NilMapPanic \/ FindComponents
    \/ CallNeighbours \/ PairAnswered \/ PairLate \/ EndScan

Handler(p) == PeerEnter(p) \/ EntryFails(p) \/ Heartbeat(p) \/ HeartbeatPanic(p)

Entry(p) == \E q \in Peers : ConnectToNeighbour(p, q) \/ NotifyNeighbour(p, q)

Next ==
    \/ StartScan \/ Scan \/ CheckForDeadPeers
    \/ \E p \in Peers : Handler(p) \/ Silence(p) \/ Entry(p) \/ Crash(p)
    \/ \E p, q \in Peers : Ping(p, q) \/ LoseNeighbour(p, q)
    \/ \E c \in calls : AddNeighbour(c)
    \/ RegistryCrash \/ RegistryStart

Spec == Init /\ [][Next]_vars

(* The mutex serves those that wait for it in turn, timers expire again    *)
(* and again, and calls are delivered.                                     *)
Fairness ==
    /\ SF_vars(StartScan) /\ WF_vars(Scan) /\ SF_vars(CheckForDeadPeers)
    /\ \A p \in Peers :
        /\ SF_vars(Heartbeat(p)) /\ WF_vars(Silence(p) /\ Down(p)) /\ WF_vars(Entry(p))
    /\ \A c \in Peers \X Peers : WF_vars(AddNeighbour(c))
    /\ WF_vars(RegistryStart)

FairSpec == Spec /\ Fairness

-----------------------------------------------------------------------------
(* Properties. *)

Members == {p \in Peers : Up(p)}
Neighbours == [p \in Peers |-> adj[p] \cup {q \in Peers : p \in adj[q]}]
Connected == \A p, q \in Members : Reaches(p, q, Members, Neighbours)

(* A partition of the peers is joined again: "Solves network partitions"   *)
(* (network_monitor.go:69).  Not when the registry stops, nor when it has  *)
(* lost a connection to a peer that runs, as it does in joining it.        *)
PartitionSolved ==
    ~Connected ~> \/ Connected \/ pc = "dead"
                  \/ \E p \in Members : connections[p] = "broken"

(* A peer that has stopped is forgotten.                                   *)
DeadForgotten == \A p \in Peers : Down(p) ~> p \notin heartbeats

(* A peer that runs is known, also after the registry has taken it for     *)
(* dead or has itself been restarted (registry_services.go:69).            *)
LiveBecomesKnown == \A p \in Peers : Up(p) ~> (p \in heartbeats \/ Down(p))

(* The monitor outlives the peers: its scan is "necessary for PeerExit and *)
(* for PeerCrash too" (network_monitor.go:53).                             *)
MonitorSurvives == pc = "ask" /\ toAsk = {} => Written \cap nilMaps = {}

-----------------------------------------------------------------------------
(* What holds of the maps of the registry, of the scan and of the network  *)
(* in every state.                                                         *)

(* heartbeats and connections have the same keys.  Heartbeat connects only *)
(* to a peer that has no heartbeat.                                        *)
MapsAgree == \A p \in Peers : p \in heartbeats <=> connections[p] # "none"

(* A scan leaves no graph behind, and joins two components at a time.      *)
ScanState ==
    /\ pc # "ask" => toAsk = {} /\ nodes = {}
    /\ pc \notin {"join", "wait"} => roots = <<>>
    /\ pc = "wait" => Len(roots) > 1
    /\ pc = "dead" => heartbeats = {}

(* The peers that a scan has still to ask or to join, and those whose call *)
(* is in flight, are known: the scan looks their connections up without    *)
(* checking that they are there.                                           *)
ScannedAreKnown ==
    /\ toAsk \cup nodes \subseteq heartbeats
    /\ \A i \in DOMAIN roots : roots[i] \in heartbeats
    /\ \A c \in calls : c[1] \in heartbeats

(* No peer is given itself as a neighbour: not at its entry, nor when      *)
(* components are joined, for these are different.                         *)
NoSelfNeighbour ==
    /\ \A p \in Peers : p \notin adj[p] /\ p \notin toContact[p] /\ p \notin toNotify[p]
    /\ \A i, j \in DOMAIN roots : roots[i] = roots[j] => i = j
    /\ \A c \in calls : c[1] # c[2]

RegistryInv == TypeOK /\ MapsAgree /\ ScanState /\ ScannedAreKnown /\ NoSelfNeighbour
=============================================================================
