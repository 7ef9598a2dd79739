---------------------------- MODULE LoadBalancer ----------------------------
(***************************************************************************)
(* The load balancer (load_balancer/services) between the clients that ask *)
(* it for an edge node and the edge nodes that tell it, by heartbeats and  *)
(* by the end of their jobs, how loaded they are.                          *)
(*                                                                         *)
(* A Go map is a set of keys and a total function that is 0 outside them,  *)
(* as a read of a missing key is.  Times are ages: a heartbeat's and the   *)
(* last check's.  A clock tick is as long as one likes, TimeToCheck and    *)
(* Threshold are MONITOR_TIMER and HEARTBEAT_THR in ticks.  An edge node   *)
(* listens on a port the system chose, so one that restarts is another     *)
(* element of Edges.                                                       *)
(***************************************************************************)
EXTENDS Integers, FiniteSets

CONSTANTS
    Edges,          \* addresses of edge nodes
    NoEdge,
    Requests,       \* client requests, each made once
    FirstNumbers,   \* values GenerateUniqueRandomID may return
    Weight,         \* RECEIVED_WORKLOAD_WEIGHT, in hundredths
    TimeToCheck,    \* MONITOR_TIMER
    Threshold,      \* HEARTBEAT_THR
    Punctual,       \* edges whose heartbeats arrive every HeartbeatPeriod
    HeartbeatPeriod,
    BalancerCrashes,
    Fragile         \* edge nodes that may crash

ASSUME EdgesAssumption ==
    /\ IsFiniteSet(Requests) /\ NoEdge \notin Edges /\ Punctual \subseteq Edges
ASSUME NumbersAssumption ==
    /\ FirstNumbers \subseteq Nat /\ FirstNumbers # {}
    /\ Weight \in 0..100
ASSUME TimersAssumption ==
    /\ TimeToCheck \in Nat \ {0} /\ Threshold \in Nat
    /\ HeartbeatPeriod \in Nat /\ HeartbeatPeriod <= Threshold
ASSUME CrashAssumption == BalancerCrashes \in BOOLEAN /\ Fragile \subseteq Edges

VARIABLES
    up,             \* the balancer is running
    servers,        \* keys of edgeServerMap
    load,           \* values of edgeServerMap
    heard,          \* keys of heartbeats
    age,            \* time since heartbeats[e]
    sinceCheck,     \* time since heartbeatCheckTime
    sequenceNumber,
    pc,             \* where each request is
    edge,           \* edge node the balancer gave it
    number,         \* request id the balancer gave it
    running,        \* edge nodes that are running
    started,        \* edge nodes that have been started
    heartbeat,      \* load in the heartbeat each edge has sent, -1 for none
    workload,       \* the global of server.go that goes into heartbeats
    currentWorkload \* the field of FileServiceServer that counts requests

balancerVars == <<servers, load, heard, age, sinceCheck, sequenceNumber>>
requestVars == <<pc, edge, number>>
edgeVars == <<running, started, heartbeat, workload, currentWorkload>>
vars == <<up, balancerVars, requestVars, edgeVars>>

(* new: not made yet.  picked, numbered: inside GetEdge.  answered: the    *)
(* client has an edge.  serving: the edge works on it.  ending: it has     *)
(* still to tell the balancer.  ended: the balancer knows.  lost: it never *)
(* will.  refused: the client got no edge.                                 *)
Stages == {"new", "picked", "numbered", "answered", "serving", "ending",
           "ended", "lost", "refused"}

NoMessage == -1

TypeOK ==
    /\ up \in BOOLEAN
    /\ servers \subseteq Edges /\ load \in [Edges -> Nat]
    /\ heard \subseteq Edges /\ age \in [Edges -> Nat]
    /\ sinceCheck \in 0..TimeToCheck
    /\ sequenceNumber \in Nat
    /\ pc \in [Requests -> Stages]
    /\ edge \in [Requests -> Edges \cup {NoEdge}]
    /\ number \in [Requests -> Nat]
    /\ running \subseteq started /\ started \subseteq Edges
    /\ heartbeat \in [Edges -> Nat \cup {NoMessage}]
    /\ workload \in [Edges -> Nat] /\ currentWorkload \in [Edges -> Int]

Nowhere == [e \in Edges |-> 0]

Init ==
    /\ up = TRUE
    /\ servers = {} /\ load = Nowhere
    /\ heard = {} /\ age = Nowhere
    /\ sinceCheck = 0
    /\ sequenceNumber \in FirstNumbers
    /\ pc = [r \in Requests |-> "new"]
    /\ edge = [r \in Requests |-> NoEdge]
    /\ number = [r \in Requests |-> 0]
    /\ running = {} /\ started = {}
    /\ heartbeat = [e \in Edges |-> NoMessage]
    /\ workload = Nowhere /\ currentWorkload = Nowhere

-----------------------------------------------------------------------------
(* GetEdge. *)

Goto(r, stage) == pc' = [pc EXCEPT ![r] = stage]

LeastLoaded == {e \in servers : \A d \in servers : load[e] <= load[d]}

(* pickEdgeServer, under mapMutex.  The order of a Go map is random, so    *)
(* the sequence number may select any of the least loaded.                 *)
PickEdgeServer(r) ==
    /\ up /\ pc[r] = "new"
    /\ \E e \in LeastLoaded :
        /\ load' = [load EXCEPT ![e] = @ + 1]
        /\ edge' = [edge EXCEPT ![r] = e]
    /\ Goto(r, "picked")
    /\ UNCHANGED <<up, servers, heard, age, sinceCheck, sequenceNumber, number, edgeVars>>

(* The login fails, no edge is available or the balancer is down. *)
Refuse(r) ==
    /\ pc[r] = "new"
    /\ Goto(r, "refused")
    /\ UNCHANGED <<up, balancerVars, edge, number, edgeVars>>

(* The request id is read without sequenceMutex ...                        *)
ReadSequenceNumber(r) ==
    /\ up /\ pc[r] = "picked"
    /\ number' = [number EXCEPT ![r] = sequenceNumber]
    /\ Goto(r, "numbered")
    /\ UNCHANGED <<up, balancerVars, edge, edgeVars>>

(* ... and incremented under it. *)
IncrementSequenceNumber(r) ==
    /\ up /\ pc[r] = "numbered"
    /\ sequenceNumber' = sequenceNumber + 1
    /\ Goto(r, "answered")
    /\ UNCHANGED <<up, servers, load, heard, age, sinceCheck, edge, number, edgeVars>>

-----------------------------------------------------------------------------
(* The request at the edge node. *)

(* The client calls the edge it was given. *)
ContactEdge(r) ==
    /\ pc[r] = "answered" /\ edge[r] \in running
    /\ currentWorkload' = [currentWorkload EXCEPT ![edge[r]] = @ + 1]
    /\ Goto(r, "serving")
    /\ UNCHANGED <<up, balancerVars, edge, number, running, started, heartbeat, workload>>

(* The client gives up, or finds the edge gone. *)
Abandon(r) ==
    /\ pc[r] = "answered"
    /\ Goto(r, "lost")
    /\ UNCHANGED <<up, balancerVars, edge, number, edgeVars>>

(* The deferred notifyJobEnd calls the balancer. *)
FinishJob(r) ==
    /\ pc[r] = "serving"
    /\ Goto(r, "ending")
    /\ UNCHANGED <<up, balancerVars, edge, number, edgeVars>>

(* decrementWorkload, when the call of notifyJobEnd has returned. *)
DecrementWorkload(r) ==
    currentWorkload' = IF edge[r] \in running
                       THEN [currentWorkload EXCEPT ![edge[r]] = @ - 1]
                       ELSE currentWorkload

(* The load of an edge node after one of its jobs.  Variants: decremented  *)
(* whatever it is, and not at all.                                         *)
LoadAlwaysLess(e) == load[e] - 1
LoadUnchanged(e) == load[e]
LoadAfterJob(e) == IF e \in servers /\ load[e] > 0 THEN load[e] - 1 ELSE load[e]

(* NotifyJobEnd, under mapMutex. *)
NotifyJobEnd(r) ==
    /\ up /\ pc[r] = "ending"
    /\ load' = [load EXCEPT ![edge[r]] = LoadAfterJob(edge[r])]
    /\ DecrementWorkload(r)
    /\ Goto(r, "ended")
    /\ UNCHANGED <<up, servers, heard, age, sinceCheck, sequenceNumber, edge, number,
                   running, started, heartbeat, workload>>

(* The balancer cannot be reached, or the heartbeat goroutine has closed   *)
(* the connection they share.                                              *)
NotifyFails(r) ==
    /\ pc[r] = "ending"
    /\ DecrementWorkload(r)
    /\ Goto(r, "lost")
    /\ UNCHANGED <<up, balancerVars, edge, number, running, started, heartbeat, workload>>

-----------------------------------------------------------------------------
(* Heartbeats. *)

StartEdge(e) ==
    /\ e \notin started
    /\ started' = started \cup {e}
    /\ running' = running \cup {e}
    /\ UNCHANGED <<up, balancerVars, requestVars, heartbeat, workload, currentWorkload>>

(* heartbeatFunction: the next one is sent after the reply to this one. *)
SendHeartbeat(e) ==
    /\ e \in running /\ heartbeat[e] = NoMessage
    /\ heartbeat' = [heartbeat EXCEPT ![e] = workload[e]]
    /\ UNCHANGED <<up, balancerVars, requestVars, running, started, workload, currentWorkload>>

(* Variant of WeightedLoad: the mean is rounded up. *)
WeightedLoadUp(current, received) ==
    (current * (100 - Weight) + received * Weight + 99) \div 100

(* int(current * (1 - weight) + received * weight) *)
WeightedLoad(current, received) ==
    (current * (100 - Weight) + received * Weight) \div 100

(* Heartbeat, under mapMutex. *)
Heartbeat(e) ==
    /\ up /\ heartbeat[e] # NoMessage
    /\ heartbeat' = [heartbeat EXCEPT ![e] = NoMessage]
    /\ load' = [load EXCEPT ![e] = IF e \in heard THEN WeightedLoad(load[e], heartbeat[e])
                                                  ELSE heartbeat[e]]
    /\ servers' = servers \cup {e}
    /\ heard' = heard \cup {e}
    /\ age' = [age EXCEPT ![e] = 0]
    /\ UNCHANGED <<up, sinceCheck, sequenceNumber, requestVars,
                   running, started, workload, currentWorkload>>

(* The servers that checkForDeadServers finds dead: a heartbeat is         *)
(* compared with the time of the previous check.  Variant: the times are   *)
(* subtracted the other way round.                                         *)
DeadReversed == {e \in heard : sinceCheck - age[e] > Threshold}
Dead == {e \in heard : age[e] - sinceCheck > Threshold}

(* The keys left in edgeServerMap.  Variant: all of them. *)
ServersWithDead == servers
ServersWithoutDead == servers \ Dead

(* checkForDeadServers, under mapMutex. *)
CheckForDeadServers ==
    /\ up /\ sinceCheck = TimeToCheck
    /\ servers' = ServersWithoutDead
    /\ load' = [e \in Edges |-> IF e \in Dead THEN 0 ELSE load[e]]
    /\ heard' = heard \ Dead
    /\ age' = [e \in Edges |-> IF e \in Dead THEN 0 ELSE age[e]]
    /\ sinceCheck' = 0
    /\ UNCHANGED <<up, sequenceNumber, requestVars, edgeVars>>

(* Time passes.  The check is not late, and neither are the heartbeats of  *)
(* a punctual edge.                                                        *)
Tick ==
    /\ up /\ sinceCheck < TimeToCheck
    /\ \A e \in Punctual \cap running \cap heard : age[e] < HeartbeatPeriod
    /\ sinceCheck' = sinceCheck + 1
    /\ age' = [e \in Edges |-> IF e \in heard THEN age[e] + 1 ELSE 0]
    /\ UNCHANGED <<up, servers, load, heard, sequenceNumber, requestVars, edgeVars>>

-----------------------------------------------------------------------------
(* Failures. *)

(* The edge stops, for instance because the error it logs after a call     *)
(* that timed out is nil.  Its requests are cut; what it has sent to the   *)
(* balancer may still arrive.                                              *)
EdgeCrash(e) ==
    /\ e \in Fragile \cap running
    /\ running' = running \ {e}
    /\ currentWorkload' = [currentWorkload EXCEPT ![e] = 0]
    /\ pc' = [r \in Requests |-> IF edge[r] = e /\ pc[r] = "serving"
                                 THEN "lost" ELSE pc[r]]
    /\ UNCHANGED <<up, balancerVars, edge, number, started, heartbeat, workload>>

(* The balancer stops: its maps are lost and the calls in progress fail.   *)
BalancerCrash ==
    /\ BalancerCrashes /\ up
    /\ up' = FALSE
    /\ servers' = {} /\ load' = Nowhere
    /\ heard' = {} /\ age' = Nowhere
    /\ sinceCheck' = 0
    /\ heartbeat' = [e \in Edges |-> NoMessage]
    /\ pc' = [r \in Requests |-> IF pc[r] \in {"picked", "numbered"} THEN "lost" ELSE pc[r]]
    /\ UNCHANGED <<sequenceNumber, edge, number, running, started, workload, currentWorkload>>

BalancerStart ==
    /\ ~up
    /\ up' = TRUE
    /\ sequenceNumber' \in FirstNumbers
    /\ UNCHANGED <<servers, load, heard, age, sinceCheck, requestVars, edgeVars>>

-----------------------------------------------------------------------------
RequestStep(r) ==
    \/ PickEdgeServer(r) \/ Refuse(r) \/ ReadSequenceNumber(r)
    \/ IncrementSequenceNumber(r) \/ ContactEdge(r) \/ Abandon(r)
    \/ FinishJob(r) \/ NotifyJobEnd(r) \/ NotifyFails(r)

EdgeStep(e) == StartEdge(e) \/ SendHeartbeat(e) \/ Heartbeat(e) \/ EdgeCrash(e)

Next ==
    \/ \E r \in Requests : RequestStep(r)
    \/ \E e \in Edges : EdgeStep(e)
    \/ CheckForDeadServers \/ Tick \/ BalancerCrash \/ BalancerStart

Spec == Init /\ [][Next]_vars

(* Timers expire, running edge nodes go on sending heartbeats, and what is *)
(* sent to a running balancer arrives; handlers and clients go on.         *)
Fairness ==
    /\ WF_vars(Tick) /\ WF_vars(CheckForDeadServers) /\ WF_vars(BalancerStart)
    /\ \A e \in Edges : WF_vars(SendHeartbeat(e)) /\ WF_vars(Heartbeat(e))
    /\ \A r \in Requests : WF_vars(RequestStep(r))

FairSpec == Spec /\ Fairness

-----------------------------------------------------------------------------
(* Properties. *)

(* Requests given to e of whose end the balancer has not been told. *)
Owed(e) == {r \in Requests : edge[r] = e /\ pc[r] # "ended"}

(* The two maps know the same edge nodes: a server in one map only would   *)
(* be chosen forever, or never.                                            *)
MapsAgree == servers = heard

(* The load of an edge node is never overstated: whatever is lost, late or *)
(* forgotten, it is at most the number of requests given to the node whose *)
(* end the balancer has not been told.                                     *)
LoadNotOverstated == \A e \in servers : load[e] <= Cardinality(Owed(e))

(* A server that stays silent is forgotten within HEARTBEAT_THR and two    *)
(* periods of MONITOR_TIMER: one because the check looks at the time of    *)
(* the previous one, another until the next check.                         *)
SilenceIsNoticed == \A e \in heard : age[e] <= Threshold + 2 * TimeToCheck

(* An edge node whose heartbeats arrive in time stays known for as long as *)
(* it and the balancer run.                                                *)
PunctualStayKnown ==
    [][\A e \in Punctual \cap running' : up' /\ e \in servers => e \in servers']_vars

(* The load that a client which never contacts its edge, or an edge that   *)
(* fails to tell the end of a job, leaves behind does not stay: with no    *)
(* more requests every load goes back to 0.                                *)
LoadsDecay == <>[](\A e \in servers : load[e] = 0)

-----------------------------------------------------------------------------
(* What makes SilenceIsNoticed and LoadNotOverstated inductive. *)

(* The age of a heartbeat at the time of the last check. *)
SilenceInv == \A e \in heard : age[e] - sinceCheck <= Threshold + TimeToCheck

(* Edge nodes report the initial value of workload, and a request has an   *)
(* edge node once it is picked.                                            *)
ReportInv ==
    /\ workload = Nowhere
    /\ \A e \in Edges : heartbeat[e] \in {0, NoMessage}
    /\ \A r \in Requests : pc[r] = "new" => edge[r] = NoEdge
    /\ \A r \in Requests : pc[r] \in Stages \ {"new", "refused"} => edge[r] \in Edges

(* A missing key reads as 0. *)
UnknownIdle == \A e \in Edges \ servers : load[e] = 0

LoadInv == \A e \in Edges : load[e] <= Cardinality(Owed(e))

BalancerInv == TypeOK /\ MapsAgree /\ SilenceInv /\ ReportInv /\ UnknownIdle /\ LoadInv

(* What makes PunctualStayKnown hold: only edge nodes that were started    *)
(* are heard of, and the heartbeats of the punctual ones are fresh.        *)
PunctualInv ==
    /\ heard \subseteq started
    /\ \A e \in Edges : heartbeat[e] # NoMessage => e \in started
    /\ \A e \in Punctual \cap running \cap heard : age[e] <= HeartbeatPeriod
=============================================================================
