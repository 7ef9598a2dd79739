------------------------- MODULE LoadBalancerProofs -------------------------
(***************************************************************************)
(* Theorems about LoadBalancer, for any edge nodes, requests, weight and   *)
(* timers, with crashes of the balancer and of the edge nodes.  The first  *)
(* four conjuncts of BalancerInv are preserved by themselves (BasicStep);  *)
(* the bound on the loads needs a count of requests (LoadStep).            *)
(***************************************************************************)
EXTENDS LoadBalancer, FiniteSetTheorems, TLAPS

(* Abbreviations the actions are written with. *)
USE DEF LoadAfterJob, Dead, ServersWithoutDead

(* The weighted mean of a load and of 0 is not above the load. *)
LEMMA WeightedLoadBound ==
    ASSUME NEW l \in Nat
    PROVE  WeightedLoad(l, 0) \in 0..l
<1>1. 100 - Weight \in Nat /\ 100 - Weight <= 100 /\ Weight \in Nat
  BY NumbersAssumption
<1> DEFINE w == 100 - Weight
<1>2. l * w \in Nat /\ l * w <= l * 100 /\ 0 * Weight = 0
  <2>1. \A x \in Nat : x <= 100 => l * x \in Nat /\ l * x <= l * 100
    BY Z3
  <2>2. \A x \in Nat : 0 * x = 0
    BY Z3
  <2> QED BY <1>1, <2>1, <2>2
<1>3. \A x \in Nat : x <= l * 100 => x \div 100 \in 0..l
  OBVIOUS
<1>4. WeightedLoad(l, 0) = (l * w) \div 100
  BY <1>2 DEF WeightedLoad
<1> QED BY <1>2, <1>3, <1>4

-----------------------------------------------------------------------------
(* Types, the agreement of the two maps, the age of the heartbeats and the *)
(* loads that are reported.                                                *)

BasicInv == TypeOK /\ MapsAgree /\ SilenceInv /\ ReportInv /\ UnknownIdle

(* The maps of the balancer are empty at the start. *)
LEMMA BasicInit == Init => BasicInv
BY EdgesAssumption, NumbersAssumption, TimersAssumption
DEF Init, BasicInv, TypeOK, MapsAgree, SilenceInv, ReportInv, UnknownIdle,
    Nowhere, NoMessage, Stages

(* What requests and ends of jobs do to the maps keeps BasicInv. *)
LEMMA RequestBasic ==
    ASSUME BasicInv, NEW r \in Requests, RequestStep(r)
    PROVE  BasicInv'
<1> USE EdgesAssumption DEF BasicInv, Goto, Stages
<1>1. UNCHANGED <<up, servers, heard, age, sinceCheck, running, started, heartbeat, workload>>
  BY DEF RequestStep, PickEdgeServer, Refuse, ReadSequenceNumber, IncrementSequenceNumber,
         ContactEdge, Abandon, FinishJob, NotifyJobEnd, NotifyFails,
         balancerVars, requestVars, edgeVars
<1>2. /\ load' \in [Edges -> Nat]
      /\ sequenceNumber' \in Nat
      /\ number' \in [Requests -> Nat]
      /\ currentWorkload' \in [Edges -> Int]
  BY DEF RequestStep, PickEdgeServer, Refuse, ReadSequenceNumber, IncrementSequenceNumber,
         ContactEdge, Abandon, FinishJob, NotifyJobEnd, NotifyFails, DecrementWorkload,
         balancerVars, requestVars, edgeVars, TypeOK, ReportInv, LeastLoaded
<1>3. /\ pc' \in [Requests -> Stages]
      /\ edge' \in [Requests -> Edges \cup {NoEdge}]
      /\ \A s \in Requests : pc'[s] = "new" => edge'[s] = NoEdge
      /\ \A s \in Requests : pc'[s] \in Stages \ {"new", "refused"} => edge'[s] \in Edges
  <2>1. CASE PickEdgeServer(r)
    <3>1. PICK e \in servers : edge' = [edge EXCEPT ![r] = e]
      BY <2>1 DEF PickEdgeServer, LeastLoaded
    <3> QED BY <2>1, <3>1 DEF PickEdgeServer, TypeOK, ReportInv
  <2>2. CASE ~PickEdgeServer(r)
    BY <2>2 DEF RequestStep, Refuse, ReadSequenceNumber, IncrementSequenceNumber,
         ContactEdge, Abandon, FinishJob, NotifyJobEnd, NotifyFails,
         balancerVars, requestVars, edgeVars, TypeOK, ReportInv
  <2> QED BY <2>1, <2>2
<1>4. TypeOK'
  BY <1>1, <1>2, <1>3 DEF TypeOK
<1>5. UnknownIdle'
  BY <1>1 DEF RequestStep, PickEdgeServer, Refuse, ReadSequenceNumber, IncrementSequenceNumber,
         ContactEdge, Abandon, FinishJob, NotifyJobEnd, NotifyFails, LeastLoaded,
         balancerVars, TypeOK, UnknownIdle
<1> QED BY <1>1, <1>3, <1>4, <1>5 DEF MapsAgree, SilenceInv, ReportInv

(* So does a heartbeat. *)
LEMMA HeartbeatBasic ==
    ASSUME BasicInv, NEW e \in Edges, Heartbeat(e)
    PROVE  BasicInv'
<1> USE DEF BasicInv
<1>1. heartbeat[e] = 0
  BY DEF Heartbeat, ReportInv
<1>2. WeightedLoad(load[e], 0) \in Nat
  BY WeightedLoadBound DEF TypeOK
<1>3. /\ load' = [load EXCEPT ![e] = IF e \in heard THEN WeightedLoad(load[e], 0) ELSE 0]
      /\ heartbeat' = [heartbeat EXCEPT ![e] = NoMessage]
      /\ servers' = servers \cup {e} /\ heard' = heard \cup {e}
      /\ age' = [age EXCEPT ![e] = 0]
      /\ UNCHANGED <<up, sinceCheck, sequenceNumber, pc, edge, number,
                     running, started, workload, currentWorkload>>
  BY <1>1 DEF Heartbeat, requestVars
<1>4. TypeOK'
  BY <1>2, <1>3 DEF TypeOK
<1>5. MapsAgree' /\ ReportInv' /\ UnknownIdle'
  BY <1>3 DEF MapsAgree, ReportInv, UnknownIdle, TypeOK
<1>6. SilenceInv'
  BY <1>3, TimersAssumption DEF SilenceInv, TypeOK
<1> QED BY <1>4, <1>5, <1>6

(* BasicInv is inductive. *)
LEMMA BasicStep == BasicInv /\ [Next]_vars => BasicInv'
<1> SUFFICES ASSUME BasicInv, [Next]_vars PROVE BasicInv'
  OBVIOUS
<1> USE DEF BasicInv
<1>1. ASSUME NEW e \in Edges, StartEdge(e) PROVE BasicInv'
  BY <1>1 DEF StartEdge, balancerVars, requestVars, TypeOK, MapsAgree, SilenceInv,
                      ReportInv, UnknownIdle
<1>2. ASSUME NEW e \in Edges, SendHeartbeat(e) PROVE BasicInv'
  <2>1. workload[e] = 0
    BY DEF ReportInv, Nowhere
  <2> QED BY <1>2, <2>1 DEF SendHeartbeat, balancerVars, requestVars, TypeOK, MapsAgree,
                            SilenceInv, ReportInv, UnknownIdle
<1>3. ASSUME NEW e \in Edges, EdgeCrash(e) PROVE BasicInv'
  <2>1. TypeOK'
    BY <1>3 DEF EdgeCrash, balancerVars, TypeOK, Stages
  <2>2. MapsAgree' /\ SilenceInv' /\ UnknownIdle'
    BY <1>3 DEF EdgeCrash, balancerVars, MapsAgree, SilenceInv, UnknownIdle
  <2>3. ReportInv'
    BY <1>3 DEF EdgeCrash, ReportInv, TypeOK, Stages
  <2> QED BY <2>1, <2>2, <2>3
<1>4. CASE CheckForDeadServers
  <2>1. TypeOK'
    BY <1>4, TimersAssumption DEF CheckForDeadServers, requestVars, edgeVars, TypeOK
  <2>2. MapsAgree' /\ ReportInv' /\ UnknownIdle'
    BY <1>4 DEF CheckForDeadServers, requestVars, edgeVars, TypeOK, MapsAgree,
                ReportInv, UnknownIdle
  <2>3. SilenceInv'
    BY <1>4, TimersAssumption DEF CheckForDeadServers, SilenceInv, TypeOK
  <2> QED BY <2>1, <2>2, <2>3
<1>5. CASE Tick
  <2>1. TypeOK'
    BY <1>5, TimersAssumption DEF Tick, requestVars, edgeVars, TypeOK
  <2>2. MapsAgree' /\ ReportInv' /\ UnknownIdle'
    BY <1>5 DEF Tick, requestVars, edgeVars, TypeOK, MapsAgree, ReportInv, UnknownIdle
  <2>3. SilenceInv'
    BY <1>5, TimersAssumption DEF Tick, SilenceInv, TypeOK
  <2> QED BY <2>1, <2>2, <2>3
<1>6. CASE BalancerCrash
  <2>1. TypeOK'
    <3>1. /\ load' \in [Edges -> Nat] /\ age' \in [Edges -> Nat]
          /\ heartbeat' \in [Edges -> Nat \cup {NoMessage}]
          /\ sinceCheck' \in 0..TimeToCheck
      BY <1>6, TimersAssumption DEF BalancerCrash, Nowhere
    <3>2. pc' \in [Requests -> Stages]
      BY <1>6 DEF BalancerCrash, TypeOK, Stages
    <3> QED BY <1>6, <3>1, <3>2 DEF BalancerCrash, TypeOK
  <2>2. MapsAgree' /\ SilenceInv' /\ UnknownIdle'
    BY <1>6 DEF BalancerCrash, MapsAgree, SilenceInv, UnknownIdle, Nowhere
  <2>3. ReportInv'
    BY <1>6 DEF BalancerCrash, ReportInv, TypeOK, Stages
  <2> QED BY <2>1, <2>2, <2>3
<1>7. CASE BalancerStart
  BY <1>7, NumbersAssumption DEF BalancerStart, requestVars, edgeVars, TypeOK, MapsAgree,
                                 SilenceInv, ReportInv, UnknownIdle
<1>8. CASE UNCHANGED vars
  BY <1>8 DEF vars, balancerVars, requestVars, edgeVars, TypeOK, MapsAgree, SilenceInv,
              ReportInv, UnknownIdle
<1> QED BY <1>1, <1>2, <1>3, <1>4, <1>5, <1>6, <1>7, <1>8, RequestBasic, HeartbeatBasic
        DEF Next, EdgeStep

-----------------------------------------------------------------------------
(* Counting the requests an edge node owes. *)

(* The requests owed by an edge node can be counted. *)
LEMMA OwedFinite == ASSUME NEW e PROVE IsFiniteSet(Owed(e)) /\ Cardinality(Owed(e)) \in Nat
<1>1. Owed(e) \subseteq Requests
  BY DEF Owed
<1> QED BY <1>1, EdgesAssumption, FS_Subset, FS_CardinalityType

(* A load that does not grow stays below a count that does not shrink. *)
LEMMA OwedGrows ==
    ASSUME BasicInv, BasicInv', LoadInv,
           \A e \in Edges : load'[e] <= load[e] /\ Owed(e) \subseteq Owed(e)'
    PROVE  LoadInv'
<1> SUFFICES ASSUME NEW e \in Edges PROVE load'[e] <= Cardinality(Owed(e)')
  BY DEF LoadInv
<1>1. IsFiniteSet(Owed(e)')
  <2>1. Owed(e)' \subseteq Requests
    BY DEF Owed
  <2> QED BY <2>1, EdgesAssumption, FS_Subset
<1>2. Cardinality(Owed(e)) <= Cardinality(Owed(e)')
  BY <1>1, FS_Subset
<1>3. Cardinality(Owed(e)') \in Nat
  BY <1>1, FS_CardinalityType
<1> QED BY <1>2, <1>3, OwedFinite DEF LoadInv, BasicInv, TypeOK

(* A request adds one to the load and to what the edge node owes. *)
LEMMA PickLoad ==
    ASSUME BasicInv, BasicInv', LoadInv, NEW r \in Requests, PickEdgeServer(r)
    PROVE  LoadInv'
<1>1. PICK e \in servers : load' = [load EXCEPT ![e] = @ + 1] /\ edge' = [edge EXCEPT ![r] = e]
  BY DEF PickEdgeServer, LeastLoaded
<1>2. pc' = [pc EXCEPT ![r] = "picked"] /\ pc[r] = "new" /\ edge[r] = NoEdge
  BY DEF PickEdgeServer, Goto, BasicInv, ReportInv
<1>3. e \in Edges /\ e # NoEdge
  BY EdgesAssumption DEF BasicInv, TypeOK
<1>4. r \notin Owed(e) /\ Owed(e)' = Owed(e) \cup {r}
  BY <1>1, <1>2, <1>3 DEF Owed, BasicInv, TypeOK
<1>5. Cardinality(Owed(e)') = Cardinality(Owed(e)) + 1
  BY <1>4, OwedFinite, FS_AddElement
<1>6. \A d \in Edges : d # e => load'[d] = load[d] /\ Owed(d)' = Owed(d)
  BY <1>1, <1>2, EdgesAssumption DEF Owed, BasicInv, TypeOK
<1> QED BY <1>1, <1>3, <1>5, <1>6, OwedFinite DEF LoadInv, BasicInv, TypeOK

(* The end of a job takes one off what is owed and off the load. *)
LEMMA NotifyLoad ==
    ASSUME BasicInv, BasicInv', LoadInv, NEW r \in Requests, NotifyJobEnd(r)
    PROVE  LoadInv'
<1> DEFINE e == edge[r]
<1>1. /\ pc[r] = "ending" /\ pc' = [pc EXCEPT ![r] = "ended"] /\ UNCHANGED edge
      /\ load' = [load EXCEPT ![e] = IF e \in servers /\ load[e] > 0 THEN load[e] - 1 ELSE load[e]]
  BY DEF NotifyJobEnd, Goto
<1>2. e \in Edges
  BY <1>1 DEF BasicInv, ReportInv, Stages
<1>3. r \in Owed(e) /\ Owed(e)' = Owed(e) \ {r}
  BY <1>1 DEF Owed, BasicInv, TypeOK
<1>4. Cardinality(Owed(e)') = Cardinality(Owed(e)) - 1
  BY <1>3, OwedFinite, FS_RemoveElement
<1>5. \A d \in Edges : d # e => load'[d] = load[d] /\ Owed(d)' = Owed(d)
  BY <1>1, <1>2 DEF Owed, BasicInv, TypeOK
<1>6. load'[e] <= Cardinality(Owed(e)')
  <2>1. Cardinality(Owed(e)) \in Nat /\ Cardinality(Owed(e)) # 0
    BY <1>3, OwedFinite, FS_EmptySet
  <2>2. CASE e \in servers /\ load[e] > 0
    BY <1>1, <1>2, <1>4, <2>1, <2>2 DEF LoadInv, BasicInv, TypeOK
  <2>3. CASE ~(e \in servers /\ load[e] > 0)
    <3>1. load[e] = 0
      BY <2>3, <1>2 DEF BasicInv, TypeOK, UnknownIdle
    <3> QED BY <1>1, <1>4, <2>1, <2>3, <3>1
  <2> QED BY <2>2, <2>3
<1> QED BY <1>1, <1>5, <1>6 DEF LoadInv

(* A weighted mean with 0 does not make the load grow, and neither does    *)
(* the load 0 of an edge node that was not known.                          *)
LEMMA HeartbeatLoad ==
    ASSUME BasicInv, BasicInv', LoadInv, NEW e \in Edges, Heartbeat(e)
    PROVE  LoadInv'
<1>1. load' = [load EXCEPT ![e] = IF e \in heard THEN WeightedLoad(load[e], 0) ELSE 0]
  BY DEF Heartbeat, BasicInv, ReportInv
<1>2. WeightedLoad(load[e], 0) \in 0..load[e]
  BY WeightedLoadBound DEF BasicInv, TypeOK
<1>3. \A d \in Edges : load'[d] <= load[d]
  BY <1>1, <1>2 DEF BasicInv, TypeOK
<1>4. \A d \in Edges : Owed(d) \subseteq Owed(d)'
  BY DEF Heartbeat, requestVars, Owed
<1> QED BY <1>3, <1>4, OwedGrows

(* No step makes a load exceed what is owed. *)
LEMMA LoadStep ==
    ASSUME BasicInv, BasicInv', LoadInv, [Next]_vars
    PROVE  LoadInv'
<1>1. ASSUME NEW r \in Requests, RequestStep(r), ~PickEdgeServer(r), ~NotifyJobEnd(r)
      PROVE  LoadInv'
  <2>1. UNCHANGED <<load, edge>>
    BY <1>1 DEF RequestStep, Refuse, ReadSequenceNumber, IncrementSequenceNumber,
                ContactEdge, Abandon, FinishJob, NotifyFails, balancerVars
  <2>2. \A s \in Requests : pc'[s] = "ended" => pc[s] = "ended"
    BY <1>1 DEF RequestStep, Refuse, ReadSequenceNumber, IncrementSequenceNumber,
                ContactEdge, Abandon, FinishJob, NotifyFails, Goto, BasicInv, TypeOK
  <2> QED BY <2>1, <2>2, OwedGrows DEF Owed, BasicInv, TypeOK
<1>2. ASSUME NEW e \in Edges, StartEdge(e) \/ SendHeartbeat(e) PROVE LoadInv'
  BY <1>2, OwedGrows DEF StartEdge, SendHeartbeat, balancerVars, requestVars, Owed,
                         BasicInv, TypeOK
<1>3. ASSUME NEW e \in Edges, EdgeCrash(e) PROVE LoadInv'
  BY <1>3, OwedGrows DEF EdgeCrash, balancerVars, Owed, BasicInv, TypeOK
<1>4. CASE CheckForDeadServers
  BY <1>4, OwedGrows DEF CheckForDeadServers, requestVars, Owed, BasicInv, TypeOK
<1>5. CASE BalancerCrash
  BY <1>5, OwedGrows DEF BalancerCrash, Owed, Nowhere, BasicInv, TypeOK
<1>6. CASE Tick \/ BalancerStart \/ UNCHANGED vars
  BY <1>6, OwedGrows DEF Tick, BalancerStart, vars, balancerVars, requestVars, Owed,
                         BasicInv, TypeOK
<1> QED BY <1>1, <1>2, <1>3, <1>4, <1>5, <1>6, PickLoad, NotifyLoad, HeartbeatLoad
        DEF Next, EdgeStep

-----------------------------------------------------------------------------
(* The initial state satisfies the whole invariant. *)
LEMMA BalancerInit == Init => BalancerInv
<1> SUFFICES ASSUME Init PROVE BalancerInv
  OBVIOUS
<1>1. LoadInv
  BY OwedFinite DEF Init, LoadInv, Nowhere
<1> QED BY <1>1, BasicInit DEF BalancerInv, BasicInv

(* What checkForDeadServers left at its last run, what heartbeats carry    *)
(* and what the loads owe hold together: BasicStep and LoadStep.           *)
THEOREM BalancerInvariant == Spec => []BalancerInv
<1>1. BalancerInv /\ [Next]_vars => BalancerInv'
  BY BasicStep, LoadStep DEF BalancerInv, BasicInv
<1> QED BY BalancerInit, <1>1, PTL DEF Spec

(* pickEdgeServer, NotifyJobEnd, Heartbeat and checkForDeadServers keep    *)
(* the types of the balancer, its loads natural numbers.                   *)
THEOREM TypeCorrect == Spec => []TypeOK
BY BalancerInvariant, PTL DEF BalancerInv

(* edgeServerMap and heartbeats always have the same keys.                 *)
THEOREM MapsAlwaysAgree == Spec => []MapsAgree
BY BalancerInvariant, PTL DEF BalancerInv

(* checkForDeadServers forgets a silent edge node in time.                 *)
THEOREM SilenceAlwaysNoticed == Spec => []SilenceIsNoticed
<1>1. BalancerInv => SilenceIsNoticed
  BY TimersAssumption DEF BalancerInv, TypeOK, SilenceInv, SilenceIsNoticed
<1> QED BY <1>1, BalancerInvariant, PTL

(* No loss, delay, crash or weighted mean makes the balancer believe an    *)
(* edge node busier than the jobs it gave it.                              *)
THEOREM LoadNeverOverstated == Spec => []LoadNotOverstated
<1>1. BalancerInv => LoadNotOverstated
  BY DEF BalancerInv, TypeOK, LoadInv, LoadNotOverstated
<1> QED BY <1>1, BalancerInvariant, PTL

-----------------------------------------------------------------------------
(* The heartbeats of a punctual edge node are not old. *)
LEMMA PunctualInit == Init => PunctualInv
BY DEF Init, PunctualInv

(* Time waits for the heartbeat of a punctual edge node. *)
LEMMA PunctualStep ==
    ASSUME BalancerInv, PunctualInv, [Next]_vars
    PROVE  PunctualInv'
<1> USE DEF PunctualInv, BalancerInv, TypeOK
<1>1. ASSUME NEW r \in Requests, RequestStep(r) PROVE PunctualInv'
  BY <1>1 DEF RequestStep, PickEdgeServer, Refuse, ReadSequenceNumber,
         IncrementSequenceNumber, ContactEdge, Abandon, FinishJob, NotifyJobEnd, NotifyFails,
         balancerVars, edgeVars
<1>2. ASSUME NEW e \in Edges, StartEdge(e) PROVE PunctualInv'
  BY <1>2 DEF StartEdge, balancerVars
<1>3. ASSUME NEW e \in Edges, SendHeartbeat(e) PROVE PunctualInv'
  BY <1>3 DEF SendHeartbeat, balancerVars
<1>4. ASSUME NEW e \in Edges, Heartbeat(e) PROVE PunctualInv'
  BY <1>4, TimersAssumption DEF Heartbeat
<1>5. ASSUME NEW e \in Edges, EdgeCrash(e) PROVE PunctualInv'
  BY <1>5 DEF EdgeCrash, balancerVars
<1>6. CASE CheckForDeadServers
  BY <1>6, TimersAssumption DEF CheckForDeadServers, edgeVars
<1>7. CASE Tick
  BY <1>7, TimersAssumption DEF Tick, edgeVars
<1>8. CASE BalancerCrash
  BY <1>8 DEF BalancerCrash
<1>9. CASE BalancerStart \/ UNCHANGED vars
  BY <1>9 DEF BalancerStart, vars, balancerVars, edgeVars
<1> QED BY <1>1, <1>2, <1>3, <1>4, <1>5, <1>6, <1>7, <1>8, <1>9 DEF Next, EdgeStep

(* An edge node whose heartbeats are never older than HEARTBEAT_THR is not *)
(* taken for dead by checkForDeadServers.                                  *)
THEOREM PunctualAlwaysKnown == Spec => PunctualStayKnown
<1>1. ASSUME BalancerInv, PunctualInv, [Next]_vars
      PROVE  [\A e \in Punctual \cap running' : up' /\ e \in servers => e \in servers']_vars
  <2> SUFFICES ASSUME NEW e \in Punctual \cap running', up', e \in servers, Next
               PROVE  e \in servers'
    BY <1>1
  <2>1. CASE CheckForDeadServers
    <3>1. e \in running /\ e \in heard
      BY <1>1, <2>1 DEF CheckForDeadServers, edgeVars, BalancerInv, MapsAgree
    <3>2. age[e] <= Threshold /\ sinceCheck >= 1 /\ age[e] \in Nat
      BY <1>1, <2>1, <3>1, TimersAssumption DEF CheckForDeadServers, PunctualInv,
                                                BalancerInv, TypeOK
    <3> QED BY <2>1, <3>2, TimersAssumption DEF CheckForDeadServers
  <2>2. CASE BalancerCrash
    BY <2>2 DEF BalancerCrash
  <2>3. CASE ~CheckForDeadServers /\ ~BalancerCrash
    BY <2>3 DEF Next, RequestStep, EdgeStep, PickEdgeServer, Refuse, ReadSequenceNumber,
         IncrementSequenceNumber, ContactEdge, Abandon, FinishJob, NotifyJobEnd, NotifyFails,
         StartEdge, SendHeartbeat, Heartbeat, EdgeCrash, Tick, BalancerStart, balancerVars
  <2> QED BY <2>1, <2>2, <2>3
<1>2. BalancerInv /\ PunctualInv /\ [Next]_vars => PunctualInv'
  BY PunctualStep
<1> QED BY <1>1, <1>2, PunctualInit, BalancerInvariant, PTL DEF Spec, PunctualStayKnown
=============================================================================
