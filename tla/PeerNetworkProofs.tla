-------------------------- MODULE PeerNetworkProofs -------------------------
(***************************************************************************)
(* Theorems about PeerNetwork, for any number of nodes, any                *)
(* MAX_MISSED_PING, any faults and crashes.                                *)
(***************************************************************************)
EXTENDS PeerNetwork, TLAPS

(* Abbreviations the actions are written with. *)
USE DEF Receivers, ResetMissed, Count, TooMany, TakesBack

-----------------------------------------------------------------------------
(* Maps with some of the peers as keys. *)

LEMMA PartialType ==
    ASSUME NEW S, NEW T, NEW f
    PROVE  f \in PartialFunctions(S, T)
                <=> DOMAIN f \subseteq S /\ f \in [DOMAIN f -> T]
BY DEF PartialFunctions

LEMMA EmptyMap ==
    /\ DOMAIN <<>> = {}
    /\ \A S, T : <<>> \in PartialFunctions(S, T)
<1>1. DOMAIN <<>> = {}
  OBVIOUS
<1>2. \A T : <<>> \in [{} -> T]
  OBVIOUS
<1> QED BY <1>1, <1>2, PartialType

LEMMA WithType ==
    ASSUME NEW S, NEW T, NEW f \in PartialFunctions(S, T), NEW q \in S, NEW e \in T
    PROVE  With(f, q, e) \in PartialFunctions(S, T)
BY PartialType DEF With

LEMMA RemovedValues ==
    ASSUME NEW f, NEW q
    PROVE  /\ DOMAIN Removed(f, q) = DOMAIN f \ {q}
           /\ \A r \in DOMAIN f \ {q} : Removed(f, q)[r] = f[r]
BY DEF Removed, Restrict

LEMMA RemovedType ==
    ASSUME NEW S, NEW T, NEW f \in PartialFunctions(S, T), NEW q
    PROVE  Removed(f, q) \in PartialFunctions(S, T)
BY PartialType DEF Removed, Restrict

(* A connection is made, or changed. *)
LEMMA NewEntry == New \in Entries /\ New.missed = 0
BY BoundsAssumption DEF New, Entries

LEMMA PutEntry ==
    ASSUME TypeOK, NEW p \in Peers, NEW q \in Peers, NEW e \in Entries, Put(p, q, e)
    PROVE  /\ conns' \in [Peers -> PartialFunctions(Peers, Entries)]
           /\ \A r \in Peers : Neighbours(r)' =
                IF r = p THEN Neighbours(r) \cup {q} ELSE Neighbours(r)
           /\ \A r \in Peers : \A s \in Neighbours(r)' : conns'[r][s] =
                IF r = p /\ s = q THEN e ELSE conns[r][s]
<1>1. With(conns[p], q, e) \in PartialFunctions(Peers, Entries)
  BY WithType DEF TypeOK
<1>2. conns' = [conns EXCEPT ![p] = With(conns[p], q, e)]
  BY DEF Put
<1> QED BY <1>1, <1>2 DEF TypeOK, Neighbours, With

LEMMA EntryType ==
    ASSUME TypeOK, NEW p \in Peers, NEW q \in Neighbours(p)
    PROVE  q \in Peers /\ conns[p][q] \in Entries
BY PartialType DEF TypeOK, Neighbours

(* A round of pings goes on with the rest of its clone, or ends. *)
LEMMA PingersRow ==
    ASSUME NEW pg \in Pingers
    PROVE  /\ pg.step \in {"idle", "lock", "next", "waiting", "answered", "missed", "read"}
           /\ pg.target \in Peers \cup {Nobody}
           /\ pg.clone \in PartialFunctions(Peers, BOOLEAN)
           /\ pg.saved \in Entries
BY DEF Pingers

LEMMA ProceedsType ==
    ASSUME NEW pg \in Pingers
    PROVE  /\ Proceeds(pg) \in Pingers
           /\ Proceeds(pg).step \in {"idle", "next"}
           /\ DOMAIN Proceeds(pg).clone \subseteq DOMAIN pg.clone
<1>1. /\ Idle \in Pingers /\ Idle.step = "idle" /\ DOMAIN Idle.clone = {}
  BY EmptyMap, NewEntry DEF Idle, Pingers
<1>2. [Idle EXCEPT !.step = "next", !.clone = pg.clone] \in Pingers
  BY <1>1 DEF Pingers
<1> QED BY <1>1, <1>2 DEF Proceeds, Idle

-----------------------------------------------------------------------------
(* Types.                                                                  *)

LEMMA TypeInit == Init => TypeOK
<1> SUFFICES ASSUME Init PROVE TypeOK
  OBVIOUS
<1>1. Idle \in Pingers
  BY EmptyMap, NewEntry DEF Idle, Pingers
<1>2. conns \in [Peers -> PartialFunctions(Peers, Entries)]
  BY EmptyMap DEF Init
<1> QED BY <1>1, <1>2, BoundsAssumption DEF Init, TypeOK

(* A fault is one more; a call comes or goes; pings are counted.           *)
LEMMA FaultType ==
    ASSUME TypeOK, Fault \/ UNCHANGED faults
    PROVE  faults' \in 0..MaxFaults
BY BoundsAssumption DEF TypeOK, Fault

LEMMA CallsType ==
    ASSUME TypeOK, NEW m \in Methods, NEW p \in Peers, NEW q \in Peers,
           Send(<<m, p, q>>) \/ (<<m, p, q>> \in calls /\ Blocks(<<m, p, q>>))
               \/ Ends(<<m, p, q>>) \/ UNCHANGED callVars
    PROVE  /\ calls' \subseteq Methods \X Peers \X Peers /\ blocked' \subseteq calls'
           /\ calls' \subseteq calls \cup {<<m, p, q>>}
<1> DEFINE c == <<m, p, q>>
<1>1. c \in Methods \X Peers \X Peers
  OBVIOUS
<1> HIDE DEF c
<1> QED BY <1>1 DEF TypeOK, Send, Blocks, Ends, callVars, c

LEMMA MissedType ==
    ASSUME TypeOK, NEW p \in Peers, NEW q \in Peers, Missed(p, q)
    PROVE  /\ unanswered' \in [Peers -> [Peers -> 0..MaxMissed]]
           /\ \A r, s \in Peers : unanswered'[r][s] =
                IF r = p /\ s = q /\ unanswered[r][s] # MaxMissed
                THEN unanswered[r][s] + 1 ELSE unanswered[r][s]
<1> DEFINE n == IF unanswered[p][q] = MaxMissed THEN MaxMissed ELSE unanswered[p][q] + 1
<1>1. unanswered[p] \in [Peers -> 0..MaxMissed] /\ n \in 0..MaxMissed
  <2>1. unanswered[p] \in [Peers -> 0..MaxMissed]
    BY DEF TypeOK
  <2>2. unanswered[p][q] \in 0..MaxMissed
    BY <2>1
  <2> QED BY <2>1, <2>2, BoundsAssumption
<1>2. unanswered' = [unanswered EXCEPT ![p] = [unanswered[p] EXCEPT ![q] = n]]
  BY DEF Missed
<1> HIDE DEF n
<1>3. [unanswered[p] EXCEPT ![q] = n] \in [Peers -> 0..MaxMissed]
  BY <1>1
<1>4. unanswered' \in [Peers -> [Peers -> 0..MaxMissed]]
  BY <1>2, <1>3 DEF TypeOK
<1> QED BY <1>1, <1>2, <1>4 DEF TypeOK, n

(* What the steps of a goroutine on its own ping have in common.           *)
LEMMA PingerType ==
    ASSUME TypeOK, NEW p \in Peers, NEW row \in Pingers, pinger' = [pinger EXCEPT ![p] = row]
    PROVE  /\ pinger' \in [Peers -> Pingers]
           /\ pinger'[p] = row
           /\ \A r \in Peers \ {p} : pinger'[r] = pinger[r]
BY DEF TypeOK

LEMMA StepType ==
    ASSUME NEW pg \in Pingers,
           NEW s \in {"idle", "lock", "next", "waiting", "answered", "missed", "read"}
    PROVE  /\ [pg EXCEPT !.step = s] \in Pingers
           /\ [pg EXCEPT !.step = s].step = s
           /\ [pg EXCEPT !.step = s].target = pg.target
           /\ [pg EXCEPT !.step = s].clone = pg.clone
           /\ [pg EXCEPT !.step = s].saved = pg.saved
BY DEF Pingers

-----------------------------------------------------------------------------
(* Steps that no counter notices.                                          *)

(* Entries come, from other nodes, and none goes; those that stay keep     *)
(* their count or lose it.                                                 *)
ConnsGrow ==
    \A r \in Peers :
        /\ Neighbours(r) \subseteq Neighbours(r)'
        /\ r \notin Neighbours(r)'
        /\ \A s \in Neighbours(r)' :
            \/ conns'[r][s].missed = 0
            \/ s \in Neighbours(r) /\ conns'[r][s].missed = conns[r][s].missed

(* The goroutine of the pings does not miss one.                           *)
PingersCalm ==
    \A r \in Peers :
        \/ pinger'[r] = pinger[r]
        \/ /\ pinger'[r].step \notin {"missed", "read"}
           /\ pinger'[r].step \in {"waiting", "answered"} => pinger'[r].target \in Peers \ {r}
           /\ r \notin DOMAIN pinger'[r].clone

(* A node joins and notifies other nodes only, and does not call itself.   *)
JoinsCalm ==
    \A r \in Peers :
        /\ toJoin'[r] \subseteq toJoin[r] \/ r \notin toJoin'[r]
        /\ toNotify'[r] \subseteq toNotify[r] \/ r \notin toNotify'[r]
        /\ joining'[r] \in {joining[r], Nobody} \/ joining'[r] \in Neighbours(r)'
CallsCalm == \A c \in calls' : c \in calls \/ c[2] # c[3]

LEMMA CalmSelf ==
    ASSUME NeighboursInv, ConnsGrow, JoinsCalm, CallsCalm
    PROVE  /\ \A r \in Peers : r \notin Neighbours(r)' /\ r \notin toJoin'[r]
                                /\ r \notin toNotify'[r] /\ joining'[r] # r
           /\ \A c \in calls' : c[2] # c[3]
           /\ \A r \in Peers : joining'[r] # Nobody => joining'[r] \in Neighbours(r)'
BY PeersAssumption DEF NeighboursInv, NoSelfNeighbour, CallsKnown, ConnsGrow, JoinsCalm, CallsCalm

LEMMA CalmStep ==
    ASSUME NeighboursInv, TypeOK', ConnsGrow, PingersCalm, JoinsCalm, CallsCalm,
           UNCHANGED unanswered
    PROVE  NeighboursInv'
<1>1. NoSelfNeighbour'
  BY CalmSelf DEF NeighboursInv, NoSelfNeighbour, PingersCalm
<1>2. CallsKnown'
  BY CalmSelf DEF NeighboursInv, CallsKnown, PingersCalm
<1>3. MissesCounted'
  <2> SUFFICES ASSUME NEW p \in Peers, NEW q \in Peers PROVE Counted(p, q)'
    BY DEF MissesCounted
  <2>1. Counted(p, q) /\ unanswered'[p][q] = unanswered[p][q] /\ unanswered[p][q] \in Nat
    BY BoundsAssumption DEF NeighboursInv, MissesCounted, TypeOK
  <2>2. EntryMissed(p, q)' = 0 \/ EntryMissed(p, q)' = EntryMissed(p, q)
    BY DEF ConnsGrow, EntryMissed
  <2>3. /\ EntryMissed(p, q)' <= unanswered[p][q]
        /\ PingerAt(p, "missed", q) => EntryMissed(p, q)' < unanswered[p][q]
    <3>1. EntryMissed(p, q) \in Nat
      BY EntryType, BoundsAssumption DEF EntryMissed, Entries, NeighboursInv
    <3> QED BY <2>1, <2>2, <3>1 DEF Counted
  <2>4. /\ PingerAt(p, "missed", q)' => PingerAt(p, "missed", q)
        /\ PingerAt(p, "read", q)' => /\ PingerAt(p, "read", q)
                                      /\ pinger'[p].saved = pinger[p].saved
    BY DEF PingersCalm, PingerAt
  <2> QED BY <2>1, <2>3, <2>4 DEF Counted
<1> QED BY <1>1, <1>2, <1>3 DEF NeighboursInv

LEMMA ConnsSame ==
    ASSUME NeighboursInv, UNCHANGED conns
    PROVE  ConnsGrow
BY DEF NeighboursInv, NoSelfNeighbour, ConnsGrow, Neighbours

LEMMA ConnsPut ==
    ASSUME NeighboursInv, NEW p \in Peers, NEW q \in Peers, p # q, NEW e \in Entries, Put(p, q, e),
           e.missed = 0 \/ (q \in Neighbours(p) /\ e.missed = conns[p][q].missed)
    PROVE  /\ conns' \in [Peers -> PartialFunctions(Peers, Entries)]
           /\ ConnsGrow
           /\ q \in Neighbours(p)'
<1>1. conns' \in [Peers -> PartialFunctions(Peers, Entries)]
  BY PutEntry DEF NeighboursInv
<1>2. \A r \in Peers : Neighbours(r)' =
                IF r = p THEN Neighbours(r) \cup {q} ELSE Neighbours(r)
  BY PutEntry DEF NeighboursInv
<1>3. \A r \in Peers : \A s \in Neighbours(r)' : conns'[r][s] =
                IF r = p /\ s = q THEN e ELSE conns[r][s]
  BY PutEntry DEF NeighboursInv
<1> QED BY <1>1, <1>2, <1>3 DEF NeighboursInv, NoSelfNeighbour, ConnsGrow

-----------------------------------------------------------------------------
(* The steps of a node that enters.                                        *)

LEMMA EnterInv ==
    ASSUME NeighboursInv, NEW p \in Peers, Enter(p)
    PROVE  NeighboursInv'
<1>1. PICK adjs \in SUBSET {q \in Peers : status[q] # "out"} :
        toJoin' = [toJoin EXCEPT ![p] = adjs]
  BY DEF Enter
<1>2. /\ p \notin adjs /\ adjs \subseteq Peers
      /\ status' = [status EXCEPT ![p] = "up"]
      /\ UNCHANGED <<conns, filters, joining, pinger, notifyVars, callVars, faults, unanswered>>
  BY DEF Enter
<1>3. TypeOK'
  BY <1>1, <1>2 DEF NeighboursInv, TypeOK, notifyVars, callVars
<1>4. ConnsGrow /\ PingersCalm /\ JoinsCalm /\ CallsCalm
  BY <1>1, <1>2, ConnsSame DEF NeighboursInv, TypeOK, PingersCalm, JoinsCalm, CallsCalm,
                               notifyVars, callVars
<1> QED BY <1>2, <1>3, <1>4, CalmStep

LEMMA ConnectInv ==
    ASSUME NeighboursInv, NEW p \in Peers, NEW q \in Peers, Connect(p, q)
    PROVE  NeighboursInv'
<1>1. /\ q \in toJoin[p] /\ p # q
      /\ toJoin' = [toJoin EXCEPT ![p] = @ \ {q}]
      /\ UNCHANGED <<status, filters, pinger, notifyVars, unanswered>>
  BY DEF Connect, NeighboursInv, NoSelfNeighbour
<1>2. faults' \in 0..MaxFaults
  BY FaultType DEF Connect, DialSucceeds, DialFails, NeighboursInv
<1>3. CASE Put(p, q, New) /\ joining' = [joining EXCEPT ![p] = q]
            /\ Send(<<"AddNeighbour", p, q>>)
  <2>1. /\ conns' \in [Peers -> PartialFunctions(Peers, Entries)]
        /\ ConnsGrow /\ q \in Neighbours(p)'
    BY <1>1, <1>3, ConnsPut, NewEntry
  <2>2. /\ calls' \subseteq Methods \X Peers \X Peers /\ blocked' \subseteq calls'
        /\ calls' \subseteq calls \cup {<<"AddNeighbour", p, q>>}
    BY <1>3, CallsType DEF NeighboursInv, Methods
  <2>3. TypeOK'
    BY <1>1, <1>2, <1>3, <2>1, <2>2 DEF NeighboursInv, TypeOK, notifyVars
  <2>4. PingersCalm /\ JoinsCalm /\ CallsCalm
    BY <1>1, <1>3, <2>1, <2>2 DEF NeighboursInv, TypeOK, PingersCalm, JoinsCalm, CallsCalm,
                                  notifyVars
  <2> QED BY <1>1, <2>1, <2>3, <2>4, CalmStep
<1>4. CASE UNCHANGED <<conns, joining, callVars>>
  <2>1. TypeOK'
    BY <1>1, <1>2, <1>4 DEF NeighboursInv, TypeOK, notifyVars, callVars
  <2>2. ConnsGrow /\ PingersCalm /\ JoinsCalm /\ CallsCalm
    BY <1>1, <1>4, ConnsSame DEF NeighboursInv, TypeOK, PingersCalm, JoinsCalm, CallsCalm,
                                 notifyVars, callVars
  <2> QED BY <1>1, <2>1, <2>2, CalmStep
<1> QED BY <1>3, <1>4 DEF Connect

(* The client of a neighbour is closed: its entry stays.                   *)
LEMMA JoinErrorConns ==
    ASSUME NeighboursInv, NEW p \in Peers, joining[p] # Nobody, JoinError(p)
    PROVE  /\ conns' \in [Peers -> PartialFunctions(Peers, Entries)]
           /\ ConnsGrow
           /\ joining' = [joining EXCEPT ![p] = Nobody]
<1> DEFINE q == joining[p]
           e == [conns[p][q] EXCEPT !.open = FALSE]
<1>1. q \in Peers /\ q \in Neighbours(p) /\ p # q
  BY DEF NeighboursInv, TypeOK, CallsKnown, NoSelfNeighbour
<1>2. e \in Entries /\ e.missed = conns[p][q].missed
  BY <1>1, EntryType DEF NeighboursInv, Entries
<1>3. Put(p, q, e) /\ joining' = [joining EXCEPT ![p] = Nobody]
  BY DEF JoinError, JoinEnds
<1> HIDE DEF e, q
<1> QED BY <1>1, <1>2, <1>3, ConnsPut

LEMMA JoinFailsInv ==
    ASSUME NeighboursInv, NEW p \in Peers, JoinFails(p)
    PROVE  NeighboursInv'
<1>1. /\ UNCHANGED <<status, filters, toJoin, pinger, notifyVars, callVars, unanswered>>
      /\ joining[p] # Nobody /\ JoinError(p)
  BY DEF JoinFails
<1>2. /\ conns' \in [Peers -> PartialFunctions(Peers, Entries)]
      /\ ConnsGrow
      /\ joining' = [joining EXCEPT ![p] = Nobody]
  BY <1>1, JoinErrorConns
<1>3. faults' \in 0..MaxFaults
  BY FaultType DEF JoinFails, CallFails, NeighboursInv
<1>4. TypeOK'
  BY <1>1, <1>2, <1>3 DEF NeighboursInv, TypeOK, notifyVars, callVars
<1>5. PingersCalm /\ JoinsCalm /\ CallsCalm
  BY <1>1, <1>2 DEF NeighboursInv, TypeOK, PingersCalm, JoinsCalm, CallsCalm, notifyVars, callVars
<1> QED BY <1>1, <1>2, <1>4, <1>5, CalmStep

LEMMA HandleAddInv ==
    ASSUME NeighboursInv, NEW p \in Peers, NEW q \in Peers, HandleAdd(p, q)
    PROVE  NeighboursInv'
<1> DEFINE call == <<"AddNeighbour", p, q>>
<1>1. /\ call \in calls /\ p # q
      /\ UNCHANGED <<status, filters, toJoin, pinger, notifyVars, unanswered>>
  BY DEF HandleAdd, NeighboursInv, NoSelfNeighbour
<1>2. faults' \in 0..MaxFaults
  BY FaultType DEF HandleAdd, Dialled, DialSucceeds, DialFails, NeighboursInv
<1>3. /\ calls' \subseteq Methods \X Peers \X Peers /\ blocked' \subseteq calls'
      /\ calls' \subseteq calls
  BY <1>1, CallsType DEF HandleAdd, NeighboursInv, Methods
<1>4. /\ conns' \in [Peers -> PartialFunctions(Peers, Entries)]
      /\ ConnsGrow
      /\ \/ UNCHANGED joining
         \/ joining' = [joining EXCEPT ![p] = Nobody]
  <2>1. CASE Put(q, p, New) /\ (IF joining[p] = q THEN JoinEnds(p) ELSE UNCHANGED joining)
    BY <1>1, <2>1, ConnsPut, NewEntry DEF JoinEnds
  <2>2. CASE joining[p] = q /\ JoinError(p)
    BY <2>2, JoinErrorConns, PeersAssumption
  <2>3. CASE UNCHANGED <<conns, joining>>
    BY <2>3, ConnsSame DEF NeighboursInv, TypeOK
  <2> QED BY <2>1, <2>2, <2>3 DEF HandleAdd
<1>5. TypeOK'
  BY <1>1, <1>2, <1>3, <1>4 DEF NeighboursInv, TypeOK, notifyVars
<1>6. PingersCalm /\ JoinsCalm /\ CallsCalm
  BY <1>1, <1>3, <1>4 DEF NeighboursInv, TypeOK, PingersCalm, JoinsCalm, CallsCalm, notifyVars
<1> QED BY <1>1, <1>4, <1>5, <1>6, CalmStep

-----------------------------------------------------------------------------
(* The rounds of Bloom filters.                                            *)

LEMMA NotifyCalls ==
    ASSUME NeighboursInv, NEW p \in Peers, NotifyStep(p)
    PROVE  /\ calls' \subseteq Methods \X Peers \X Peers /\ blocked' \subseteq calls'
           /\ CallsCalm
<1>1. CASE UNCHANGED callVars
  BY <1>1 DEF callVars, NeighboursInv, TypeOK, CallsCalm
<1>2. ASSUME NEW q \in toNotify[p], Send(<<"NotifyBloomFilter", p, q>>)
      PROVE  /\ calls' \subseteq Methods \X Peers \X Peers /\ blocked' \subseteq calls'
             /\ CallsCalm
  <2>1. q \in Peers /\ q # p
    BY DEF NeighboursInv, TypeOK, NoSelfNeighbour
  <2> QED BY <1>2, <2>1, CallsType DEF NeighboursInv, Methods, CallsCalm
<1> QED
  BY <1>1, <1>2 DEF NotifyStep, NotifyStart, NotifyEnd, NotifyCall, NotifyFails

LEMMA NotifyInv ==
    ASSUME NeighboursInv, NEW p \in Peers, NotifyStep(p)
    PROVE  NeighboursInv'
<1>1. UNCHANGED <<status, conns, filters, toJoin, joining, pinger, unanswered>>
  BY DEF NotifyStep, NotifyStart, NotifyEnd, NotifyCall, NotifyFails, joinVars
<1>2. faults' \in 0..MaxFaults
  BY FaultType DEF NotifyStep, NotifyStart, NotifyEnd, NotifyCall, NotifyFails, CallFails,
                   NeighboursInv
<1>3. /\ notifying' \in [Peers -> BOOLEAN]
      /\ toNotify' \in [Peers -> SUBSET Peers]
      /\ notified' \in [Peers -> Peers \cup {Nobody}]
      /\ \A r \in Peers : toNotify'[r] \subseteq toNotify[r] \/ r \notin toNotify'[r]
  <2>1. Neighbours(p) \subseteq Peers \ {p}
    BY EntryType DEF NeighboursInv, NoSelfNeighbour
  <2>2. CASE NotifyStart(p)
    BY <2>1, <2>2 DEF NotifyStart, NeighboursInv, TypeOK
  <2>3. CASE NotifyReturns(p)
    BY <2>3 DEF NotifyReturns, NeighboursInv, TypeOK
  <2>4. ASSUME NEW q \in Peers, toNotify' = [toNotify EXCEPT ![p] = @ \ {q}],
               notified' = [notified EXCEPT ![p] = q], UNCHANGED notifying
        PROVE  <1>3!1 /\ <1>3!2 /\ <1>3!3 /\ <1>3!4
    BY <2>4 DEF NeighboursInv, TypeOK
  <2> QED
    BY <2>2, <2>3, <2>4 DEF NotifyStep, NotifyEnd, NotifyCall, NotifyFails
<1>4. TypeOK'
  BY <1>1, <1>2, <1>3, NotifyCalls DEF NeighboursInv, TypeOK
<1>5. ConnsGrow /\ PingersCalm /\ JoinsCalm
  BY <1>1, <1>3, ConnsSame DEF NeighboursInv, TypeOK, PingersCalm, JoinsCalm
<1> QED BY <1>1, <1>4, <1>5, NotifyCalls, CalmStep

LEMMA HandleFilterInv ==
    ASSUME NeighboursInv, NEW p \in Peers, NEW q \in Peers, HandleFilter(p, q)
    PROVE  NeighboursInv'
<1>1. UNCHANGED <<status, conns, joinVars, pinger, toNotify, notifying, faults, unanswered>>
  BY DEF HandleFilter
<1>2. filters' \in [Peers -> SUBSET Peers] /\ notified' \in [Peers -> Peers \cup {Nobody}]
  <2>1. CASE UNCHANGED <<filters, notified>>
    BY <2>1 DEF NeighboursInv, TypeOK
  <2>2. CASE filters' = [filters EXCEPT ![q] = @ \cup {p}]
    <3>1. notified' \in {notified, [notified EXCEPT ![p] = Nobody]}
      BY <2>2 DEF HandleFilter
    <3> QED BY <2>2, <3>1 DEF NeighboursInv, TypeOK
  <2> QED BY <2>1, <2>2 DEF HandleFilter
<1>3. /\ calls' \subseteq Methods \X Peers \X Peers /\ blocked' \subseteq calls'
      /\ calls' \subseteq calls
  BY CallsType DEF HandleFilter, NeighboursInv, Methods
<1>4. TypeOK'
  BY <1>1, <1>2, <1>3 DEF NeighboursInv, TypeOK, joinVars
<1>5. ConnsGrow /\ PingersCalm /\ JoinsCalm /\ CallsCalm
  BY <1>1, <1>3, ConnsSame DEF NeighboursInv, TypeOK, PingersCalm, JoinsCalm, CallsCalm, joinVars
<1> QED BY <1>1, <1>4, <1>5, CalmStep

-----------------------------------------------------------------------------
(* The pings.                                                              *)

LEMMA PingWakesInv ==
    ASSUME NeighboursInv, NEW p \in Peers, PingWakes(p)
    PROVE  NeighboursInv'
<1> DEFINE row == [pinger[p] EXCEPT !.step = "lock"]
<1>1. /\ pinger[p] \in Pingers /\ pinger' = [pinger EXCEPT ![p] = row]
      /\ UNCHANGED <<status, conns, filters, joinVars, notifyVars, callVars, faults, unanswered>>
  BY DEF PingWakes, NeighboursInv, TypeOK
<1>2. row \in Pingers /\ row.step = "lock" /\ row.clone = pinger[p].clone
  BY <1>1, StepType
<1> HIDE DEF row
<1>3. /\ pinger' \in [Peers -> Pingers] /\ pinger'[p] = row
      /\ \A r \in Peers \ {p} : pinger'[r] = pinger[r]
  BY <1>1, <1>2, PingerType DEF NeighboursInv
<1>4. TypeOK'
  BY <1>1, <1>3 DEF NeighboursInv, TypeOK, joinVars, notifyVars, callVars
<1>5. ConnsGrow /\ PingersCalm /\ JoinsCalm /\ CallsCalm
  BY <1>1, <1>2, <1>3, ConnsSame DEF NeighboursInv, NoSelfNeighbour, PingersCalm, JoinsCalm,
                        CallsCalm, joinVars, notifyVars, callVars
<1> QED BY <1>1, <1>4, <1>5, CalmStep

LEMMA PingStartInv ==
    ASSUME NeighboursInv, NEW p \in Peers, PingStart(p)
    PROVE  NeighboursInv'
<1> DEFINE clone == [q \in Neighbours(p) |-> conns[p][q].open]
           pg == [Idle EXCEPT !.clone = clone]
           row == Proceeds(pg)
<1>1. /\ pinger' = [pinger EXCEPT ![p] = row]
      /\ UNCHANGED <<status, conns, filters, joinVars, notifyVars, callVars, faults, unanswered>>
  BY DEF PingStart
<1>2. clone \in PartialFunctions(Peers, BOOLEAN) /\ DOMAIN clone = Neighbours(p)
  <2>1. \A q \in Neighbours(p) : q \in Peers /\ conns[p][q].open \in BOOLEAN
    BY EntryType DEF NeighboursInv, Entries
  <2>2. clone \in [Neighbours(p) -> BOOLEAN]
    BY <2>1
  <2> QED BY <2>1, <2>2 DEF PartialFunctions
<1> HIDE DEF clone
<1>3. pg \in Pingers /\ pg.clone = clone
  BY <1>2, NewEntry DEF Idle, Pingers
<1> HIDE DEF pg
<1>4. row \in Pingers /\ row.step \in {"idle", "next"} /\ p \notin DOMAIN row.clone
  BY <1>2, <1>3, ProceedsType DEF NeighboursInv, NoSelfNeighbour
<1> HIDE DEF row
<1>5. /\ pinger' \in [Peers -> Pingers] /\ pinger'[p] = row
      /\ \A r \in Peers \ {p} : pinger'[r] = pinger[r]
  BY <1>1, <1>4, PingerType DEF NeighboursInv
<1>6. TypeOK'
  BY <1>1, <1>5 DEF NeighboursInv, TypeOK, joinVars, notifyVars, callVars
<1>7. ConnsGrow /\ PingersCalm /\ JoinsCalm /\ CallsCalm
  BY <1>1, <1>4, <1>5, ConnsSame DEF NeighboursInv, PingersCalm, JoinsCalm, CallsCalm, joinVars,
                        notifyVars, callVars
<1> QED BY <1>1, <1>6, <1>7, CalmStep

(* A step of one goroutine of pings, which keeps the counts of its node.   *)
LEMMA PingerStep ==
    ASSUME NeighboursInv, TypeOK', NEW p \in Peers, UNCHANGED <<joinVars, notifyVars>>, CallsCalm,
           \A r \in Peers \ {p} :
                conns'[r] = conns[r] /\ pinger'[r] = pinger[r] /\ unanswered'[r] = unanswered[r],
           p \notin Neighbours(p)', p \notin DOMAIN pinger'[p].clone,
           joining[p] # Nobody => joining[p] \in Neighbours(p)',
           pinger'[p].step \in {"waiting", "answered", "missed", "read"}
                => pinger'[p].target \in Peers \ {p},
           \A q \in Peers : Counted(p, q)'
    PROVE  NeighboursInv'
<1>1. NoSelfNeighbour'
  BY DEF NeighboursInv, NoSelfNeighbour, CallsCalm, Neighbours, joinVars, notifyVars
<1>2. CallsKnown'
  BY DEF NeighboursInv, CallsKnown, Neighbours, joinVars
<1>3. MissesCounted'
  <2> SUFFICES ASSUME NEW r \in Peers, NEW q \in Peers, r # p PROVE Counted(r, q)'
    BY DEF MissesCounted
  <2> QED BY DEF NeighboursInv, MissesCounted, Counted, EntryMissed, PingerAt, Neighbours
<1> QED BY <1>1, <1>2, <1>3 DEF NeighboursInv

(* One more ping of q is missed.                                           *)
LEMMA MissedCounts ==
    ASSUME NeighboursInv, NEW p \in Peers, NEW q \in Peers, Missed(p, q), UNCHANGED conns,
           pinger'[p].step = "missed", pinger'[p].target = q
    PROVE  \A r \in Peers : Counted(p, r)'
<1> SUFFICES ASSUME NEW r \in Peers PROVE Counted(p, r)'
  OBVIOUS
<1>1. EntryMissed(p, r)' = EntryMissed(p, r)
  BY DEF EntryMissed, Neighbours
<1>2. EntryMissed(p, r) \in 0..MaxMissed - 1 /\ EntryMissed(p, r) <= unanswered[p][r]
  <2>1. EntryMissed(p, r) \in 0..MaxMissed - 1
    BY EntryType, BoundsAssumption DEF EntryMissed, Entries, NeighboursInv
  <2> QED BY <2>1 DEF NeighboursInv, MissesCounted, Counted
<1>3. /\ unanswered[p][r] \in 0..MaxMissed
      /\ unanswered'[p][r] = IF r = q /\ unanswered[p][r] # MaxMissed
                             THEN unanswered[p][r] + 1 ELSE unanswered[p][r]
  BY MissedType DEF NeighboursInv, TypeOK
<1>4. EntryMissed(p, r) <= unanswered'[p][r] /\ (r = q => EntryMissed(p, r) < unanswered'[p][r])
  BY <1>2, <1>3, BoundsAssumption
<1> QED BY <1>1, <1>4 DEF Counted, PingerAt

LEMMA PingCallInv ==
    ASSUME NeighboursInv, NEW p \in Peers, NEW q \in Peers, PingCall(p, q)
    PROVE  NeighboursInv'
<1>1. PICK step \in {"waiting", "missed"} :
        /\ pinger' = [pinger EXCEPT ![p] =
                [pinger[p] EXCEPT !.step = step, !.target = q,
                                  !.clone = Removed(pinger[p].clone, q)]]
        /\ \/ step = "waiting" /\ Send(<<"Ping", p, q>>) /\ UNCHANGED unanswered
           \/ step = "missed" /\ Missed(p, q) /\ UNCHANGED callVars
  BY DEF PingCall
<1> DEFINE pg == pinger[p]
           row == [pg EXCEPT !.step = step, !.target = q, !.clone = Removed(pg.clone, q)]
<1>2. /\ pg \in Pingers /\ q \in DOMAIN pg.clone /\ p # q /\ p \notin DOMAIN pg.clone
      /\ pinger' = [pinger EXCEPT ![p] = row]
      /\ UNCHANGED <<status, conns, filters, joinVars, notifyVars, faults>>
  <2>1. /\ q \in DOMAIN pg.clone
        /\ UNCHANGED <<status, conns, filters, joinVars, notifyVars, faults>>
    BY DEF PingCall
  <2>2. pg \in Pingers /\ p \notin DOMAIN pg.clone
    BY DEF NeighboursInv, TypeOK, NoSelfNeighbour
  <2>3. pinger' = [pinger EXCEPT ![p] = row]
    BY <1>1
  <2> QED BY <2>1, <2>2, <2>3
<1>3. /\ row \in Pingers /\ row.step = step /\ row.target = q
      /\ p \notin DOMAIN row.clone
  <2>1. /\ Removed(pg.clone, q) \in PartialFunctions(Peers, BOOLEAN)
        /\ DOMAIN Removed(pg.clone, q) = DOMAIN pg.clone \ {q}
    <3>1. pg.clone \in PartialFunctions(Peers, BOOLEAN)
      BY <1>2, PingersRow
    <3>2. Removed(pg.clone, q) \in PartialFunctions(Peers, BOOLEAN)
      BY <3>1, RemovedType, Zenon
    <3> QED BY <3>2, RemovedValues
  <2> HIDE DEF pg
  <2> QED BY <1>2, <2>1 DEF Pingers
<1> HIDE DEF row
<1>4. /\ pinger' \in [Peers -> Pingers] /\ pinger'[p] = row
      /\ \A r \in Peers \ {p} : pinger'[r] = pinger[r]
  BY <1>2, <1>3, PingerType DEF NeighboursInv
<1>5. CASE step = "waiting"
  <2>1. Send(<<"Ping", p, q>>) /\ UNCHANGED unanswered
    BY <1>1, <1>5
  <2>2. /\ calls' \subseteq Methods \X Peers \X Peers /\ blocked' \subseteq calls'
        /\ calls' \subseteq calls \cup {<<"Ping", p, q>>}
    BY <2>1, CallsType DEF NeighboursInv, Methods
  <2>3. TypeOK'
    BY <1>2, <1>4, <2>1, <2>2 DEF NeighboursInv, TypeOK, joinVars, notifyVars
  <2>4. ConnsGrow /\ PingersCalm /\ JoinsCalm /\ CallsCalm
    BY <1>2, <1>3, <1>4, <1>5, <2>2, ConnsSame
       DEF NeighboursInv, TypeOK, PingersCalm, JoinsCalm, CallsCalm, joinVars, notifyVars
  <2> QED BY <2>1, <2>3, <2>4, CalmStep
<1>6. CASE step = "missed"
  <2>1. Missed(p, q) /\ UNCHANGED callVars
    BY <1>1, <1>6
  <2>2. /\ unanswered' \in [Peers -> [Peers -> 0..MaxMissed]]
        /\ \A r \in Peers \ {p} : unanswered'[r] = unanswered[r]
    BY <2>1, MissedType DEF NeighboursInv, TypeOK, Missed
  <2>3. TypeOK'
    BY <1>2, <1>4, <2>1, <2>2 DEF NeighboursInv, TypeOK, joinVars, notifyVars, callVars
  <2>4. \A r \in Peers : Counted(p, r)'
    BY <1>2, <1>3, <1>4, <1>6, <2>1, MissedCounts
  <2>5. CallsCalm /\ Neighbours(p)' = Neighbours(p)
    BY <1>2, <2>1 DEF CallsCalm, callVars, Neighbours
  <2> QED
    BY <1>2, <1>3, <1>4, <2>2, <2>3, <2>4, <2>5, PingerStep
       DEF NeighboursInv, NoSelfNeighbour, CallsKnown
<1> QED BY <1>5, <1>6

(* The answer to a ping, or its absence, is noted by the pinger that waits *)
(* for it.                                                                 *)
LEMMA AnsweredRow ==
    ASSUME NeighboursInv, NEW p \in Peers, NEW q \in Peers, p # q,
           NEW step \in {"answered", "missed"}, Answered(p, q, step)
    PROVE  /\ pinger' \in [Peers -> Pingers]
           /\ \A r \in Peers \ {p} : pinger'[r] = pinger[r]
           /\ \/ pinger' = pinger
              \/ /\ pinger[p].step = "waiting"
                 /\ pinger'[p].step = step /\ pinger'[p].target = q
                 /\ pinger'[p].clone = pinger[p].clone
<1>1. pinger[p] \in Pingers
  BY DEF NeighboursInv, TypeOK
<1>2. CASE pinger[p].step = "waiting" /\ pinger[p].target = q
  <2> DEFINE row == [pinger[p] EXCEPT !.step = step]
  <2>1. row \in Pingers /\ row.step = step /\ row.target = q /\ row.clone = pinger[p].clone
    <3>1. step \in {"idle", "lock", "next", "waiting", "answered", "missed", "read"}
      OBVIOUS
    <3> QED BY <1>1, <1>2, <3>1, StepType
  <2>2. pinger' = [pinger EXCEPT ![p] = row]
    BY <1>2 DEF Answered
  <2> HIDE DEF row
  <2> QED BY <1>2, <2>1, <2>2, PingerType DEF NeighboursInv
<1>3. CASE ~(pinger[p].step = "waiting" /\ pinger[p].target = q)
  BY <1>3 DEF Answered, NeighboursInv, TypeOK
<1> QED BY <1>2, <1>3

LEMMA HandlePingInv ==
    ASSUME NeighboursInv, NEW p \in Peers, NEW q \in Peers, HandlePing(p, q)
    PROVE  NeighboursInv'
<1> DEFINE call == <<"Ping", p, q>>
<1>1. /\ call \in calls /\ p # q
      /\ UNCHANGED <<status, filters, joinVars, notifyVars>>
  BY DEF HandlePing, NeighboursInv, NoSelfNeighbour
<1>2. faults' \in 0..MaxFaults
  BY FaultType DEF HandlePing, Dialled, DialSucceeds, DialFails, NeighboursInv
<1>3. /\ calls' \subseteq Methods \X Peers \X Peers /\ blocked' \subseteq calls'
      /\ calls' \subseteq calls
  BY <1>1, CallsType DEF HandlePing, NeighboursInv, Methods
<1>4. CASE /\ Answered(p, q, "answered") \/ UNCHANGED pinger
           /\ UNCHANGED conns \/ Put(q, p, New)
  <2>1. /\ pinger' \in [Peers -> Pingers]
        /\ \A r \in Peers \ {p} : pinger'[r] = pinger[r]
        /\ \/ pinger' = pinger
           \/ /\ pinger[p].step = "waiting"
              /\ pinger'[p].step = "answered" /\ pinger'[p].target = q
              /\ pinger'[p].clone = pinger[p].clone
    BY <1>1, <1>4, AnsweredRow DEF NeighboursInv, TypeOK
  <2>2. unanswered' = unanswered
    BY <2>1 DEF HandlePing
  <2>3. conns' \in [Peers -> PartialFunctions(Peers, Entries)] /\ ConnsGrow
    BY <1>1, <1>4, ConnsSame, ConnsPut, NewEntry DEF NeighboursInv, TypeOK
  <2>4. TypeOK'
    BY <1>1, <1>2, <1>3, <2>1, <2>2, <2>3 DEF NeighboursInv, TypeOK, joinVars, notifyVars
  <2>5. PingersCalm /\ JoinsCalm /\ CallsCalm
    BY <1>1, <1>3, <2>1 DEF NeighboursInv, TypeOK, NoSelfNeighbour, PingersCalm, JoinsCalm,
                            CallsCalm, joinVars, notifyVars
  <2> QED BY <2>2, <2>3, <2>4, <2>5, CalmStep
<1>5. CASE Answered(p, q, "missed") /\ UNCHANGED conns
  <2>1. /\ pinger' \in [Peers -> Pingers]
        /\ \A r \in Peers \ {p} : pinger'[r] = pinger[r]
        /\ \/ pinger' = pinger
           \/ /\ pinger[p].step = "waiting"
              /\ pinger'[p].step = "missed" /\ pinger'[p].target = q
              /\ pinger'[p].clone = pinger[p].clone
    BY <1>1, <1>5, AnsweredRow
  <2>2. CASE pinger' = pinger
    <3>1. unanswered' = unanswered
      BY <2>2 DEF HandlePing
    <3>2. TypeOK'
      BY <1>1, <1>2, <1>3, <1>5, <2>2, <3>1 DEF NeighboursInv, TypeOK, joinVars, notifyVars
    <3>3. ConnsGrow /\ PingersCalm /\ JoinsCalm /\ CallsCalm
      BY <1>1, <1>3, <1>5, <2>2, ConnsSame DEF NeighboursInv, TypeOK, PingersCalm, JoinsCalm,
                            CallsCalm, joinVars, notifyVars
    <3> QED BY <3>1, <3>2, <3>3, CalmStep
  <2>3. CASE pinger' # pinger
    <3>1. Missed(p, q)
      BY <2>1, <2>3 DEF HandlePing
    <3>2. /\ unanswered' \in [Peers -> [Peers -> 0..MaxMissed]]
          /\ \A r \in Peers \ {p} : unanswered'[r] = unanswered[r]
      BY <3>1, MissedType DEF NeighboursInv, TypeOK, Missed
    <3>3. TypeOK'
      BY <1>1, <1>2, <1>3, <1>5, <2>1, <3>2 DEF NeighboursInv, TypeOK, joinVars, notifyVars
    <3>4. \A r \in Peers : Counted(p, r)'
      BY <1>5, <2>1, <2>3, <3>1, MissedCounts
    <3>5. CallsCalm /\ Neighbours(p)' = Neighbours(p)
      BY <1>3, <1>5 DEF CallsCalm, Neighbours
    <3>6. p \notin Neighbours(p)' /\ p \notin DOMAIN pinger'[p].clone
      BY <2>1, <3>5 DEF NeighboursInv, NoSelfNeighbour
    <3>7. joining[p] # Nobody => joining[p] \in Neighbours(p)'
      BY <3>5 DEF NeighboursInv, CallsKnown
    <3> QED
      BY <1>1, <1>5, <2>1, <2>3, <3>2, <3>3, <3>4, <3>5, <3>6, <3>7, PingerStep
  <2> QED BY <2>2, <2>3
<1> QED BY <1>4, <1>5 DEF HandlePing

LEMMA PingFailsInv ==
    ASSUME NeighboursInv, NEW p \in Peers, PingFails(p)
    PROVE  NeighboursInv'
<1> DEFINE q == pinger[p].target
           row == [pinger[p] EXCEPT !.step = "missed"]
<1>1. /\ pinger[p] \in Pingers /\ q \in Peers \ {p} /\ p \notin DOMAIN pinger[p].clone
      /\ pinger' = [pinger EXCEPT ![p] = row] /\ Missed(p, q)
      /\ UNCHANGED <<status, conns, filters, joinVars, notifyVars, callVars>>
  BY DEF PingFails, NeighboursInv, TypeOK, CallsKnown, NoSelfNeighbour
<1>2. row \in Pingers /\ row.step = "missed" /\ row.target = q /\ row.clone = pinger[p].clone
  BY <1>1, StepType
<1> HIDE DEF row, q
<1>3. /\ pinger' \in [Peers -> Pingers] /\ pinger'[p] = row
      /\ \A r \in Peers \ {p} : pinger'[r] = pinger[r]
  BY <1>1, <1>2, PingerType DEF NeighboursInv
<1>4. faults' \in 0..MaxFaults
  BY FaultType DEF PingFails, CallFails, NeighboursInv
<1>5. /\ unanswered' \in [Peers -> [Peers -> 0..MaxMissed]]
      /\ \A r \in Peers \ {p} : unanswered'[r] = unanswered[r]
  BY <1>1, MissedType DEF NeighboursInv, TypeOK, Missed
<1>6. TypeOK'
  BY <1>1, <1>3, <1>4, <1>5 DEF NeighboursInv, TypeOK, joinVars, notifyVars, callVars
<1>7. \A r \in Peers : Counted(p, r)'
  BY <1>1, <1>2, <1>3, MissedCounts
<1>8. CallsCalm /\ Neighbours(p)' = Neighbours(p)
  BY <1>1 DEF CallsCalm, callVars, Neighbours
<1> QED
  BY <1>1, <1>2, <1>3, <1>5, <1>6, <1>7, <1>8, PingerStep
     DEF NeighboursInv, NoSelfNeighbour, CallsKnown

(* No ping in a row is left unanswered, and no entry counts one.           *)
LEMMA PingAnsweredInv ==
    ASSUME NeighboursInv, NEW p \in Peers, PingAnswered(p)
    PROVE  NeighboursInv'
<1> DEFINE q == pinger[p].target
           row == Proceeds(pinger[p])
           zero == [unanswered[p] EXCEPT ![q] = 0]
<1>1. /\ pinger[p] \in Pingers /\ q \in Peers \ {p} /\ p \notin DOMAIN pinger[p].clone
      /\ pinger' = [pinger EXCEPT ![p] = row]
      /\ UNCHANGED <<status, filters, joinVars, notifyVars, callVars, faults>>
  BY DEF PingAnswered, NeighboursInv, TypeOK, CallsKnown, NoSelfNeighbour
<1>2. unanswered' = [unanswered EXCEPT ![p] = zero] /\ zero \in [Peers -> 0..MaxMissed]
  <2>1. unanswered' = [unanswered EXCEPT ![p] = zero]
    BY DEF PingAnswered
  <2>2. unanswered[p] \in [Peers -> 0..MaxMissed] /\ 0 \in 0..MaxMissed
    BY BoundsAssumption DEF NeighboursInv, TypeOK
  <2> QED BY <2>1, <2>2
<1>3. /\ unanswered' \in [Peers -> [Peers -> 0..MaxMissed]]
      /\ \A r \in Peers \ {p} : unanswered'[r] = unanswered[r]
      /\ \A r \in Peers : unanswered'[p][r] = IF r = q THEN 0 ELSE unanswered[p][r]
  <2>1. unanswered \in [Peers -> [Peers -> 0..MaxMissed]]
    BY DEF NeighboursInv, TypeOK
  <2> QED BY <1>2, <2>1
<1>4. row \in Pingers /\ row.step \in {"idle", "next"} /\ p \notin DOMAIN row.clone
  BY <1>1, ProceedsType
<1>5. /\ conns' \in [Peers -> PartialFunctions(Peers, Entries)]
      /\ \A r \in Peers \ {p} : conns'[r] = conns[r]
      /\ Neighbours(p)' = Neighbours(p)
      /\ \A r \in Neighbours(p) :
            conns'[p][r].missed = IF r = q THEN 0 ELSE conns[p][r].missed
  <2>1. CASE q \in Neighbours(p)
    <3> DEFINE e == [conns[p][q] EXCEPT !.missed = 0]
    <3>1. e \in Entries /\ e.missed = 0
      BY <2>1, EntryType, BoundsAssumption DEF NeighboursInv, Entries
    <3>2. Put(p, q, e)
      BY <2>1 DEF PingAnswered
    <3> HIDE DEF e, q
    <3>3. /\ conns' \in [Peers -> PartialFunctions(Peers, Entries)]
          /\ Neighbours(p)' = Neighbours(p)
          /\ \A s \in Neighbours(p)' : conns'[p][s] = IF s = q THEN e ELSE conns[p][s]
      <4>1. q \in Peers /\ q \in Neighbours(p) /\ TypeOK
        BY <1>1, <2>1 DEF NeighboursInv, q
      <4>2. \A r \in Peers : Neighbours(r)' =
                IF r = p THEN Neighbours(r) \cup {q} ELSE Neighbours(r)
        BY <3>1, <3>2, <4>1, PutEntry
      <4>3. \A r \in Peers : \A s \in Neighbours(r)' : conns'[r][s] =
                IF r = p /\ s = q THEN e ELSE conns[r][s]
        BY <3>1, <3>2, <4>1, PutEntry
      <4>4. conns' \in [Peers -> PartialFunctions(Peers, Entries)]
        BY <3>1, <3>2, <4>1, PutEntry
      <4> QED BY <4>1, <4>2, <4>3, <4>4
    <3>4. \A r \in Peers \ {p} : conns'[r] = conns[r]
      BY <3>2 DEF Put, NeighboursInv, TypeOK
    <3> QED BY <3>1, <3>3, <3>4
  <2>2. CASE q \notin Neighbours(p)
    BY <2>2 DEF PingAnswered, NeighboursInv, TypeOK, Neighbours
  <2> QED BY <2>1, <2>2
<1> HIDE DEF row, q, zero
<1>6. /\ pinger' \in [Peers -> Pingers] /\ pinger'[p] = row
      /\ \A r \in Peers \ {p} : pinger'[r] = pinger[r]
  BY <1>1, <1>4, PingerType DEF NeighboursInv
<1>7. TypeOK'
  BY <1>1, <1>3, <1>5, <1>6 DEF NeighboursInv, TypeOK, joinVars, notifyVars, callVars
<1>8. ASSUME NEW r \in Peers PROVE Counted(p, r)'
  <2>1. EntryMissed(p, r)' = IF r = q THEN 0 ELSE EntryMissed(p, r)
    BY <1>5 DEF EntryMissed
  <2>2. EntryMissed(p, r) <= unanswered[p][r]
    BY DEF NeighboursInv, MissesCounted, Counted
  <2> QED BY <1>3, <1>4, <1>6, <2>1, <2>2 DEF Counted, PingerAt
<1>9. CallsCalm
  BY <1>1 DEF CallsCalm, callVars
<1> QED
  BY <1>1, <1>3, <1>4, <1>5, <1>6, <1>7, <1>8, <1>9, PingerStep
     DEF NeighboursInv, NoSelfNeighbour, CallsKnown

LEMMA ReadEntryInv ==
    ASSUME NeighboursInv, NEW p \in Peers, ReadEntry(p)
    PROVE  NeighboursInv'
<1> DEFINE q == pinger[p].target
           pg == pinger[p]
<1>1. /\ pg \in Pingers /\ q \in Peers \ {p} /\ p \notin DOMAIN pg.clone
      /\ pg.step = "missed"
      /\ UNCHANGED <<status, conns, filters, joinVars, notifyVars, callVars, faults, unanswered>>
  BY DEF ReadEntry, NeighboursInv, TypeOK, CallsKnown, NoSelfNeighbour
<1>2. \E row \in Pingers :
        /\ pinger' = [pinger EXCEPT ![p] = row]
        /\ p \notin DOMAIN row.clone
        /\ \/ row.step \in {"idle", "next"}
           \/ /\ row.step = "read" /\ row.target = q /\ q \in Neighbours(p)
              /\ row.saved = conns[p][q]
  <2>1. CASE q \in Neighbours(p)
    <3> DEFINE row == [pg EXCEPT !.step = "read", !.saved = conns[p][q]]
    <3>1. conns[p][q] \in Entries
      BY <2>1, EntryType DEF NeighboursInv
    <3>2. /\ row \in Pingers /\ row.step = "read" /\ row.target = q
          /\ row.clone = pg.clone /\ row.saved = conns[p][q]
      <4>1. pg.target = q
        OBVIOUS
      <4> HIDE DEF pg, q
      <4> QED BY <1>1, <3>1, <4>1 DEF Pingers
    <3>3. pinger' = [pinger EXCEPT ![p] = row]
      BY <2>1 DEF ReadEntry
    <3> QED BY <1>1, <2>1, <3>2, <3>3
  <2>2. CASE q \notin Neighbours(p)
    <3>1. pinger' = [pinger EXCEPT ![p] = Proceeds(pg)]
      BY <2>2 DEF ReadEntry
    <3> QED BY <1>1, <3>1, ProceedsType
  <2> QED BY <2>1, <2>2
<1>3. PICK row \in Pingers :
        /\ pinger' = [pinger EXCEPT ![p] = row]
        /\ p \notin DOMAIN row.clone
        /\ \/ row.step \in {"idle", "next"}
           \/ /\ row.step = "read" /\ row.target = q /\ q \in Neighbours(p)
              /\ row.saved = conns[p][q]
  BY <1>2
<1>4. /\ pinger' \in [Peers -> Pingers] /\ pinger'[p] = row
      /\ \A r \in Peers \ {p} : pinger'[r] = pinger[r]
  BY <1>3, PingerType DEF NeighboursInv
<1>5. TypeOK'
  BY <1>1, <1>4 DEF NeighboursInv, TypeOK, joinVars, notifyVars, callVars
<1>6. ASSUME NEW r \in Peers PROVE Counted(p, r)'
  <2>1. EntryMissed(p, r)' = EntryMissed(p, r)
    BY <1>1 DEF EntryMissed, Neighbours
  <2>2. Counted(p, r) /\ (PingerAt(p, "missed", r) <=> q = r)
    BY <1>1 DEF NeighboursInv, MissesCounted, PingerAt
  <2>3. PingerAt(p, "read", r)' => r = q /\ pinger'[p].saved.missed = EntryMissed(p, r)
    BY <1>3, <1>4 DEF PingerAt, EntryMissed
  <2>4. ~PingerAt(p, "missed", r)'
    BY <1>3, <1>4 DEF PingerAt
  <2> QED BY <1>1, <2>1, <2>2, <2>3, <2>4 DEF Counted
<1>7. CallsCalm /\ Neighbours(p)' = Neighbours(p)
  BY <1>1 DEF CallsCalm, callVars, Neighbours
<1> QED
  BY <1>1, <1>3, <1>4, <1>5, <1>6, <1>7, PingerStep
     DEF NeighboursInv, NoSelfNeighbour, CallsKnown

(* The entry that was read comes back with one missed ping more, or goes:  *)
(* then as many pings in a row were missed.                                *)
LEMMA WriteBackConns ==
    ASSUME NeighboursInv, NEW p \in Peers, WriteBack(p)
    PROVE  LET q == pinger[p].target IN
           /\ conns' \in [Peers -> PartialFunctions(Peers, Entries)]
           /\ \A r \in Peers \ {p} : conns'[r] = conns[r]
           /\ p \notin Neighbours(p)'
           /\ \A r \in Peers : EntryMissed(p, r)' <= unanswered[p][r]
           /\ \A r \in Neighbours(p) : r \notin Neighbours(p)' => unanswered[p][r] >= MaxMissed
<1> DEFINE q == pinger[p].target
           saved == pinger[p].saved
           missed == saved.missed + 1
           e == [saved EXCEPT !.missed = missed]
<1>1. q \in Peers \ {p} /\ saved \in Entries /\ missed <= unanswered[p][q]
  <2>1. pinger[p] \in Pingers /\ PingerAt(p, "read", q) /\ q \in Peers \ {p}
    BY DEF WriteBack, NeighboursInv, TypeOK, CallsKnown, PingerAt
  <2>2. saved \in Entries
    BY <2>1, PingersRow
  <2>3. saved.missed \in Nat /\ unanswered[p][q] \in Nat
    BY <2>1, <2>2, BoundsAssumption DEF Entries, NeighboursInv, TypeOK
  <2>4. saved.missed < unanswered[p][q]
    BY <2>1 DEF NeighboursInv, MissesCounted, Counted
  <2> QED BY <2>1, <2>2, <2>3, <2>4
<1>2. \A r \in Peers : /\ EntryMissed(p, r) <= unanswered[p][r]
                       /\ unanswered[p][r] \in Nat
  BY BoundsAssumption DEF NeighboursInv, MissesCounted, Counted, TypeOK
<1>3. conns \in [Peers -> PartialFunctions(Peers, Entries)] /\ p \notin Neighbours(p)
  BY DEF NeighboursInv, TypeOK, NoSelfNeighbour
<1>4. CASE missed >= MaxMissed
  <2>1. conns' = [conns EXCEPT ![p] = Removed(conns[p], q)]
    BY <1>4 DEF WriteBack
  <2>2. /\ Removed(conns[p], q) \in PartialFunctions(Peers, Entries)
        /\ DOMAIN Removed(conns[p], q) = DOMAIN conns[p] \ {q}
        /\ \A r \in DOMAIN conns[p] \ {q} : Removed(conns[p], q)[r] = conns[p][r]
    <3>1. conns[p] \in PartialFunctions(Peers, Entries)
      BY <1>3
    <3>2. Removed(conns[p], q) \in PartialFunctions(Peers, Entries)
      BY <3>1, RemovedType, Zenon
    <3> QED BY <3>2, RemovedValues
  <2>3. /\ conns' \in [Peers -> PartialFunctions(Peers, Entries)]
        /\ \A r \in Peers \ {p} : conns'[r] = conns[r]
        /\ conns'[p] = Removed(conns[p], q)
    BY <1>3, <2>1, <2>2
  <2>4. /\ Neighbours(p)' = Neighbours(p) \ {q}
        /\ \A r \in Neighbours(p)' : conns'[p][r] = conns[p][r]
    BY <2>2, <2>3 DEF Neighbours
  <2>5. unanswered[p][q] >= MaxMissed
    BY <1>1, <1>2, <1>4, BoundsAssumption DEF Entries
  <2>6. \A r \in Peers : EntryMissed(p, r)' <= unanswered[p][r]
    BY <1>2, <2>4 DEF EntryMissed
  <2> QED BY <1>3, <2>3, <2>4, <2>5, <2>6
<1>5. CASE ~(missed >= MaxMissed)
  <2>1. e \in Entries /\ e.missed = missed
    <3> HIDE DEF saved
    <3> QED BY <1>1, <1>5, BoundsAssumption DEF Entries
  <2>2. Put(p, q, e)
    BY <1>5 DEF WriteBack
  <2>3. \A r \in Peers \ {p} : conns'[r] = conns[r]
    BY <1>3, <2>2 DEF Put
  <2> HIDE DEF e, missed, q
  <2>4. /\ conns' \in [Peers -> PartialFunctions(Peers, Entries)]
        /\ Neighbours(p)' = Neighbours(p) \cup {q}
        /\ \A r \in Neighbours(p)' : conns'[p][r] = IF r = q THEN e ELSE conns[p][r]
    BY <1>1, <2>1, <2>2, PutEntry DEF NeighboursInv
  <2>5. \A r \in Peers : EntryMissed(p, r)' <= unanswered[p][r]
    BY <1>1, <1>2, <2>1, <2>4 DEF EntryMissed
  <2> QED BY <1>1, <1>3, <2>3, <2>4, <2>5
<1> QED BY <1>4, <1>5

LEMMA WriteBackInv ==
    ASSUME NeighboursInv, NEW p \in Peers, WriteBack(p)
    PROVE  NeighboursInv'
<1> DEFINE q == pinger[p].target
           row == Proceeds(pinger[p])
<1>1. /\ pinger[p] \in Pingers /\ p \notin DOMAIN pinger[p].clone
      /\ joining[p] = Nobody
      /\ pinger' = [pinger EXCEPT ![p] = row]
      /\ UNCHANGED <<status, joinVars, notifyVars, callVars, faults, unanswered>>
  BY DEF WriteBack, ConnsFree, NeighboursInv, TypeOK, NoSelfNeighbour
<1>2. row \in Pingers /\ row.step \in {"idle", "next"} /\ p \notin DOMAIN row.clone
  BY <1>1, ProceedsType
<1>3. /\ conns' \in [Peers -> PartialFunctions(Peers, Entries)]
      /\ \A r \in Peers \ {p} : conns'[r] = conns[r]
      /\ p \notin Neighbours(p)'
      /\ \A r \in Peers : EntryMissed(p, r)' <= unanswered[p][r]
  BY WriteBackConns
<1>4. filters' \in [Peers -> SUBSET Peers]
  BY DEF WriteBack, NeighboursInv, TypeOK
<1> HIDE DEF row
<1>5. /\ pinger' \in [Peers -> Pingers] /\ pinger'[p] = row
      /\ \A r \in Peers \ {p} : pinger'[r] = pinger[r]
  BY <1>1, <1>2, PingerType DEF NeighboursInv
<1>6. TypeOK'
  BY <1>1, <1>3, <1>4, <1>5 DEF NeighboursInv, TypeOK, joinVars, notifyVars, callVars
<1>7. \A r \in Peers : Counted(p, r)'
  BY <1>1, <1>2, <1>3, <1>5 DEF Counted, PingerAt
<1>8. CallsCalm
  BY <1>1 DEF CallsCalm, callVars
<1> QED BY <1>1, <1>2, <1>3, <1>5, <1>6, <1>7, <1>8, PingerStep

-----------------------------------------------------------------------------
(* A node that stops has no state, and calls to it are lost.               *)
LEMMA CrashInv ==
    ASSUME NeighboursInv, NEW p \in Peers, Crash(p)
    PROVE  NeighboursInv'
<1> DEFINE none == [q \in Peers |-> 0]
<1>1. none \in [Peers -> 0..MaxMissed]
  BY BoundsAssumption
<1>2. /\ unanswered' \in [Peers -> [Peers -> 0..MaxMissed]] /\ unanswered'[p] = none
      /\ \A r \in Peers \ {p} : unanswered'[r] = unanswered[r]
  <2>1. unanswered' = [unanswered EXCEPT ![p] = none]
    BY DEF Crash
  <2> HIDE DEF none
  <2> QED BY <1>1, <2>1 DEF NeighboursInv, TypeOK
<1>3. /\ conns' \in [Peers -> PartialFunctions(Peers, Entries)]
      /\ \A r \in Peers \ {p} : conns'[r] = conns[r]
      /\ Neighbours(p)' = {}
  BY EmptyMap DEF Crash, NeighboursInv, TypeOK, Neighbours
<1>4. /\ pinger' \in [Peers -> Pingers] /\ pinger'[p] = Idle
      /\ \A r \in Peers \ {p} : pinger'[r] = pinger[r]
      /\ Idle.step = "idle" /\ DOMAIN Idle.clone = {}
  <2>1. Idle \in Pingers /\ Idle.step = "idle" /\ DOMAIN Idle.clone = {}
    BY EmptyMap, NewEntry DEF Idle, Pingers
  <2>2. pinger' = [pinger EXCEPT ![p] = Idle]
    BY DEF Crash
  <2> QED BY <2>1, <2>2, PingerType DEF NeighboursInv
<1>5. /\ status' = [status EXCEPT ![p] = "dead"] /\ filters' = [filters EXCEPT ![p] = {}]
      /\ toJoin' = [toJoin EXCEPT ![p] = {}] /\ joining' = [joining EXCEPT ![p] = Nobody]
      /\ notifying' = [notifying EXCEPT ![p] = FALSE]
      /\ toNotify' = [toNotify EXCEPT ![p] = {}] /\ notified' = [notified EXCEPT ![p] = Nobody]
      /\ calls' \subseteq calls /\ blocked' \subseteq calls' /\ faults' = faults
  BY DEF Crash, NotifyReturns, NeighboursInv, TypeOK
<1>6. TypeOK'
  BY <1>2, <1>3, <1>4, <1>5 DEF NeighboursInv, TypeOK
<1>7. NoSelfNeighbour'
  BY <1>3, <1>4, <1>5, PeersAssumption DEF NeighboursInv, TypeOK, NoSelfNeighbour, Neighbours
<1>8. CallsKnown'
  BY <1>3, <1>4, <1>5 DEF NeighboursInv, TypeOK, CallsKnown, Neighbours
<1>9. MissesCounted'
  <2> SUFFICES ASSUME NEW r \in Peers, NEW q \in Peers PROVE Counted(r, q)'
    BY DEF MissesCounted
  <2>1. CASE r = p
    BY <1>2, <1>3, <1>4, <2>1 DEF Counted, EntryMissed, PingerAt
  <2>2. CASE r # p
    BY <1>2, <1>3, <1>4, <2>2
       DEF NeighboursInv, MissesCounted, Counted, EntryMissed, PingerAt, Neighbours
  <2> QED BY <2>1, <2>2
<1> QED BY <1>6, <1>7, <1>8, <1>9 DEF NeighboursInv

-----------------------------------------------------------------------------
(* The steps of a node, together.                                          *)

LEMMA InvInit == Init => NeighboursInv
<1> SUFFICES ASSUME Init PROVE NeighboursInv
  OBVIOUS
<1>1. Idle.step = "idle" /\ DOMAIN Idle.clone = {}
  BY EmptyMap DEF Idle
<1>2. \A p \in Peers : Neighbours(p) = {}
  BY EmptyMap DEF Init, Neighbours
<1>3. NoSelfNeighbour /\ CallsKnown /\ MissesCounted
  BY <1>1, <1>2, PeersAssumption
     DEF Init, NoSelfNeighbour, CallsKnown, MissesCounted, Counted, EntryMissed, PingerAt
<1> QED BY <1>3, TypeInit DEF NeighboursInv

LEMMA InvStep == NeighboursInv /\ [Next]_vars => NeighboursInv'
<1> SUFFICES ASSUME NeighboursInv, [Next]_vars PROVE NeighboursInv'
  OBVIOUS
<1>1. ASSUME NEW p \in Peers, JoinStep(p) PROVE NeighboursInv'
  BY <1>1, ConnectInv, JoinFailsInv DEF JoinStep
<1>2. ASSUME NEW p \in Peers, PingStep(p) PROVE NeighboursInv'
  BY <1>2, PingWakesInv, PingStartInv, PingCallInv, PingFailsInv, PingAnsweredInv,
     ReadEntryInv, WriteBackInv DEF PingStep
<1>3. ASSUME NEW p \in Peers, NEW q \in Peers, Handle(p, q) PROVE NeighboursInv'
  BY <1>3, HandleAddInv, HandlePingInv, HandleFilterInv DEF Handle
<1>4. CASE UNCHANGED vars
  BY <1>4 DEF vars, joinVars, notifyVars, callVars, NeighboursInv, TypeOK, NoSelfNeighbour,
              CallsKnown, MissesCounted, Counted, EntryMissed, PingerAt, Neighbours
<1> QED BY <1>1, <1>2, <1>3, <1>4, EnterInv, NotifyInv, CrashInv DEF Next

-----------------------------------------------------------------------------
(* The mutexes that are held while a node calls another.                   *)

(* peerConns of a node is written when nobody holds connsMutex, when the   *)
(* goroutine that holds it releases it, or when the node stops.            *)
LEMMA ConnsWritten ==
    ASSUME NeighboursInv, Next, NEW p \in Peers, conns'[p] # conns[p]
    PROVE  \/ ConnsFree(p)
           \/ joining[p] # Nobody /\ joining'[p] = Nobody
           \/ Crash(p)
<1> USE DEF NeighboursInv, TypeOK
<1>1. ASSUME NEW r \in Peers, NEW q, NEW e, Put(r, q, e), conns'[p] # conns[p] PROVE r = p
  BY <1>1 DEF Put
<1>2. ASSUME NEW r \in Peers, Enter(r) \/ NotifyStep(r) PROVE FALSE
  BY <1>2 DEF Enter, NotifyStep, NotifyStart, NotifyEnd, NotifyCall, NotifyFails
<1>3. ASSUME NEW r \in Peers, joining[r] # Nobody, JoinError(r)
      PROVE  joining[p] # Nobody /\ joining'[p] = Nobody
  BY <1>1, <1>3 DEF JoinError, JoinEnds
<1>4. ASSUME NEW r \in Peers, JoinStep(r)
      PROVE  ConnsFree(p) \/ (joining[p] # Nobody /\ joining'[p] = Nobody)
  <2>1. CASE JoinFails(r)
    BY <1>3, <2>1 DEF JoinFails
  <2>2. CASE \E q \in Peers : Connect(r, q)
    BY <1>1, <2>2 DEF Connect
  <2> QED BY <1>4, <2>1, <2>2 DEF JoinStep
<1>5. ASSUME NEW r \in Peers, PingStep(r) PROVE ConnsFree(p)
  <2>1. CASE PingAnswered(r)
    BY <1>1, <2>1 DEF PingAnswered
  <2>2. CASE WriteBack(r)
    <3>1. CASE TooMany(Count(pinger[r].saved))
      BY <2>2, <3>1 DEF WriteBack
    <3>2. CASE ~TooMany(Count(pinger[r].saved))
      BY <1>1, <2>2, <3>2 DEF WriteBack
    <3> QED BY <3>1, <3>2
  <2> QED BY <1>5, <2>1, <2>2 DEF PingStep, PingWakes, PingStart, PingCall, PingFails, ReadEntry
<1>6. ASSUME NEW r \in Peers, NEW q \in Peers, Handle(r, q)
      PROVE  ConnsFree(p) \/ (joining[p] # Nobody /\ joining'[p] = Nobody)
  <2>1. CASE HandleAdd(r, q)
    BY <1>1, <1>3, <2>1, PeersAssumption DEF HandleAdd
  <2>2. CASE HandlePing(r, q)
    BY <1>1, <2>2 DEF HandlePing, TakesBack
  <2>3. CASE HandleFilter(r, q)
    BY <2>3 DEF HandleFilter
  <2> QED BY <1>6, <2>1, <2>2, <2>3 DEF Handle
<1>7. ASSUME NEW r \in Peers, Crash(r) PROVE Crash(p)
  BY <1>7 DEF Crash
<1> QED BY <1>2, <1>4, <1>5, <1>6, <1>7 DEF Next

(* filterMap of a node is written when nobody holds filtersMutex, or when  *)
(* it stops.                                                               *)
LEMMA FiltersWritten ==
    ASSUME NeighboursInv, Next, NEW p \in Peers, filters'[p] # filters[p]
    PROVE  ~notifying[p] \/ Crash(p)
<1> USE DEF NeighboursInv, TypeOK
<1>1. ASSUME NEW r \in Peers, Enter(r) \/ JoinStep(r) \/ NotifyStep(r) PROVE FALSE
  BY <1>1 DEF Enter, JoinStep, Connect, JoinFails,
              NotifyStep, NotifyStart, NotifyEnd, NotifyCall, NotifyFails
<1>2. ASSUME NEW r \in Peers, PingStep(r) PROVE ~notifying[p]
  BY <1>2 DEF PingStep, PingWakes, PingStart, PingCall, PingFails, PingAnswered, ReadEntry,
              WriteBack, ConnsFree
<1>3. ASSUME NEW r \in Peers, NEW q \in Peers, Handle(r, q) PROVE ~notifying[p]
  BY <1>3 DEF Handle, HandleAdd, HandlePing, HandleFilter, FiltersFree
<1>4. ASSUME NEW r \in Peers, Crash(r) PROVE Crash(p)
  BY <1>4 DEF Crash
<1> QED BY <1>1, <1>2, <1>3, <1>4 DEF Next

(* A step of a round calls a neighbour it has still to call, or ends it.   *)
LEMMA RoundStep ==
    ASSUME NeighboursInv, Next, NEW p \in Peers
    PROVE  \/ NotifyStart(p)
           \/ notifying'[p] = FALSE /\ toNotify'[p] = {} /\ notified'[p] = Nobody
           \/ /\ notifying'[p] = notifying[p] /\ toNotify'[p] \subseteq toNotify[p]
              /\ notified'[p] \in {notified[p], Nobody} \cup toNotify[p]
<1> USE DEF NeighboursInv, TypeOK
<1>1. ASSUME NEW r \in Peers, Enter(r) \/ JoinStep(r) \/ PingStep(r) PROVE UNCHANGED notifyVars
  BY <1>1 DEF Enter, JoinStep, Connect, JoinFails, PingStep, PingWakes, PingStart, PingCall,
              PingFails, PingAnswered, ReadEntry, WriteBack
<1>2. ASSUME NEW r \in Peers, NEW q \in Peers, Handle(r, q)
      PROVE  /\ notifying' = notifying /\ toNotify' = toNotify
             /\ notified'[p] \in {notified[p], Nobody}
  BY <1>2 DEF Handle, HandleAdd, HandlePing, HandleFilter, notifyVars
<1>3. ASSUME NEW r \in Peers, NotifyStart(r) \/ NotifyReturns(r)
      PROVE  \/ NotifyStart(p)
             \/ notifying'[p] = FALSE /\ toNotify'[p] = {} /\ notified'[p] = Nobody
             \/ /\ notifying'[p] = notifying[p] /\ toNotify'[p] = toNotify[p]
                /\ notified'[p] = notified[p]
  BY <1>3 DEF NotifyStart, NotifyReturns
<1>4. ASSUME NEW r \in Peers, NEW q \in Peers, NotifyCall(r, q), ~NotifyReturns(r)
      PROVE  /\ notifying'[p] = notifying[p] /\ toNotify'[p] \subseteq toNotify[p]
             /\ notified'[p] \in {notified[p], Nobody} \cup toNotify[p]
  BY <1>4 DEF NotifyCall
<1>5. ASSUME NEW r \in Peers, NotifyStep(r) \/ Crash(r)
      PROVE  \/ NotifyStart(r) \/ NotifyReturns(r)
             \/ \E q \in Peers : NotifyCall(r, q) /\ ~NotifyReturns(r)
  BY <1>5 DEF NotifyStep, NotifyEnd, NotifyFails, Crash
<1> QED BY <1>1, <1>2, <1>3, <1>4, <1>5 DEF Next, notifyVars

(* connsMutex is taken for a call when nobody has it.                      *)
LEMMA JoinTaken ==
    ASSUME NeighboursInv, Next, NEW p \in Peers, joining'[p] # Nobody, joining[p] = Nobody
    PROVE  ~notifying[p] /\ UNCHANGED notifyVars
<1> USE DEF NeighboursInv, TypeOK
<1>1. ASSUME NEW r \in Peers, Enter(r) \/ PingStep(r) \/ NotifyStep(r) PROVE joining' = joining
  BY <1>1 DEF Enter, PingStep, PingWakes, PingStart, PingCall, PingFails, PingAnswered,
              ReadEntry, WriteBack, NotifyStep, NotifyStart, NotifyEnd, NotifyCall,
              NotifyFails, joinVars
<1>2. ASSUME NEW r \in Peers, NEW q \in Peers, Connect(r, q)
      PROVE  ~notifying[p] /\ UNCHANGED notifyVars
  BY <1>2 DEF Connect, ConnsFree
<1>3. ASSUME NEW r \in Peers, JoinFails(r) \/ Crash(r) PROVE FALSE
  BY <1>3 DEF JoinFails, JoinError, JoinEnds, Crash
<1>4. ASSUME NEW r \in Peers, NEW q \in Peers, Handle(r, q) PROVE FALSE
  BY <1>4 DEF Handle, HandleAdd, HandlePing, HandleFilter, JoinError, JoinEnds, joinVars
<1> QED BY <1>1, <1>2, <1>3, <1>4 DEF Next, JoinStep

(* Neighbours that have still to be notified stay neighbours.              *)
LEMMA RoundInv ==
    ASSUME NetworkInv, [Next]_vars
    PROVE  RoundKnown'
<1>1. CASE UNCHANGED vars
  BY <1>1 DEF NetworkInv, RoundKnown, Neighbours, vars, joinVars, notifyVars
<1>2. ASSUME Next, NEW p \in Peers
      PROVE  /\ toNotify'[p] \subseteq Neighbours(p)'
             /\ notified'[p] # Nobody => notified'[p] \in Neighbours(p)'
             /\ toNotify'[p] # {} \/ notified'[p] # Nobody => notifying'[p]
             /\ notifying'[p] => joining'[p] = Nobody
  <2>1. /\ toNotify[p] \subseteq Neighbours(p)
        /\ notified[p] # Nobody => notified[p] \in Neighbours(p)
        /\ toNotify[p] # {} \/ notified[p] # Nobody => notifying[p]
        /\ notifying[p] => joining[p] = Nobody
    BY DEF NetworkInv, RoundKnown
  <2>2. NeighboursInv /\ notifying \in [Peers -> BOOLEAN] /\ notifying' \in [Peers -> BOOLEAN]
    BY <1>2, InvStep DEF NetworkInv, NeighboursInv, TypeOK
  <2>3. CASE NotifyStart(p)
    <3>1. /\ ~notifying[p] /\ joining[p] = Nobody
          /\ toNotify' = [toNotify EXCEPT ![p] = Neighbours(p)]
          /\ notifying' = [notifying EXCEPT ![p] = TRUE]
          /\ UNCHANGED <<conns, notified, joinVars>>
      BY <2>3 DEF NotifyStart, Receivers, SomebodyLocks
    <3> QED
      BY <2>1, <2>2, <3>1 DEF NeighboursInv, TypeOK, Neighbours, joinVars
  <2>4. CASE ~notifying'[p] /\ toNotify'[p] = {} /\ notified'[p] = Nobody
    BY <2>4
  <2>5. CASE /\ notifying'[p] = notifying[p] /\ toNotify'[p] \subseteq toNotify[p]
             /\ notified'[p] \in {notified[p], Nobody} \cup toNotify[p]
    <3>1. CASE ~notifying[p]
      BY <2>1, <2>5, <3>1
    <3>2. CASE notifying[p]
      <4>1. joining'[p] = Nobody
        BY <1>2, <2>1, <2>2, <3>2, JoinTaken
      <4>2. ~Crash(p)
        BY <2>2, <2>5, <3>2 DEF Crash, NotifyReturns, NeighboursInv, TypeOK
      <4>3. conns'[p] = conns[p]
        BY <1>2, <2>1, <2>2, <3>2, <4>2, ConnsWritten DEF ConnsFree
      <4> QED BY <2>1, <2>5, <3>2, <4>1, <4>3 DEF Neighbours
    <3> QED BY <3>1, <3>2
  <2> QED BY <1>2, <2>2, <2>3, <2>4, <2>5, RoundStep
<1> QED BY <1>1, <1>2 DEF RoundKnown

-----------------------------------------------------------------------------
(* The theorems.                                                           *)

(* The maps of every node are well formed whatever fails, no node becomes  *)
(* its own neighbour or calls itself, the entry of a neighbour that is     *)
(* being called stays, and missedPing of an entry, also of the copy that   *)
(* timeoutAction writes back, is no more than the pings in a row that were *)
(* not answered.                                                           *)
THEOREM NetworkInvariant == Spec => []NetworkInv
<1>1. Init => NetworkInv
  <2>1. Init => RoundKnown
    BY DEF Init, RoundKnown
  <2> QED BY <2>1, InvInit DEF NetworkInv
<1>2. NetworkInv /\ [Next]_vars => NetworkInv'
  BY InvStep, RoundInv DEF NetworkInv
<1> QED BY <1>1, <1>2, PTL DEF Spec

(* The graph of the neighbours has no loops: what the lookup of a file     *)
(* among the neighbours and the graph of the registry rely on.             *)
THEOREM NeverItsOwnNeighbour == Spec => []NoSelfNeighbour
<1>1. NetworkInv => NoSelfNeighbour
  BY DEF NetworkInv, NeighboursInv
<1> QED BY NetworkInvariant, <1>1, PTL

(* Nothing but timeoutAction and a stop takes an entry away.               *)
LEMMA PutKeeps ==
    ASSUME NeighboursInv, NEW p \in Peers, NEW q, NEW e, Put(p, q, e)
    PROVE  \A r \in Peers : Neighbours(r) \subseteq Neighbours(r)'
BY DEF NeighboursInv, TypeOK, Put, With, Neighbours

LEMMA ConnsKept ==
    ASSUME NeighboursInv, Next, NEW p \in Peers, NEW q \in Neighbours(p), q \notin Neighbours(p)'
    PROVE  \E r \in Peers : WriteBack(r) \/ Crash(r)
<1> SUFFICES ASSUME \A r \in Peers : ~WriteBack(r) /\ ~Crash(r) PROVE FALSE
  OBVIOUS
<1>1. conns' # conns
  BY DEF Neighbours
<1>2. ASSUME NEW r \in Peers, Enter(r) \/ JoinStep(r) PROVE FALSE
  BY <1>1, <1>2, PutKeeps DEF Enter, JoinStep, Connect, JoinFails, JoinError
<1>3. ASSUME NEW r \in Peers, PingStep(r) PROVE FALSE
  BY <1>1, <1>3, PutKeeps DEF PingStep, PingWakes, PingStart, PingCall, PingFails,
                              PingAnswered, ReadEntry
<1>4. ASSUME NEW r \in Peers, NotifyStep(r) PROVE FALSE
  BY <1>1, <1>4 DEF NotifyStep, NotifyStart, NotifyEnd, NotifyCall, NotifyFails
<1>5. ASSUME NEW r \in Peers, NEW s \in Peers, Handle(r, s) PROVE FALSE
  <2>1. CASE HandleAdd(r, s)
    <3>1. joining[r] = s => joining[r] \in Peers
      OBVIOUS
    <3> QED BY <1>1, <2>1, <3>1, PutKeeps DEF HandleAdd, JoinError
  <2>2. CASE HandlePing(r, s) \/ HandleFilter(r, s)
    BY <1>1, <2>2, PutKeeps DEF HandlePing, HandleFilter
  <2> QED BY <1>5, <2>1, <2>2 DEF Handle
<1> QED BY <1>2, <1>3, <1>4, <1>5 DEF Next

(* "Il peer non risponde al Ping per X volte consecutive --> Rimozione     *)
(* dalla lista" (network.go:56): a live node removes a neighbour only when *)
(* MAX_MISSED_PING pings in a row were not answered.                       *)
THEOREM RemovalNeedsMisses == Spec => RemovedOnlyAfterMisses
<1> DEFINE Removal ==
        \A p, q \in Peers :
            Up(p)' /\ q \in Neighbours(p) /\ q \notin Neighbours(p)'
                => unanswered[p][q] >= MaxMissed
<1>1. NetworkInv /\ [Next]_vars => Removal \/ UNCHANGED vars
  <2> SUFFICES ASSUME NeighboursInv, Next, NEW p \in Peers, NEW q \in Peers, Up(p)',
                      q \in Neighbours(p), q \notin Neighbours(p)'
               PROVE  unanswered[p][q] >= MaxMissed
    BY DEF NetworkInv
  <2>1. PICK r \in Peers : WriteBack(r) \/ Crash(r)
    BY ConnsKept
  <2>2. CASE WriteBack(r)
    BY <2>2, WriteBackConns DEF Neighbours
  <2>3. CASE Crash(r)
    BY <2>3 DEF Crash, Up, Neighbours, NeighboursInv, TypeOK
  <2> QED BY <2>1, <2>2, <2>3
<1> QED BY <1>1, NetworkInvariant, PTL DEF Spec, RemovedOnlyAfterMisses

(* While a call to another node is made with connsMutex or filtersMutex    *)
(* held, the maps they guard do not change (peer.go:86, peer.go:151).      *)
THEOREM LockedMapsAlwaysStay == Spec => LockedMapsStay
<1> DEFINE Stay ==
        \A p \in Peers :
            /\ notifying[p] /\ notifying'[p]
                    => conns'[p] = conns[p] /\ filters'[p] = filters[p]
            /\ joining[p] # Nobody /\ joining'[p] = joining[p]
                    => conns'[p] = conns[p]
<1>1. NetworkInv /\ [Next]_vars => Stay \/ UNCHANGED vars
  <2> SUFFICES ASSUME NetworkInv, Next, NEW p \in Peers
               PROVE  /\ notifying[p] /\ notifying'[p]
                              => conns'[p] = conns[p] /\ filters'[p] = filters[p]
                      /\ joining[p] # Nobody /\ joining'[p] = joining[p]
                              => conns'[p] = conns[p]
    OBVIOUS
  <2>1. NeighboursInv /\ (notifying[p] => joining[p] = Nobody)
    BY DEF NetworkInv, RoundKnown
  <2>2. notifying'[p] \/ joining'[p] # Nobody => ~Crash(p)
    BY <2>1 DEF Crash, NotifyReturns, NeighboursInv, TypeOK
  <2>3. ASSUME notifying[p], notifying'[p]
        PROVE  conns'[p] = conns[p] /\ filters'[p] = filters[p]
    BY <2>1, <2>2, <2>3, ConnsWritten, FiltersWritten DEF ConnsFree
  <2>4. ASSUME joining[p] # Nobody, joining'[p] = joining[p]
        PROVE  conns'[p] = conns[p]
    BY <2>1, <2>2, <2>4, ConnsWritten DEF ConnsFree
  <2> QED BY <2>3, <2>4
<1> QED BY <1>1, NetworkInvariant, PTL DEF Spec, LockedMapsStay
=============================================================================
