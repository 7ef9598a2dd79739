---------------------------- MODULE PeerNetwork -----------------------------
(***************************************************************************)
(* The edge nodes as peers: how a node that enters the network connects to *)
(* its neighbours, how pings keep the connections mutual and drop those    *)
(* with peers that are gone, and how each node gets the Bloom filters of   *)
(* its neighbours.  PeerGraph is the network the registry sees; here is    *)
(* what adjacentsMap of every node holds.                                  *)
(*                                                                         *)
(* Three goroutines of each node call other nodes and wait for the answer, *)
(* with a timeout: connectAndNotifyYourAdjacent, pingsToAdjacents and      *)
(* temporizedNotifyBloomFilters.  The first and the last hold the mutexes  *)
(* of adjacentsMap while they wait, and the handlers of the calls take     *)
(* those of the node they run on.                                          *)
(*                                                                         *)
(* A node that restarts listens on another port: it is another peer.       *)
(***************************************************************************)
EXTENDS Naturals, Functions

CONSTANTS
    Peers,          \* addresses of the nodes
    Nobody,         \* no peer
    MaxMissed,      \* MAX_MISSED_PING
    Fragile,        \* peers that may crash
    MaxFaults       \* calls and connections that may fail between live peers

ASSUME PeersAssumption == Nobody \notin Peers /\ Fragile \subseteq Peers
ASSUME BoundsAssumption ==
    MaxMissed \in Nat \ {0} /\ MaxFaults \in Nat

VARIABLES
    status,     \* of each node: "out", "up", "dead"
    conns,      \* adjacentsMap.peerConns of each node
    filters,    \* the peers in its filterMap
    toJoin,     \* neighbours from the registry it has still to connect to
    joining,    \* the one it calls, with connsMutex, or Nobody
    pinger,     \* its goroutine pingsToAdjacents
    toNotify,   \* neighbours that have still to get its filter
    notifying,  \* it is in notifyBloomFiltersToAdjacents, with both mutexes
    notified,   \* the neighbour it waits for, or Nobody
    calls,      \* <<method, caller, callee>>: calls that were not handled yet
    blocked,    \* those whose handler waits for a mutex
    faults,     \* faults so far
    unanswered  \* pings of each node to each other without an answer, in a row

joinVars == <<toJoin, joining>>
notifyVars == <<toNotify, notifying, notified>>
callVars == <<calls, blocked>>
vars == <<status, conns, filters, joinVars, pinger, notifyVars, callVars, faults,
          unanswered>>

(* AdjConnection: open is FALSE when the client was closed. *)
Entries == [open : BOOLEAN, missed : 0..MaxMissed - 1]
New == [open |-> TRUE, missed |-> 0]

PartialFunctions(S, T) == UNION {[D -> T] : D \in SUBSET S}

Methods == {"AddNeighbour", "Ping", "NotifyBloomFilter"}

(* clone: connections that have still to be pinged, open or not. *)
Pingers ==
    [step : {"idle", "lock", "next", "waiting", "answered", "missed", "read"},
     target : Peers \cup {Nobody}, clone : PartialFunctions(Peers, BOOLEAN), saved : Entries]
Idle == [step |-> "idle", target |-> Nobody, clone |-> <<>>, saved |-> New]

TypeOK ==
    /\ status \in [Peers -> {"out", "up", "dead"}]
    /\ conns \in [Peers -> PartialFunctions(Peers, Entries)]
    /\ filters \in [Peers -> SUBSET Peers]
    /\ toJoin \in [Peers -> SUBSET Peers]
    /\ joining \in [Peers -> Peers \cup {Nobody}]
    /\ pinger \in [Peers -> Pingers]
    /\ toNotify \in [Peers -> SUBSET Peers]
    /\ notifying \in [Peers -> BOOLEAN]
    /\ notified \in [Peers -> Peers \cup {Nobody}]
    /\ calls \subseteq Methods \X Peers \X Peers /\ blocked \subseteq calls
    /\ faults \in 0..MaxFaults
    /\ unanswered \in [Peers -> [Peers -> 0..MaxMissed]]

Init ==
    /\ status = [p \in Peers |-> "out"]
    /\ conns = [p \in Peers |-> <<>>]
    /\ filters = [p \in Peers |-> {}]
    /\ toJoin = [p \in Peers |-> {}]
    /\ joining = [p \in Peers |-> Nobody]
    /\ pinger = [p \in Peers |-> Idle]
    /\ toNotify = [p \in Peers |-> {}]
    /\ notifying = [p \in Peers |-> FALSE]
    /\ notified = [p \in Peers |-> Nobody]
    /\ calls = {} /\ blocked = {}
    /\ faults = 0
    /\ unanswered = [p \in Peers |-> [q \in Peers |-> 0]]

-----------------------------------------------------------------------------
Up(p) == status[p] = "up"
Neighbours(p) == DOMAIN conns[p]

With(f, q, entry) == [r \in DOMAIN f \cup {q} |-> IF r = q THEN entry ELSE f[r]]
Put(p, q, entry) == conns' = [conns EXCEPT ![p] = With(@, q, entry)]
Removed(f, q) == Restrict(f, DOMAIN f \ {q})

(* Nobody has connsMutex, or filtersMutex.  Variant: who only reads        *)
(* peerConns does not count.                                               *)
NotWritten(p) == joining[p] = Nobody
ConnsFree(p) == joining[p] = Nobody /\ ~notifying[p]
FiltersFree(p) == ~notifying[p]

(* A Lock that waits comes before every later RLock. *)
PingerLocks(p) == pinger[p].step \in {"lock", "answered", "read"}
SomebodyLocks(p) ==
    \/ toJoin[p] # {} \/ joining[p] # Nobody \/ PingerLocks(p)
    \/ \E c \in blocked : c[3] = p

Fault == faults < MaxFaults /\ faults' = faults + 1

(* ConnectToNode(q). *)
DialSucceeds(q) == Up(q) /\ UNCHANGED faults
DialFails(q) == IF Up(q) THEN Fault ELSE UNCHANGED faults

(* A call is sent; its handler starts; it waits for a mutex; it ends.      *)
(* Equal calls that were not handled yet are one.                          *)
Send(call) == calls' = calls \cup {call} /\ UNCHANGED blocked
Starts(call) == call \in calls \ blocked
Blocks(call) == blocked' = blocked \cup {call} /\ UNCHANGED calls
Ends(call) == calls' = calls \ {call} /\ blocked' = blocked \ {call}

(* The caller gets an error, or its timer expires: the callee is gone,     *)
(* somebody there has the mutex its handler waits for, or a fault.  The    *)
(* call may still be handled.  Variant: no timer.                          *)
MutexHeld(call) ==
    /\ call \in blocked
    /\ IF call[1] = "NotifyBloomFilter"
       THEN ~FiltersFree(call[3]) ELSE ~ConnsFree(call[3])
CallBreaks(call) == IF Up(call[3]) THEN Fault ELSE UNCHANGED faults
CallFails(call) ==
    IF Up(call[3]) /\ ~MutexHeld(call) THEN Fault ELSE UNCHANGED faults

(* A handler that needs a connection to p has it. *)
Dialled(call, p) ==
    \/ Starts(call) /\ DialSucceeds(p)
    \/ call \in blocked /\ UNCHANGED faults

-----------------------------------------------------------------------------
(* Entering the network. *)

(* The registry returns nodes it believes alive. *)
Enter(p) ==
    /\ status[p] = "out"
    /\ status' = [status EXCEPT ![p] = "up"]
    /\ \E adjs \in SUBSET {q \in Peers : status[q] # "out"} :
        toJoin' = [toJoin EXCEPT ![p] = adjs]
    /\ UNCHANGED <<conns, filters, joining, pinger, notifyVars, callVars,
                   faults, unanswered>>

(* connectAndAddNeighbour, and CallAdjAddNeighbour up to the call.  The    *)
(* code releases the mutex and takes it again in between, where a ping of  *)
(* q would leave the entry as it is and timeoutAction might write an older *)
(* one over it: the model keeps the mutex.                                 *)
Connect(p, q) ==
    /\ Up(p) /\ q \in toJoin[p] /\ joining[p] = Nobody
    /\ toJoin' = [toJoin EXCEPT ![p] = @ \ {q}]
    /\ \/ /\ DialSucceeds(q) /\ ConnsFree(p)
          /\ Put(p, q, New)
          /\ joining' = [joining EXCEPT ![p] = q]
          /\ Send(<<"AddNeighbour", p, q>>)
       \/ /\ DialFails(q)
          /\ UNCHANGED <<conns, joining, callVars>>
    /\ UNCHANGED <<status, filters, pinger, notifyVars, unanswered>>

(* CallAdjAddNeighbour returns; after an error the client is closed, but   *)
(* its entry stays.                                                        *)
JoinEnds(p) == joining' = [joining EXCEPT ![p] = Nobody]
JoinError(p) ==
    /\ Put(p, joining[p], [conns[p][joining[p]] EXCEPT !.open = FALSE])
    /\ JoinEnds(p)

JoinFails(p) ==
    /\ joining[p] # Nobody
    /\ CallFails(<<"AddNeighbour", p, joining[p]>>)
    /\ JoinError(p)
    /\ UNCHANGED <<status, filters, toJoin, pinger, notifyVars, callVars,
                   unanswered>>

(* AddNeighbour of p at q.  Its answer ends the call of p, if p waits. *)
HandleAdd(p, q) ==
    LET call == <<"AddNeighbour", p, q>> IN
    /\ call \in calls
    /\ \/ /\ Dialled(call, p) /\ ConnsFree(q)
          /\ Put(q, p, New)
          /\ IF joining[p] = q THEN JoinEnds(p) ELSE UNCHANGED joining
          /\ Ends(call)
       \/ /\ Starts(call) /\ DialSucceeds(p) /\ ~ConnsFree(q)
          /\ Blocks(call)
          /\ UNCHANGED <<conns, joining>>
       \/ /\ Starts(call) /\ DialFails(p)
          /\ IF joining[p] = q THEN JoinError(p) ELSE UNCHANGED <<conns, joining>>
          /\ Ends(call)
    /\ UNCHANGED <<status, filters, toJoin, pinger, notifyVars, unanswered>>

-----------------------------------------------------------------------------
(* Pings. *)

(* The next neighbour of the clone, or the end of the round. *)
Proceeds(pg) ==
    IF DOMAIN pg.clone = {} THEN Idle
    ELSE [Idle EXCEPT !.step = "next", !.clone = pg.clone]

(* The goroutine wakes up, takes the mutex and clones peerConns.  Handlers *)
(* of its earlier pings may still wait for a mutex of the node they run    *)
(* on: CallAdjAddNeighbour and a round of notifications hold one for       *)
(* longer than the PING_FREQUENCY of 5 seconds.                            *)
PingWakes(p) ==
    /\ Up(p) /\ pinger[p].step = "idle"
    /\ pinger' = [pinger EXCEPT ![p].step = "lock"]
    /\ UNCHANGED <<status, conns, filters, joinVars, notifyVars, callVars,
                   faults, unanswered>>

PingStart(p) ==
    /\ pinger[p].step = "lock" /\ ConnsFree(p)
    /\ pinger' = [pinger EXCEPT ![p] =
                    Proceeds([Idle EXCEPT
                                !.clone = [q \in Neighbours(p) |-> conns[p][q].open]])]
    /\ UNCHANGED <<status, conns, filters, joinVars, notifyVars, callVars,
                   faults, unanswered>>

Missed(p, q) ==
    unanswered' = [unanswered EXCEPT ![p][q] = IF @ = MaxMissed THEN @ ELSE @ + 1]

(* A call on a closed client fails at once. *)
PingCall(p, q) ==
    /\ pinger[p].step = "next" /\ q \in DOMAIN pinger[p].clone
    /\ \E step \in {"waiting", "missed"} :
        /\ pinger' = [pinger EXCEPT ![p] =
                        [pinger[p] EXCEPT !.step = step, !.target = q,
                                          !.clone = Removed(pinger[p].clone, q)]]
        /\ \/ /\ step = "waiting"
              /\ pinger[p].clone[q] /\ Up(q)
              /\ Send(<<"Ping", p, q>>)
              /\ UNCHANGED unanswered
           \/ /\ step = "missed"
              /\ ~pinger[p].clone[q] \/ ~Up(q)
              /\ Missed(p, q)
              /\ UNCHANGED callVars
    /\ UNCHANGED <<status, conns, filters, joinVars, notifyVars, faults>>

Answered(p, q, step) ==
    pinger' = IF pinger[p].step = "waiting" /\ pinger[p].target = q
              THEN [pinger EXCEPT ![p].step = step] ELSE pinger

(* Ping of p at q, which takes it back as a neighbour.  Variant: it does   *)
(* not.                                                                    *)
IgnoresUnknown(p, q) == UNCHANGED conns
TakesBack(p, q) == Put(q, p, New)

HandlePing(p, q) ==
    LET call == <<"Ping", p, q>> IN
    /\ call \in calls
    /\ \/ /\ Starts(call) /\ p \in Neighbours(q)
          /\ Answered(p, q, "answered")
          /\ Ends(call)
          /\ UNCHANGED <<conns, faults>>
       \/ /\ p \notin Neighbours(q) \/ call \in blocked
          /\ Dialled(call, p) /\ ConnsFree(q)
          /\ TakesBack(p, q)
          /\ Answered(p, q, "answered")
          /\ Ends(call)
       \/ /\ Starts(call) /\ p \notin Neighbours(q)
          /\ DialSucceeds(p) /\ ~ConnsFree(q)
          /\ Blocks(call)
          /\ UNCHANGED <<conns, pinger>>
       \/ /\ Starts(call) /\ p \notin Neighbours(q)
          /\ DialFails(p)
          /\ Answered(p, q, "missed")
          /\ Ends(call)
          /\ UNCHANGED conns
    /\ IF pinger'[p].step = "missed" /\ pinger[p].step # "missed"
       THEN Missed(p, q) ELSE UNCHANGED unanswered
    /\ UNCHANGED <<status, filters, joinVars, notifyVars>>

PingFails(p) ==
    LET q == pinger[p].target IN
    /\ pinger[p].step = "waiting"
    /\ CallFails(<<"Ping", p, q>>)
    /\ pinger' = [pinger EXCEPT ![p].step = "missed"]
    /\ Missed(p, q)
    /\ UNCHANGED <<status, conns, filters, joinVars, notifyVars, callVars>>

(* The neighbour answered: no missed pings.  Variant: they are not reset.  *)
KeepMissed(entry) == entry
ResetMissed(entry) == [entry EXCEPT !.missed = 0]

PingAnswered(p) ==
    LET q == pinger[p].target IN
    /\ pinger[p].step = "answered" /\ ConnsFree(p)
    /\ pinger' = [pinger EXCEPT ![p] = Proceeds(@)]
    /\ IF q \in Neighbours(p)
       THEN Put(p, q, ResetMissed(conns[p][q])) ELSE UNCHANGED conns
    /\ unanswered' = [unanswered EXCEPT ![p][q] = 0]
    /\ UNCHANGED <<status, filters, joinVars, notifyVars, callVars, faults>>

(* timeoutAction reads the entry before it takes the mutex. *)
ReadEntry(p) ==
    LET q == pinger[p].target IN
    /\ pinger[p].step = "missed"
    /\ pinger' = [pinger EXCEPT ![p] =
                    IF q \in Neighbours(p)
                    THEN [@ EXCEPT !.step = "read", !.saved = conns[p][q]]
                    ELSE Proceeds(@)]
    /\ UNCHANGED <<status, conns, filters, joinVars, notifyVars, callVars,
                   faults, unanswered>>

(* What it read, with one missed ping more, replaces the entry, whoever    *)
(* changed that meanwhile; at MAX_MISSED_PING the neighbour is removed,    *)
(* with its filter.  Variants: pings are not counted; one more is missed.  *)
SameCount(entry) == entry.missed
Count(entry) == entry.missed + 1

TooManyLate(missed) == missed > MaxMissed
TooMany(missed) == missed >= MaxMissed

WriteBack(p) ==
    LET q == pinger[p].target
        missed == Count(pinger[p].saved)
    IN  /\ pinger[p].step = "read" /\ ConnsFree(p)
        /\ pinger' = [pinger EXCEPT ![p] = Proceeds(@)]
        /\ IF TooMany(missed)
           THEN /\ conns' = [conns EXCEPT ![p] = Removed(@, q)]
                /\ filters' = [filters EXCEPT ![p] = @ \ {q}]
           ELSE /\ Put(p, q, [pinger[p].saved EXCEPT !.missed = missed])
                /\ UNCHANGED filters
        /\ UNCHANGED <<status, joinVars, notifyVars, callVars, faults,
                       unanswered>>

-----------------------------------------------------------------------------
(* Bloom filters. *)

(* Variant: not those it has got a filter from. *)
NewReceivers(p) == Neighbours(p) \ filters[p]
Receivers(p) == Neighbours(p)

NotifyStart(p) ==
    /\ Up(p) /\ ~notifying[p] /\ ~SomebodyLocks(p)
    /\ notifying' = [notifying EXCEPT ![p] = TRUE]
    /\ toNotify' = [toNotify EXCEPT ![p] = Receivers(p)]
    /\ UNCHANGED <<status, conns, filters, joinVars, pinger, notified, callVars,
                   faults, unanswered>>

(* notifyBloomFiltersToAdjacents returns, and unlocks. *)
NotifyReturns(p) ==
    /\ notifying' = [notifying EXCEPT ![p] = FALSE]
    /\ toNotify' = [toNotify EXCEPT ![p] = {}]
    /\ notified' = [notified EXCEPT ![p] = Nobody]

NotifyEnd(p) ==
    /\ notifying[p] /\ notified[p] = Nobody /\ toNotify[p] = {}
    /\ NotifyReturns(p)
    /\ UNCHANGED <<status, conns, filters, joinVars, pinger, callVars, faults,
                   unanswered>>

(* The first error ends the round. *)
NotifyCall(p, q) ==
    /\ notified[p] = Nobody /\ q \in toNotify[p]
    /\ \/ /\ conns[p][q].open /\ Up(q)
          /\ toNotify' = [toNotify EXCEPT ![p] = @ \ {q}]
          /\ notified' = [notified EXCEPT ![p] = q]
          /\ Send(<<"NotifyBloomFilter", p, q>>)
          /\ UNCHANGED notifying
       \/ /\ ~conns[p][q].open \/ ~Up(q)
          /\ NotifyReturns(p)
          /\ UNCHANGED callVars
    /\ UNCHANGED <<status, conns, filters, joinVars, pinger, faults,
                   unanswered>>

HandleFilter(p, q) ==
    LET call == <<"NotifyBloomFilter", p, q>> IN
    /\ call \in calls
    /\ \/ /\ FiltersFree(q)
          /\ filters' = [filters EXCEPT ![q] = @ \cup {p}]
          /\ notified' = IF notified[p] # q THEN notified
                          ELSE [notified EXCEPT ![p] = Nobody]
          /\ Ends(call)
       \/ /\ Starts(call) /\ ~FiltersFree(q)
          /\ Blocks(call)
          /\ UNCHANGED <<filters, notified>>
    /\ UNCHANGED <<status, conns, joinVars, pinger, toNotify, notifying, faults,
                   unanswered>>

NotifyFails(p) ==
    /\ notified[p] # Nobody
    /\ CallFails(<<"NotifyBloomFilter", p, notified[p]>>)
    /\ NotifyReturns(p)
    /\ UNCHANGED <<status, conns, filters, joinVars, pinger, callVars,
                   unanswered>>

-----------------------------------------------------------------------------
(* Calls to the node are lost with it; what it has sent is not. *)
Crash(p) ==
    /\ Up(p) /\ p \in Fragile
    /\ status' = [status EXCEPT ![p] = "dead"]
    /\ conns' = [conns EXCEPT ![p] = <<>>]
    /\ filters' = [filters EXCEPT ![p] = {}]
    /\ toJoin' = [toJoin EXCEPT ![p] = {}]
    /\ joining' = [joining EXCEPT ![p] = Nobody]
    /\ pinger' = [pinger EXCEPT ![p] = Idle]
    /\ NotifyReturns(p)
    /\ calls' = {c \in calls : c[3] # p}
    /\ blocked' = {c \in blocked : c[3] # p}
    /\ unanswered' = [unanswered EXCEPT ![p] = [q \in Peers |-> 0]]
    /\ UNCHANGED faults

JoinStep(p) == (\E q \in Peers : Connect(p, q)) \/ JoinFails(p)
PingStep(p) ==
    \/ PingWakes(p) \/ PingStart(p) \/ (\E q \in Peers : PingCall(p, q)) \/ PingFails(p)
    \/ PingAnswered(p) \/ ReadEntry(p) \/ WriteBack(p)
NotifyStep(p) ==
    \/ NotifyStart(p) \/ NotifyEnd(p)
    \/ (\E q \in Peers : NotifyCall(p, q)) \/ NotifyFails(p)
Handle(p, q) == HandleAdd(p, q) \/ HandlePing(p, q) \/ HandleFilter(p, q)

Next ==
    \/ \E p \in Peers :
        Enter(p) \/ JoinStep(p) \/ PingStep(p) \/ NotifyStep(p) \/ Crash(p)
    \/ \E p, q \in Peers : Handle(p, q)

Spec == Init /\ [][Next]_vars

(* Every goroutine and every handler of a live node runs, the timers       *)
(* expire, and sync.RWMutex starves nobody.                                *)
Fairness ==
    /\ \A p \in Peers :
        WF_vars(JoinStep(p)) /\ WF_vars(PingStep(p)) /\ SF_vars(NotifyStep(p))
    /\ \A p, q \in Peers :
        /\ WF_vars(HandleAdd(p, q)) /\ WF_vars(HandlePing(p, q))
        /\ WF_vars(HandleFilter(p, q))

FairSpec == Spec /\ Fairness

-----------------------------------------------------------------------------
(* Properties. *)

Connected(p, q) == q \in Neighbours(p) /\ conns[p][q].open

(* A neighbour is removed only after MAX_MISSED_PING pings in a row that   *)
(* it did not answer, though timeoutAction writes back an entry it read    *)
(* before: "Il peer non risponde al Ping per X volte consecutive -->       *)
(* Rimozione dalla lista" (network.go:56).                                 *)
RemovedOnlyAfterMisses ==
    [][\A p, q \in Peers :
        Up(p)' /\ q \in Neighbours(p) /\ q \notin Neighbours(p)'
            => unanswered[p][q] >= MaxMissed]_vars

(* A goroutine that calls another node with its mutexes held finds the     *)
(* maps as it left them when the call returns: neither the handlers nor    *)
(* the pings, which write the same maps, get between (peer.go:151, where   *)
(* the loop over peerConns waits for each neighbour, and peer.go:86).      *)
LockedMapsStay ==
    [][\A p \in Peers :
        /\ notifying[p] /\ notifying'[p]
                => conns'[p] = conns[p] /\ filters'[p] = filters[p]
        /\ joining[p] # Nobody /\ joining'[p] = joining[p]
                => conns'[p] = conns[p]]_vars

(* From some time on, the pings of a round have been handled when the next *)
(* begins.  Mutexes that are held for longer than a period again and again *)
(* may keep neighbours apart: each misses the pings of the other.          *)
PingsInTime ==
    <>[](\A p, q \in Peers : pinger[p].step = "lock" => <<"Ping", p, q>> \notin blocked)

(* Whatever failed, the connections between live nodes become mutual and   *)
(* stay so: the other direction of an edge is rebuilt when a ping arrives  *)
(* (network_monitor.go:99).                                                *)
BecomesMutual ==
    PingsInTime => <>[](\A p, q \in Peers : Up(p) /\ Up(q) => (Connected(p, q) <=> Connected(q, p)))

(* A node that is gone is in the end nobody's neighbour, though its last   *)
(* calls may be handled after it was removed.                              *)
DeadAreForgotten ==
    <>[](\A p, q \in Peers : Up(p) /\ status[q] = "dead" => q \notin Neighbours(p))

(* Neighbours end with each other's Bloom filter, though a round of        *)
(* notifications stops at the first neighbour that does not answer.        *)
FiltersArrive ==
    PingsInTime => <>[](\A p, q \in Peers : Connected(p, q) /\ Up(q) => p \in filters[q])

(* Nodes that call each other with their mutexes held wait for each other  *)
(* only until the timers expire.                                           *)
NobodyWaitsForEver ==
    \A p \in Peers :
        /\ []<>(joining[p] = Nobody /\ ~notifying[p])
        /\ []<>(pinger[p].step = "idle")

-----------------------------------------------------------------------------
(* What makes TypeOK, RemovedOnlyAfterMisses and LockedMapsStay inductive. *)

(* A node is never given itself as a neighbour, and calls only others.     *)
NoSelfNeighbour ==
    /\ \A p \in Peers : /\ p \notin Neighbours(p) /\ p \notin toJoin[p] /\ joining[p] # p
                        /\ p \notin DOMAIN pinger[p].clone /\ p \notin toNotify[p]
    /\ \A c \in calls : c[2] # c[3]

(* A ping is of another node, and the neighbour that is being called stays *)
(* one: connsMutex is held.                                                *)
CallsKnown ==
    \A p \in Peers :
        /\ pinger[p].step \in {"waiting", "answered", "missed", "read"}
                => pinger[p].target \in Peers \ {p}
        /\ joining[p] # Nobody => joining[p] \in Neighbours(p)

(* The missed pings of an entry, of the one that timeoutAction has read,   *)
(* and the one that was just missed, are among those in a row.             *)
EntryMissed(p, q) == IF q \in Neighbours(p) THEN conns[p][q].missed ELSE 0
PingerAt(p, step, q) == pinger[p].step = step /\ pinger[p].target = q
Counted(p, q) ==
    /\ EntryMissed(p, q) <= unanswered[p][q]
    /\ PingerAt(p, "missed", q) => EntryMissed(p, q) < unanswered[p][q]
    /\ PingerAt(p, "read", q) => pinger[p].saved.missed < unanswered[p][q]
MissesCounted == \A p, q \in Peers : Counted(p, q)

(* A round of notifications calls neighbours only, and no goroutine writes *)
(* peerConns during it.                                                    *)
RoundKnown ==
    \A p \in Peers :
        /\ toNotify[p] \subseteq Neighbours(p)
        /\ notified[p] # Nobody => notified[p] \in Neighbours(p)
        /\ toNotify[p] # {} \/ notified[p] # Nobody => notifying[p]
        /\ notifying[p] => joining[p] = Nobody

NeighboursInv == TypeOK /\ NoSelfNeighbour /\ CallsKnown /\ MissesCounted
NetworkInv == NeighboursInv /\ RoundKnown
=============================================================================
