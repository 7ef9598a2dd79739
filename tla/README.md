# A verification of the SDCC edge storage

TLA+ modules for the storage system of this repository: edge nodes that cache
the files of an S3 bucket and find them in each other, a registry that keeps
the edge nodes connected, and a load balancer that sends each client to an edge
node.  The modules are checked with TLC on small instances and, for the parts
listed below, proved with TLAPS for every value of their constants.

Contents: 1 the system, 2 the modules, 3 the runs, 4 fairness, 5 the proofs,
6 what the work showed, 7 what is not modelled, 8 the plan.

## 1. The system

    client --GetEdge--> load balancer <--heartbeat, end of job-- edge node
    client --Upload, Download, Delete (gRPC)--> edge node --> S3
    edge node <--ping, lookup, delete, Bloom filter, AddNeighbour--> edge node
    edge node --PeerEnter, heartbeat--> registry --GetNeighbours, AddNeighbour--> edge node

| Part | State | Operations | What makes it correct |
|---|---|---|---|
| Edge file cache (`edge/cache/cache.go`) | `cachingMap`, `cachingList`, `cacheMutex`, `fileInsertionMutex`, files in a tmpfs, a flock on each | insert while streaming, remove, expire, evict, read, recover at start | an entry has its file, a file has its entry, no writer leaves a half file, every operation ends |
| Stream redirection (`edge/server/stream_redirection.go`, `server_services.go`, `edge/redirection_channel`, `edge/s3_boundary`) | two bounded message channels, two return channels, the goroutines at their ends | upload, download from S3, from another edge, from the cache | what is reported as done is whole and in order, what is cached is whole, failures of one end do not stop the others |
| Load balancer (`load_balancer/services`) | `edgeServerMap`, `heartbeats`, `heartbeatCheckTime`, `sequenceNumber` | `GetEdge`, `NotifyJobEnd`, `Heartbeat`, `checkForDeadServers` | loads are never overstated and decay, silent servers go, punctual ones stay, the maps agree |
| Registry (`registry/services`) | `heartbeats`, `connectedPeers`, the graph of a scan | `PeerEnter`, `Heartbeat`, check for dead peers, monitor of partitions | dead peers go, live ones come back, a partition is joined |
| Peer network (`edge/peer`) | `adjacentsMap` (connections, filters), the registry's client | enter, ping, lose a neighbour, filters, `AddNeighbour` | neighbours are mutual and alive, no call waits for its own reply |
| File lookup (`edge/peer`, `edge/server`) | `requestMap`, a UDP callback server per download | flood with a TTL, answer, timeout | a lookup is served once per peer, ends, and its answer is used or dropped |
| File deletion (`edge/peer`, `edge/server`) | the local cache, S3 | delete on S3, in the cache, flood | the flood ends and no copy stays |
| Client (`client`) | the local copy of a file | ask for an edge, transfer, fall back on S3 | a call that fails leaves no partial file |

The hard behaviours, each listed at its line in `PROJECT.json`:

* *Shared memory.*  `cachingMap` is read without a lock before an insertion, and
  used after it; `sort.Sort` and `range` walk `cachingList` unlocked; a flock is on
  the inode that was opened and `os.Remove` on the path.  The flock operations
  are fcntl constants: on Linux `F_RDLCK` is no operation at all, `F_WRLCK` is
  `LOCK_SH`, and `F_UNLCK` is `LOCK_EX`.
* *Order of messages.*  Errors travel against the stream on return channels that
  are polled between chunks; channels are closed while their other end may still
  have something to say.
* *Failures.*  Any of source, sink and cache may fail alone; processes crash and
  start with empty maps; a call that times out may still take effect; after a
  timeout `call.Error` is nil and is dereferenced.
* *Time.*  Both failure detectors compare a heartbeat with the time of the
  *previous* check.

## 2. The modules

Each component's module has its state, one action for each piece of code that
runs without others changing what it looks at, its properties, and the
inductive invariant of its proofs.  `MC*` modules only give TLC its constants.

| Module | Code | Proofs |
|---|---|---|
| `Eviction` | the choice in `chooseAndDeleteFiles`, as an operator | |
| `EdgeCache` | `edge/cache/cache.go` and its callers | `EdgeCacheProofs` |
| `Transfer` | what an edge node promises of one transfer (abstract) | |
| `StreamRedirection` | one transfer through an edge node, which implements `Transfer` | `StreamRedirectionProofs`, `TransferProofs` |
| `LoadBalancer` | `load_balancer/services` and what edge nodes send it | `LoadBalancerProofs` |
| `PeerGraph` | `buildGraph`'s undirected graph, paths and components | |
| `ComponentSearch` | what the registry counts on of that search (abstract) | |
| `ConnectedComponents` | `FindConnectedComponents` and its recursion, which implements `ComponentSearch` | `ConnectedComponentsProofs` |
| `Registry` | `registry/services` and the overlay of peers | `RegistryProofs` |
| `PeerNetwork` | `edge/peer`: neighbours, pings, Bloom filters, the mutexes held across calls | `PeerNetworkProofs` |
| `FileSharing` | downloads, lookups and deletions of one file among edge nodes, S3 and clients | `FileSharingProofs` |

### EdgeCache

Threads are goroutines.  `pc` names the next piece of code of each.  The
insertion (`InsertFileInCache`) goes `insLock -> scan -> space -> evict ->
create -> wlock -> write -> wunlock -> wclose -> enqueue`; a removal
(`RemoveFileFromCache`) goes `open -> flock -> unlink -> dequeue` and returns to
a delete, to the expiry scan or to the eviction.  `disk` maps names to inodes,
so that a removal may unlink another inode than the one it locked; `complete`
says which inodes have all the bytes of their file.

`crossed` is a history variable: no action looks at it.  It has the files that,
when last created, had an entry or a goroutine that was about to remove one.  The
code says that neither happens (`cache.go:83`), but the look at `cachingMap`
precedes the mutex, and it does (`cache_rewrite`): a second inserter truncates the
file of the entry, or an aborted write unlinks it; a cleaner that waited for the
flock of an aborted file removes the entry of its successor.  What the cache says
of its files is stated for all the others, whoever inserts, with aborts,
evictions and crashes, and it is what the code does promise.

Abstractions: `cachingMap` and `cachingList` are one set (`cached`); a scan may
find any entry expired, and may read any entry the list has held since the scan
began, which covers the shifts of the array under `range`; the eviction may
see the entries in any order, which covers popularity and the unlocked sort.
`IndexPanic` is the panic of `cachingList[:index]` with the index -1 that
`getIndex` returns for a name that is not there.

### StreamRedirection

One transfer.  The producer is the handler of an upload, or the goroutine that
reads S3, another edge or the local file; the consumer is `SendToS3` or
`redirectStreamToClient`; the writer is `InsertFileInCache`.  A chunk is its
position in the file and 0 is a message with an error.  The channels are
bounded sequences; the return channels hold outcomes.  `Body` is the one place
where a message is not what was put in the channel: the chunks of a local read
are slices of one buffer, and hold what was read last.

`Transfer` says what all this is for, without a goroutine or a channel: the sink
gets one chunk after the other and accepts only the whole file, the handler answers
success only for a file the sink has accepted, and never changes its answer, and
the copy in the cache is whole or dropped, whatever becomes of the transfer.  The
converse is not promised: an upload that S3 has accepted is answered with an error
when `SendAndClose` fails (`server_services.go:87`).  `Promise` is the instance of
`Transfer` under the refinement mapping, `ImplementsTransfer` its specification:
every step of `StreamRedirection` is one of `Transfer` or leaves its variables
alone.  `TransferInv` is the inductive invariant behind it: the messages in each
channel go on from what its reader has taken (`MainInStep`, `InStep`), and
`Outcomes` is what the two ends know of each other.

### LoadBalancer

A Go map is a set of keys and a total function that is 0 outside it.  Times are
ages; `Tick` advances all of them.  `GetEdge` is three steps because the request
id is read outside `sequenceMutex`.  Edge nodes are there as far as the balancer
is concerned: start, heartbeat in flight, end of a job told or lost, crash.
`workload`, which heartbeats carry, is a variable that no code of the edge
changes; requests are counted in another one.

### ConnectedComponents, ComponentSearch, PeerGraph

`ConnectedComponents` runs the depth-first search call by call: `path` is the
stack.  `recursiveConnectedComponentsResearch` returns what its calls return and
adds nothing of its own, so a component has only the peer it was started from;
`roots` is therefore the whole result.  `PeerGraph!OneOfEach` is the reference:
one peer, and only one, of each class of peers with paths between them.

`ComponentSearch` is the same search in one step: a graph without direction that
stays as it is, and then one peer of each of its components, in any order.
`Search` is its instance with `graph <- Undirected(nodes, links)` and `found <- roots`
once the recursion is over, `ImplementsSearch` its specification: every call and
return is a stutter of it, and the last step is `Find`.

### Registry

The monitor holds the mutex of the registry during a whole scan, so entries,
heartbeats and checks have `pc = "idle"` as guard; peers go on meanwhile.  A scan
asks every known peer for its neighbours (`AnswerNeighbours`, `AnswerError`,
`AnswerLate`), makes the graph undirected (`NilMapPanic` when that writes to the
nil map a failed call left), finds the components (`FindComponents`, the one
step of `ComponentSearch`, which `ConnectedComponents` is proved to implement), and joins them
two by two (`CallNeighbours`, then `PairAnswered` or `PairLate`).  `AddNeighbour`
is the other end: it decodes its reply into `0`, which is no pointer, so that
the registry's connection breaks although the peer has done what it was told.

Time is abstract: `quiet` has the peers whose last heartbeat is older than
`HEARTBEAT_THR`, `late` those that were so at the previous check, which is what
the code's comparison says.  `waited` counts the timeouts of a scan; when they
exceed what a peer waits for its heartbeat, the peer dereferences the nil error
of its call and stops (`HeartbeatPanic`).

### PeerNetwork

`conns[p]` is `adjacentsMap.peerConns` of node `p`, a function from its neighbours to
`AdjConnection`s, and `filters[p]` the domain of its `filterMap`.  Three goroutines of
a node call others: the one that enters (`Connect`, which keeps `connsMutex` until
`AddNeighbour` has returned), the pinger (`PingWakes -> PingStart -> PingCall ->
PingAnswered`, or `ReadEntry -> WriteBack` for `timeoutAction`, which reads an entry
unlocked and writes it back under the mutex) and the notifier of Bloom filters
(`NotifyStart ... NotifyEnd`, which has both read locks throughout).  A call is in
`calls` until its handler ends and in `blocked` while that waits for a mutex of
its node; a caller's timer may expire while the callee is gone, while somebody
holds the mutex its handler waits for, or by a fault, and the call may still be
handled.  A `Lock` that waits precedes later `RLock`s, as in `sync.RWMutex`
(`SomebodyLocks`).

Nothing is assumed of time: `PING_FREQUENCY` is 5 s, and a mutex may be held that
long by `CallAdjAddNeighbour`, and for several calls of 3 s by a round of
notifications, so the handlers of one round of pings may still wait when the next
begins.  `PingsInTime` says that in the end they do not; `BecomesMutual` and
`FiltersArrive` hold when that is so, everything else without it.  When it is not,
two live neighbours may miss each other's pings again and again and stay apart.
`Connect` is one step from the registry's answer to the call of `AddNeighbour`: the
code releases `connsMutex` after `network.go:175` and takes it again at
`peer_utils.go:46`, with the same connection, and what could come between is left out
(section 7).
The reads of `peerConns` without the mutex, which the Go runtime may answer by
stopping the process, are covered by `Crash`.

### FileSharing

Requests go to edge nodes and carry the id that the balancer gave them, which may
be the same for two of them.  `Miss` records the request and floods the lookup
(`Forward`) to the neighbours `Contacts` draws; `FileLookup` is the handler, `Look`
and `LookAndAdd` the two accesses to `requestMap`, with the expired records that are
deleted after the present one was written.  Answers wait in a set, from which
they are taken, taken twice or lost; `TimerExpires` may win against them; a fetch
from another edge that fails dooms the node (the panic of `stream_panic`) while the
download waits on for its timer.  A deletion is `DeleteLocal -> HeadObject -> DeleteObject ->
NotifyFileDeletion`, where an error of the third may come after the object has gone, then `DeleteFile` at each node, which never asks whether it
has served the notification.  `file` is the client's local file, which is
truncated at the start (`part`), and removed after an error of the call.  After a
download from the local cache it may be `garbled`, as `stream_local` shows.  An
`IOError` of the client itself (`ClientFails`) leaves what the file held, `old` or
`left`, for only `grpc.RpcError` is caught where the file is removed; the edge node
goes on.  The other exceptions the client names do not occur: `StopIteration` ends
the `for` loop over the chunks, and `redirectStreamToClient` numbers them in sequence,
so `DownloadFailedException` has no cause.

What other modules have in detail is one step here: a copy is made whole or not
at all (`StreamRedirection`, `EdgeCache`), and a round of filters reaches all
neighbours at once (`PeerNetwork`); the filters may be wrong, and neighbours are
fixed, with no node its own neighbour, as `PeerNetworkProofs` and `RegistryProofs`
show.  The file has no versions.

## 3. The runs

All passing runs finish exhaustively.  Deadlock is checked where the system
never stops (`balancer`, `registry`, `cache`, whose process may always crash); a
transfer, a search and the requests of `files` end, and a network whose nodes are
dead is at rest, so those runs do not check it.

| Run | What it asks | Bounds |
|---|---|---|
| `cache` | `NoGhost`, `NoOrphan` and their inductive invariant; no writer leaves half a file; every operation ends, until the eviction locks itself out | three goroutines, of which two insert one file and one of them also another, of one and two units in a tmpfs of two; the third deletes, expires and reads; three inodes for each file; aborts, evictions and crashes |
| `stream` | all properties of a transfer, its inductive invariant, and that it implements `Transfer` | every kind, lengths 0, 1, 2, 4, 5, 7, channel of 5 as in `conf.properties`, cache limit of 4 chunks of 10 MB (34603008 bytes), any of source, sink, cache and the reply of an upload failing |
| `balancer` | the maps, the loads and their decay, both directions of failure detection | two edge nodes, one punctual; two requests; crashes of everybody; `MONITOR_TIMER` twice `HEARTBEAT_THR` as in `conf.properties` |
| `components` | the search, its inductive invariant, its end and the measure that decreases towards it; that it implements `ComponentSearch` | every graph of up to four peers, in every order of visits |
| `registry` | `RegistryInv`, `DeadForgotten`, `LiveBecomesKnown`, `PartitionSolved` | two peers, three faults among lost links, late answers, silences, crashes, restarts |
| `network` | removals only after misses, and the inductive invariant for it; the dead are forgotten; connections become mutual and filters arrive when pings are handled in time; no goroutine waits for ever; what a goroutine that waits with a mutex held finds when it goes on | two nodes that may enter towards each other, one of which may crash; `MAX_MISSED_PING` 2; one fault |
| `files` | a node acts once on a lookup, and the inductive invariant for it; a download ends with the file whole (or garbled by a local read), or with none of it; both floods end | three nodes, all neighbours; a download and a deletion with the same id, at different nodes; at most two nodes have the file at first (`MaxCopies`); a TTL of 2, two contacts per node; one fault, wrong filter, error of the client, expiry or stop |
| `cache_rewrite`, `cache_selflock`, `stream_panic`, `stream_local`, `registry_panic` | expected to fail, see section 6 | |

Why the bounds are enough to be interesting:

* Cache.  The conflicts are between goroutines on one name, or on the space: two
  inserters of one name, with a third goroutine that removes and reads it, and a
  second name that must be evicted for.  Inodes are reused when nobody has them
  open.  A goroutine has at most one open, and one that creates a file none, so as
  many inodes for each name as there are goroutines always leave it a free one; the
  run has three.
* Transfer.  Lengths below, at and above the cache limit and the channel size;
  beyond the channel size plus what both ends hold, longer files repeat.
* Balancer.  The weight of 0.5 truncates, the two timers interact over three
  periods, and a crash can fall in any of them.
* Registry.  Two peers partition, join, crash and restart; three peers reach
  millions of states and are used where one fault is enough (`registry_panic`).
  The monitor's chain of pairs with more than two components is thus seen with
  three peers only in that run; the search itself has four.
  The faults of a run are bounded by `MaxFaults`, which also makes sense of
  "in the end": a partition is joined once faults stop.

* Network.  Every hazard of the list is between two nodes: crossed entries,
  crossed notifications, a late call of a removed neighbour.  Two missed pings
  let one be undone and another counted; `unanswered` stops at `MaxMissed`.  Three
  nodes are out of reach of an exhaustive run.
* Files.  Three mutual neighbours are the least with a cycle and two paths to one
  node; a TTL of 2 forwards once and ends by itself.  When all three nodes have the
  file nobody looks it up, so `MaxCopies` 2 leaves out no lookup.  One fault suffices for each
  single failure of a request; combinations of two are out of reach in the time
  of a run.

The properties in words, with their limits:

* `NoGhost`: an entry of the cache has its file, but for the moment between
  `os.Remove` and the removal of the entry, and but for the files in `crossed`.
* `NoOrphan`: a file on disk has its entry or is being written, with the same
  exception.
* `WritersLeaveNoHalfFile`: a half-written file has a writer, as long as the
  process runs.  A crash does leave one, and the recovery admits it.
* `NoRewrite` (`cache_rewrite`): no insertion truncates the file of an entry that stays.
* `OperationsTerminate`: every operation ends, unless the eviction has locked itself out.
* `SuccessIsWhole`, `CachedIsWhole`: what is reported, or kept in the cache, is
  the whole file in order.
* `ImplementsTransfer`: the whole transfer keeps the promise of `Transfer`; the order
  of the chunks is promised for every kind but a local read (`stream_local`).
* `CacheNeverFull`: sending to the cache never blocks, even if nobody reads.
* `HandlerReplies`, `TransferEnds`: the handler answers; all goroutines end when the
  file fits in the channel.  A longer upload whose consumer failed may stall:
  the producer sends to a full channel nobody reads (`StalledUpload`).
* `LoadNotOverstated`: a load is at most the number of requests given to the node
  whose end the balancer has not been told.  (It may be *under*stated: heartbeats
  report 0.)
* `SilenceIsNoticed`, `PunctualStayKnown`: a silent server is dropped within
  `HEARTBEAT_THR` and two periods, a punctual one never.
* `LoadsDecay`: with no more requests every load returns to 0, whatever was lost.
* `OnePerComponent`: the search ends with one peer of each component.
* `ImplementsSearch`: the graph of the scan stays as it is while it is searched, and
  the result is there only when the search is over.
* `SearchDescends`: every step of the search has fewer steps to go, whatever the
  cycles of the graph; so it ends as soon as steps are taken.
* `RegistryInv`: `heartbeats` and the connections have the same keys, through crashes
  and restarts; what a scan has still to ask or to join is known, so that the
  connections it looks up unchecked are there; no peer gets itself as a neighbour.
* `DeadForgotten`, `LiveBecomesKnown`, `PartitionSolved`: see the comments; the last
  one leaves out a registry that has stopped or lost a connection to a live peer.

* `RemovedOnlyAfterMisses`: a live node drops a neighbour only when `MAX_MISSED_PING`
  pings in a row were not answered.  `NetworkInv` counts them where they may hide: in
  the entry, in the copy of it that `timeoutAction` writes back, and in the ping
  whose failure is not counted yet.
* `LockedMapsStay`: while a node waits for another with `connsMutex` or `filtersMutex`
  held, neither a handler nor a ping changes the maps under it.
* `BecomesMutual`, `DeadAreForgotten`, `FiltersArrive`, `NobodyWaitsForEver`: the
  liveness of the network once its bounded faults are over; the first and the third
  under `PingsInTime`.
  A goroutine does wait for its own peer (crossed entries), but only until a
  timer expires.
* `ActsOnce`: a node answers or forwards a lookup once, counted from the last expiry of
  its records; twice then, for the renewed record is deleted with the expired ones.
  `SharingInv` says why not more often, and that the client's file is a part only
  while its download is under way or after an error of its own.
* `DownloadsEnd`: a download that has begun ends; with success the client has the whole
  file, or a garbled one when it came from the local cache of its node; after a
  failure it has nothing of it, unless it failed itself.  Not that it succeeds when S3 has the file: a local copy that goes
  between the look and the read fails the download, and a failed fetch stops the
  node.  Nor that the client keeps the file it had.
* `FloodsEnd`: lookups and notifications of deletions end.  The latter go round until
  the filters they follow say no, which takes a new round of filters.

The type invariant of each module is checked as a conjunct of its inductive invariant
(`CacheInv`, `TransferInv`, `BalancerInv`, `Inv`, `RegistryInv`,
`NetworkInv`, `SharingInv`).

Each property of a passing run has a mutant in `PROJECT.json`: a definition of
the model changed as a slip in the code would change it, under which TLC finds
the property violated.  The variants stand next to what they vary in the modules.

## 4. Fairness

* Goroutines are scheduled: weak fairness of each one's steps.
* `sync.RWMutex` and flock waiters are served in turn, so a goroutine that can
  take a lock infinitely often gets it: strong fairness of the steps of a cache
  operation.  Nothing is assumed of `Start`: no request needs to arrive.
* Timers expire and calls to a running process return, with an error if need
  be: weak fairness of `Tick`, of the check, of heartbeats and of deliveries.
* In the registry, checks, scans and heartbeats compete for one mutex and recur
  with a period: strong fairness.  Faults, silences of live peers, late answers
  and crashes are never required to happen.
* In the network, goroutines, handlers and timers of live nodes go on (weak
  fairness); the notifier competes for the mutexes with all of them, and
  `sync.RWMutex` serves it in turn (strong fairness).
* In `FileSharing`, requests that have begun, calls and rounds of filters go on, and
  a node whose goroutine panics stops.  No request has to begin, no answer to
  arrive.  Each condition is on the variables its steps always change (`WF_pc`,
  `WF_messageVars`, `WF_up`); only a filter that is sent again as it was is a stutter
  of `WF_filterVars`.

## 5. The proofs

What TLC checks on an instance and TLAPS for every value of the constants:

| Module | Theorems | Argument |
|---|---|---|
| `EdgeCacheProofs`, entries and files | `TypeCorrect`, `CacheInvariant`, `NoGhostAlways`, `NoOrphanAlways` | `CacheInv`: the local variables fit the program counter (`LocalOK`), and one insertion at a time is past its mutex (`InsertionLocked`).  Neither property alone is inductive: `InsertInQueue` would add an entry whose path a remover has unlinked, and a second remover would take the entry of a later insertion off the list.  So, for the files that are not in `crossed`: one that is being written has no entry (`WrittenIsNew`); the path of an entry, or of a file about to be one, is missing only while somebody is between unlink and dequeue (`UnlinkedIsRemoved`); there is one such goroutine at a time, and the path stays missing meanwhile (`RemovedOnce`).  No hypothesis: any inserters, aborts, evictions, crashes |
| `EdgeCacheProofs`, half files | `WritersNeverLeaveHalfFile` | `InodesInv` adds to the types and `LocalOK` that two paths are two inodes and that the inode of a writer is the path of its own file or of none (`PathsApart`); so the `os.Remove` of an aborted write, which works on the path, hits what was written or what another is writing.  No hypothesis: any inserters, aborts, evictions |
| `LoadBalancerProofs` | `TypeCorrect`, `BalancerInvariant`, `MapsAlwaysAgree`, `SilenceAlwaysNoticed`, `LoadNeverOverstated`, `PunctualAlwaysKnown` | `BalancerInv`: at the last check no heartbeat was older than the threshold and one period; heartbeats carry 0; a node that is not known has load 0; a load is at most the requests owed.  The truncated mean with 0 never increases a load |
| `StreamRedirectionProofs` | `TypeCorrect`, `CacheNeverFullAlways`, `CachedIsWholeAlways` | `CacheStreamInv`: what waits for the writer is at most what was offered (`CacheRoom`), and is the continuation of what it has written, up to the chunk in hand, the end of the file, or an error (`CacheStream`).  `CacheNeverFullAlways` assumes that a cacheable file is shorter than the channel, as in `conf.properties` |
| `TransferProofs` | `TransferInvAlways`, `SuccessIsWholeAlways`, `TransferImplemented` | `TransferInv` adds to `CacheStreamInv`: the messages in the main channel go on from what the sink has taken, up to the last chunk sent or to an error (`MainStream`); an end without an error is the end of the file; what was told agrees with what has happened, and success is answered only for what the sink has accepted (`Outcomes`); no message is beyond the end of the file (`InFile`, which the chunks in front of an error need).  `SuccessIsWhole` alone is not inductive: it says nothing of the chunks on their way.  With the invariant each step is one of `Transfer` or changes nothing there |
| `FileSharingProofs` | `SharingInvariant`, `ActsOnceAlways`, `FilesAlwaysAgree` | `SharingInv`: `ActsOnce` is not inductive, for it does not say what the cache of requests holds.  `ActsRecorded` does: a running node that has acted on an id has a record of it, or it has acted once since its records expired and has no expired record left, so the renewed record cannot be deleted again; and only a node whose records lapsed has expired ones.  `ServedByRunning` and `FilesAgree` tie requests to running nodes and to the client's file, with what a local read or an error of the client makes of it.  Any nodes, neighbours, ids (also equal ones), TTL, faults |
| `FileSharingProofs`, floods | `LookupsAreFew`, `FiltersFirst` | One step sends at most `MaxContactable` lookups, and asks a node whose filter says no only with all running ones whose filter says yes.  `ContactsAreFew` counts the peers that are drawn, the forwarder among them, with the theorems on finite sets; each new lookup has its own contact (`FS_Injection`).  They need the types of `SharingInv` and that `Peers` is finite |
| `PeerNetworkProofs`, neighbours | `NetworkInvariant`, `NeverItsOwnNeighbour`, `RemovalNeedsMisses` | `NetworkInv`: the missed pings in the entry are no more than those in a row (`MissesCounted`), strictly fewer while one that was missed is not counted, and so is the copy `timeoutAction` has read, whatever a `Ping` or an `AddNeighbour` has put in the map since.  `NoSelfNeighbour` is needed for the handlers, which change the maps of two different nodes; `CallsKnown` for the neighbour whose entry may not go during a call |
| `PeerNetworkProofs`, mutexes | `LockedMapsAlwaysStay` | Action by action: whoever writes the maps of a node needs its mutex (`ConnsWritten`, `FiltersWritten`), and a round of notifications or an entry towards a neighbour holds it.  `RoundKnown` adds what these have to rely on: nobody joins during a round, and whom it has still to call is a neighbour |
| `RegistryProofs` | `RegistryInvariant`, `ScannedAreConnected`, `NeverItsOwnNeighbour` | `RegistryInv`: `MapsAgree` needs that a restart begins with both maps empty (`ScanState`); that what a scan holds is known (`ScannedAreKnown`) needs the mutex it keeps; that components are joined to others needs that the roots are distinct, which is where the specification of the search enters |
| `ConnectedComponentsProofs` | `TypeCorrect`, `SearchInvariant`, `OnePerComponentAlways` | `SearchInv`: a visited peer that is not on the stack has visited neighbours only, is reached from a root, and no root reaches another; so a new root starts outside every closed set of earlier ones |
| `ConnectedComponentsProofs`, refinement | `SearchImplemented`, `SearchAlwaysDescends` | The undirected graph is a function of `nodes` and `links`, which do not change, and has the same paths; so the last step is `Find` by `OnePerComponent` and the others stutter.  The measure is twice the peers not visited, the length of the stack and the phase: a call visits a peer and pushes it, a return pops one.  Cardinalities need that `Peers` is finite |

Assumptions are the `ASSUME`s of the component modules, and the hypotheses the
theorems state; there is no other.  That the peers are finitely many is one
of them in `ConnectedComponents` and `FileSharing`, where peers are counted.  `tlapm` checks every leaf.

Every safety property that a passing run checks is proved.  Only model-checked: the
liveness properties (fairness and `ENABLED` are beyond the prover).  Of the end of
the search the half that is a safety property is proved (`SearchDescends`); that
steps are taken is left to TLC (`SearchEnds`).  What a
recursive definition computes for every input is not provable with this
installation either (it needs induction rules that take an operator): the search
is therefore a state machine, not a recursive operator, and no module declares
`RECURSIVE`.  The sum of file sizes (`BytesOf`) is a fold, so how much room an
eviction makes is not proved.

## 6. What the work showed

Five runs show where the program does otherwise than it says; each is a finding
in `PROJECT.json` with the line it contradicts.

* `cache_rewrite`: two goroutines that have both missed a file insert it one after the
  other, and the second truncates the file of the entry the first has made
  ("Se esiste già, non lo inseriamo di nuovo").
* `cache_selflock`: `chooseAndDeleteFiles` holds `cacheMutex` and calls
  `RemoveFileFromCache`, which locks it.  The first eviction that deletes a file
  stops the cache for good.
* `stream_panic`: when a download from another edge fails, the error is sent on
  channels `rcvAndRedirectChunks` has closed.
* `stream_local`: the chunks of a local download share one buffer, so the client
  may be sent a later chunk in place of an earlier one.
* `registry_panic`: a failed `GetNeighbours` leaves a nil map in the graph, which
  the loop that makes it undirected writes.  A crashed peer is enough; so is the
  connection that `AddNeighbour` breaks.

Other facts of the code that the models have and that no property contradicts
in so many words:

* Nothing distinguishes a half-written file from a whole one at the recovery.
* An upload whose last chunks S3 refuses leaves its (whole) file in the cache,
  for the return channel is read after both channels are closed.  The comment
  at `stream_redirection.go:24` says otherwise.
* Two concurrent `GetEdge` calls may get the same request id, which the peers
  take for the same request.
* The loop of the eviction never visits index 0 and never reduces its total, so
  it may choose nothing although space is missing, even when the least popular file
  alone would do; the insertion then fails in `Write` and removes its file.
* Two late answers in one scan (2 x 3 s against 5 s) stop every peer that sends
  a heartbeat meanwhile.
* A lookup that finds in `filterMap` a peer that is no neighbour any more
  dereferences the nil client of the entry it does not find (`peer.go:281`).
* The bound of the loop that draws neighbours falls while its index grows
  (`peer.go:253`), so that fewer than `MAX_CONTACTABLE_ADJ` may be contacted; never
  more (`LookupsAreFew`).
* A deletion of a file S3 does not have tells no other node (`server_services.go:37`),
  and a copy that is being made when the notification passes stays.
* After a failed fetch from another edge, were it not for the panic, the download
  would wait for the timer although no answer is due.
* A deletion that S3 has carried out may be answered with an error, from the wait
  until the object does not exist, and then no node is told of it
  (`s3_interface.go:121`).
* An upload may be answered with an error although S3 has accepted the file and it
  stays in the cache (`server_services.go:87`).
* A client whose own disk fails keeps a part of the file (`FileServiceController.py:36`).
* An aborted write of a second inserter unlinks the file of an entry, which no
  removal takes off the list again; and a cleaner that waited for the flock of an
  aborted file removes the entry of its successor, whose file then no scan finds.
* Two live neighbours may forget each other again and again when a mutex is held
  beyond `PING_FREQUENCY` by calls to a third.

## 7. What is not modelled, and why

* Versions of a file: `FileSharing` has one file and no upload, so it says nothing of
  copies that a new upload on another node makes stale (the code has no
  invalidation).
* The client's own access to S3 (`S3Controller.py`), which no edge node takes part
  in, and its uploads, whose chunks are the source of `StreamRedirection`; the
  forms, the measurements and the CSV files.
* The sockets of the lookup server, and the size of a file that S3 does not tell
  (`GetFileSize` is -1).
* The bits of the stable Bloom filters: a filter is what it answers, and may be wrong.
* The slice behind `cachingList`: `EdgeCache` takes it as a set; so the branch where
  map and list disagree, which calls the recovery with `cacheMutex` held, is not
  reached.
* The retries inside the AWS SDK: `WriteAt` ignores its offset, so a part fetched
  twice is sent twice.  The model's source delivers each chunk once.  What the
  downloader fetches again, and when, is the library's own; the order of the chunks
  is claimed (`SuccessIsWhole`, `ImplementsTransfer`, `CachedIsWhole`) of downloads
  in which it fetches none twice.
* `connsMutex` released and taken again in the entry of a node (`Connect`).  A ping of
  the new neighbour in between leaves the entry as it is; `timeoutAction` could write
  an older one over it.  With the step split, two nodes have more than twice the
  states, and the run is not over in reasonable time.
* Login and Redis: one read per call, without state.
* Configuration, printing, dialling, generated protocol code, forms, test and
  deployment scripts: I/O, or without state.

## 8. The plan

Done: all the modules of section 2, the refinements of `Transfer` and
`ComponentSearch`, and the proofs above.

Next, in this order:

1. `CachingList`: the slice and its array under the unlocked sort, shown to
   implement the set `cached` of `EdgeCache` where it does.
2. Uploads in `FileSharing`, with versions of the file, to say which copies are
   stale and for how long.

Runs are added where a module asks a new question; the violation runs give way
when the code they show is changed.
