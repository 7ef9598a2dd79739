----------------------------- MODULE EdgeCache ------------------------------
(***************************************************************************)
(* The file cache of an edge node (edge/cache/cache.go) under the          *)
(* goroutines that use it: the handlers that insert a file while it is     *)
(* streamed to or from S3, the handlers of a delete, the periodic cleaner, *)
(* the handlers that read a cached file, and crashes of the process        *)
(* followed by the recovery at start-up.                                   *)
(*                                                                         *)
(* A step is the code between two points where other goroutines can change *)
(* what it looks at.  cachingMap and cachingList are one set of names      *)
(* here; the slice behind cachingList has a module of its own.  Whether an *)
(* entry is older than TIME_TO_DELETION, the popularity of the entries and *)
(* the bytes of a file are abstracted: a scan may find any entry expired,  *)
(* the eviction may see the entries in any order, and the bytes on disk    *)
(* are all there or only part of them.                                     *)
(***************************************************************************)
EXTENDS Integers, FiniteSets, FiniteSetsExt

CONSTANTS
    Threads,        \* goroutines of the edge process
    Files,          \* file names
    Inodes,         \* inodes of the tmpfs mounted on FILES_PATH
    InodesOf,       \* [Files -> SUBSET Inodes]: those a new file may get
    NoThread, NoFile, NoInode,
    Inserters,      \* [Files -> SUBSET Threads]: who calls InsertFileInCache
    Deleters,       \* threads that serve Delete and DeleteFile
    Cleaners,       \* the cleaner goroutine
    Readers,        \* threads that serve downloads and DownloadFromEdge
    Size,           \* [Files -> Nat]: size of each file
    Capacity,       \* bytes of the tmpfs
    Aborts,         \* whether a stream may end with an error
    Crashes         \* whether the process may be killed

ASSUME ThreadsAssumption ==
    /\ IsFiniteSet(Files)
    /\ NoThread \notin Threads /\ NoFile \notin Files /\ NoInode \notin Inodes
    /\ InodesOf \in [Files -> SUBSET Inodes]
    /\ Inserters \in [Files -> SUBSET Threads]
    /\ Deleters \subseteq Threads
    /\ Cleaners \subseteq Threads
    /\ Readers \subseteq Threads
ASSUME SizesAssumption == Size \in [Files -> Nat] /\ Capacity \in Nat
ASSUME FaultsAssumption == Aborts \in BOOLEAN /\ Crashes \in BOOLEAN

VARIABLES
    up,             \* the process is running
    cached,         \* names in cachingMap and cachingList
    disk,           \* directory of FILES_PATH: inode of each name
    complete,       \* inodes on disk that hold all the bytes of their file
    flock,          \* holder of the flock of each inode
    cacheMutex,     \* holder of cacheMutex between two steps
    insMutex,       \* holder of fileInsertionMutex
    pc,             \* next step of each thread
    op,             \* what the thread is serving
    file,           \* file the thread inserts
    target,         \* file the thread removes or reads
    fd,             \* inode the thread has open
    scan,           \* rest of deleteExpiredFiles: elements to visit, names
    victims,        \* finalFilesToDelete, not yet deleted
    missing,        \* memoryRequired computed by freeSpaceForInsert
    crossed         \* history: files that, when last created, had their entry
                    \* or a goroutine about to remove it

Policy == INSTANCE Eviction

threadVars == <<pc, op, file, target, fd, scan, victims, missing>>
vars == <<up, cached, disk, complete, flock, cacheMutex, insMutex, threadVars, crossed>>

LabelSet ==
    {"idle", "hit",
     "insLock", "space", "evict", "evictNext",
     "create", "wlock", "write", "wunlock", "wclose", "enqueue",
     "aunlock", "aclose",
     "scan", "open", "flock", "unlink", "dequeue",
     "rdOpen", "rdRead"}

OpSet == {"none", "insert", "delete", "clean", "read"}

(* A scan visits as many elements as the list had when it began, and can   *)
(* read in them any entry the list has held since.                         *)
NoScan == [left |-> 0, seen |-> {}]

TypeOK ==
    /\ up \in BOOLEAN
    /\ cached \subseteq Files
    /\ disk \in [Files -> Inodes \cup {NoInode}]
    /\ complete \subseteq Inodes
    /\ flock \in [Inodes -> Threads \cup {NoThread}]
    /\ cacheMutex \in Threads \cup {NoThread}
    /\ insMutex \in Threads \cup {NoThread}
    /\ pc \in [Threads -> LabelSet]
    /\ op \in [Threads -> OpSet]
    /\ file \in [Threads -> Files \cup {NoFile}]
    /\ target \in [Threads -> Files \cup {NoFile}]
    /\ fd \in [Threads -> Inodes \cup {NoInode}]
    /\ scan \in [Threads -> [left : Nat, seen : SUBSET Files]]
    /\ victims \in [Threads -> SUBSET Files]
    /\ missing \in [Threads -> Nat]
    /\ crossed \subseteq Files

(* Memory of the process when it starts. *)
BlankFlock == [i \in Inodes |-> NoThread]
BlankPc == [t \in Threads |-> "idle"]
BlankOp == [t \in Threads |-> "none"]
BlankName == [t \in Threads |-> NoFile]
BlankFd == [t \in Threads |-> NoInode]
BlankScan == [t \in Threads |-> NoScan]
BlankVictims == [t \in Threads |-> {}]
BlankMissing == [t \in Threads |-> 0]

Init ==
    /\ up = TRUE
    /\ cached = {}
    /\ disk = [f \in Files |-> NoInode]
    /\ complete = {}
    /\ flock = BlankFlock
    /\ cacheMutex = NoThread /\ insMutex = NoThread
    /\ pc = BlankPc /\ op = BlankOp
    /\ file = BlankName /\ target = BlankName /\ fd = BlankFd
    /\ scan = BlankScan /\ victims = BlankVictims /\ missing = BlankMissing
    /\ crossed = {}

-----------------------------------------------------------------------------
(* Helpers. *)

(* Bytes on the tmpfs; what a half-written file takes is not counted. *)
TotalSize(G) == MapThenSumSet(LAMBDA f : Size[f], G)
UsedSpace == TotalSize({f \in Files : disk[f] \in complete})
FreeSpace == Capacity - UsedSpace

FreeInodes(f) ==
    {i \in InodesOf[f] : (\A g \in Files : disk[g] # i) /\ (\A t \in Threads : fd[t] # i)}

(* A name that is not in cachingMap. *)
IsNew(f) == f \notin cached

(* insertFileInQueue and removeFileFromQueue on cachingMap and             *)
(* cachingList.  Variants: they do nothing.                                *)
NotEnqueued(f) == cached
Enqueued(f) == cached \cup {f}
NotDequeued(f) == cached
Dequeued(f) == cached \ {f}

(* os.Remove of the path of a file.  Variant: the file stays. *)
NotUnlinked(f) == disk
Unlinked(f) == [disk EXCEPT ![f] = NoInode]

(* An unlinked inode is of no more account, whoever has it open. *)
WholeOnDisk(paths) == {i \in complete : \E f \in Files : paths[f] = i}

(* The deferred unlock of InsertFileInCache.  Variant: it is forgotten. *)
KeepInsertionLock == UNCHANGED insMutex
UnlockInsertion == insMutex' = NoThread

(* A scan ends with the slice.  Variant: it goes on past the end. *)
MayScanOn(t) == scan[t].left >= 0
MoreToScan(t) == scan[t].left > 0

Goto(t, label) == pc' = [pc EXCEPT ![t] = label]

(* t has created the path of f and has not yet inserted f in the queue. *)
Writing(t, f) ==
    file[t] = f /\ pc[t] \in {"wlock", "write", "wunlock", "wclose", "enqueue"}

(* t has unlinked the path of f and has not yet taken f off the queue. *)
Removing(t, f) == target[t] = f /\ pc[t] = "dequeue"

(* f has its entry, or a goroutine that still has to remove it. *)
HasEntry(f) == f \in cached \/ \E t \in Threads : Removing(t, f)

(* The thread ends its operation. *)
Finish(t) ==
    /\ pc' = [pc EXCEPT ![t] = "idle"]
    /\ op' = [op EXCEPT ![t] = "none"]
    /\ file' = [file EXCEPT ![t] = NoFile]
    /\ target' = [target EXCEPT ![t] = NoFile]
    /\ fd' = [fd EXCEPT ![t] = NoInode]
    /\ UNCHANGED <<scan, victims, missing>>

(* RemoveFileFromCache returns to its caller: a delete handler, the loop   *)
(* of the eviction (which holds cacheMutex) or a scan.                     *)
ReturnFromRemove(t) ==
    /\ pc' = [pc EXCEPT ![t] = CASE op[t] = "delete" -> "idle"
                                 [] op[t] # "delete" /\ cacheMutex = t -> "evictNext"
                                 [] OTHER -> "scan"]
    /\ op' = [op EXCEPT ![t] = IF op[t] = "delete" THEN "none" ELSE op[t]]
    /\ target' = [target EXCEPT ![t] = NoFile]
    /\ fd' = [fd EXCEPT ![t] = NoInode]
    /\ UNCHANGED <<file, scan, victims, missing>>

-----------------------------------------------------------------------------
(* InsertFileInCache. *)

(* The unlocked look at cachingMap; a file already cached is not inserted. *)
StartInsert(t, f) ==
    /\ up /\ pc[t] = "idle" /\ t \in Inserters[f]
    /\ IsNew(f)
    /\ Goto(t, "insLock")
    /\ op' = [op EXCEPT ![t] = "insert"]
    /\ file' = [file EXCEPT ![t] = f]
    /\ UNCHANGED <<up, crossed, cached, disk, complete, flock, cacheMutex, insMutex,
                   target, fd, scan, victims, missing>>

(* deleteExpiredFiles begins: the slice header is read once. *)
BeginScan(t) ==
    scan' = [scan EXCEPT ![t] = [left |-> Cardinality(cached), seen |-> cached]]

(* freeSpaceForInsert begins with a scan for expired files. *)
LockInsertion(t) ==
    /\ up /\ pc[t] = "insLock"
    /\ insMutex = NoThread
    /\ insMutex' = t
    /\ BeginScan(t)
    /\ Goto(t, "scan")
    /\ UNCHANGED <<up, crossed, cached, disk, complete, flock, cacheMutex,
                   op, file, target, fd, victims, missing>>

(* retrieveFreeMemorySize, and the sort when there is too little of it. *)
MeasureSpace(t) ==
    /\ up /\ pc[t] = "space"
    /\ \/ /\ FreeSpace >= Size[file[t]]
          /\ Goto(t, "create")
          /\ UNCHANGED missing
       \/ \E m \in 1..Size[file[t]] :
            /\ m = Size[file[t]] - FreeSpace
            /\ missing' = [missing EXCEPT ![t] = m]
            /\ Goto(t, "evict")
    /\ UNCHANGED <<up, crossed, cached, disk, complete, flock, cacheMutex, insMutex,
                   op, file, target, fd, scan, victims>>

(* Entries in the order the sort left them. *)
Orders == {s \in [1..Cardinality(cached) -> cached] :
                \A i, j \in DOMAIN s : s[i] = s[j] => i = j}

(* chooseAndDeleteFiles takes cacheMutex and chooses.  With nothing in the *)
(* list it fails and the insertion ends; with nothing to delete it         *)
(* releases cacheMutex and the insertion goes on.                          *)
ChooseVictims(t) ==
    /\ up /\ pc[t] = "evict"
    /\ cacheMutex = NoThread
    /\ \/ /\ cached = {}
          /\ UnlockInsertion
          /\ Finish(t)
          /\ UNCHANGED cacheMutex
       \/ /\ cached # {}
          /\ \E order \in Orders :
                LET sizes == [i \in DOMAIN order |-> Size[order[i]]]
                    chosen == {order[i] : i \in Policy!FilesToDelete(sizes, missing[t])}
                IN  /\ victims' = [victims EXCEPT ![t] = chosen]
                    /\ cacheMutex' = IF chosen = {} THEN NoThread ELSE t
                    /\ Goto(t, IF chosen = {} THEN "create" ELSE "evictNext")
          /\ missing' = [missing EXCEPT ![t] = 0]
          /\ UNCHANGED <<insMutex, op, file, target, fd, scan>>
    /\ UNCHANGED <<up, crossed, cached, disk, complete, flock>>

(* The deletion loop of chooseAndDeleteFiles, run under cacheMutex. *)
NextVictim(t) ==
    /\ up /\ pc[t] = "evictNext"
    /\ \/ \E f \in victims[t] :
            /\ victims' = [victims EXCEPT ![t] = @ \ {f}]
            /\ target' = [target EXCEPT ![t] = f]
            /\ Goto(t, "open")
            /\ UNCHANGED cacheMutex
       \/ /\ victims[t] = {}
          /\ cacheMutex' = NoThread
          /\ Goto(t, "create")
          /\ UNCHANGED <<victims, target>>
    /\ UNCHANGED <<up, crossed, cached, disk, complete, flock, insMutex,
                   op, file, fd, scan, missing>>

(* The channel is closed before any chunk, or os.Create fails. *)
NothingToWrite(t) ==
    /\ up /\ pc[t] = "create"
    /\ Aborts
    /\ UnlockInsertion
    /\ Finish(t)
    /\ UNCHANGED <<up, crossed, cached, disk, complete, flock, cacheMutex>>

(* First chunk: os.Create truncates the file if there is one, also that of *)
(* an entry that another insertion made since the look at cachingMap.      *)
CreateFile(t) ==
    /\ up /\ pc[t] = "create"
    /\ \/ /\ disk[file[t]] = NoInode
          /\ FreeInodes(file[t]) # {}
          /\ LET i == CHOOSE i \in FreeInodes(file[t]) : TRUE IN
                /\ disk' = [disk EXCEPT ![file[t]] = i]
                /\ complete' = complete \ {i}
                /\ fd' = [fd EXCEPT ![t] = i]
       \/ /\ disk[file[t]] # NoInode
          /\ complete' = complete \ {disk[file[t]]}
          /\ fd' = [fd EXCEPT ![t] = disk[file[t]]]
          /\ UNCHANGED disk
    /\ crossed' = IF HasEntry(file[t]) THEN crossed \cup {file[t]} ELSE crossed \ {file[t]}
    /\ Goto(t, "wlock")
    /\ UNCHANGED <<up, cached, flock, cacheMutex, insMutex,
                   op, file, target, scan, victims, missing>>

(* Flock(fd, F_WRLCK), which is LOCK_SH: granted unless a remover holds    *)
(* the inode.  fileInsertionMutex lets no second writer hold it.           *)
LockForWrite(t) ==
    /\ up /\ pc[t] = "wlock"
    /\ flock[fd[t]] = NoThread
    /\ flock' = [flock EXCEPT ![fd[t]] = t]
    /\ Goto(t, "write")
    /\ UNCHANGED <<up, crossed, cached, disk, complete, cacheMutex, insMutex,
                   op, file, target, fd, scan, victims, missing>>

(* All the chunks are written, if the tmpfs has room for them; the file    *)
(* may have lost its path meanwhile.                                       *)
WriteChunks(t) ==
    /\ up /\ pc[t] = "write"
    /\ FreeSpace >= Size[file[t]]
    /\ complete' = IF disk[file[t]] = fd[t] THEN complete \cup {fd[t]} ELSE complete
    /\ Goto(t, "wunlock")
    /\ UNCHANGED <<up, crossed, cached, disk, flock, cacheMutex, insMutex,
                   op, file, target, fd, scan, victims, missing>>

(* The stream ends with an error, or a write fails for lack of space:      *)
(* os.Remove of the path, whatever it names by now.                        *)
AbortWrite(t) ==
    /\ up /\ pc[t] = "write"
    /\ Aborts \/ FreeSpace < Size[file[t]]
    /\ disk' = Unlinked(file[t])
    /\ complete' = WholeOnDisk(disk')
    /\ Goto(t, "aunlock")
    /\ UNCHANGED <<up, crossed, cached, flock, cacheMutex, insMutex,
                   op, file, target, fd, scan, victims, missing>>

(* Deferred Flock(fd, F_UNLCK): the constant is LOCK_EX, so the shared     *)
(* lock is dropped and an exclusive one requested ...                      *)
DropSharedLock(t) ==
    /\ up /\ pc[t] \in {"wunlock", "aunlock"}
    /\ flock' = [flock EXCEPT ![fd[t]] = NoThread]
    /\ Goto(t, IF pc[t] = "wunlock" THEN "wclose" ELSE "aclose")
    /\ UNCHANGED <<up, crossed, cached, disk, complete, cacheMutex, insMutex,
                   op, file, target, fd, scan, victims, missing>>

(* ... and when no remover holds the inode it is granted, then the file is *)
(* closed.                                                                 *)
CloseWritten(t) ==
    /\ up /\ pc[t] = "wclose"
    /\ flock[fd[t]] = NoThread
    /\ fd' = [fd EXCEPT ![t] = NoInode]
    /\ Goto(t, "enqueue")
    /\ UNCHANGED <<up, crossed, cached, disk, complete, flock, cacheMutex, insMutex,
                   op, file, target, scan, victims, missing>>

CloseAborted(t) ==
    /\ up /\ pc[t] = "aclose"
    /\ flock[fd[t]] = NoThread
    /\ UnlockInsertion
    /\ Finish(t)
    /\ UNCHANGED <<up, crossed, cached, disk, complete, flock, cacheMutex>>

(* insertFileInQueue, and the release of fileInsertionMutex.  A scan under *)
(* way may read the new entry.                                             *)
InsertInQueue(t) ==
    /\ up /\ pc[t] = "enqueue"
    /\ cacheMutex = NoThread
    /\ cached' = Enqueued(file[t])
    /\ scan' = [u \in Threads |->
                    IF scan[u].left = 0 THEN NoScan
                    ELSE [scan[u] EXCEPT !.seen = @ \cup {file[t]}]]
    /\ UnlockInsertion
    /\ Goto(t, "idle")
    /\ op' = [op EXCEPT ![t] = "none"]
    /\ file' = [file EXCEPT ![t] = NoFile]
    /\ UNCHANGED <<up, crossed, disk, complete, flock, cacheMutex, target, fd, victims, missing>>

-----------------------------------------------------------------------------
(* deleteExpiredFiles and RemoveFileFromCache. *)

StartClean(t) ==
    /\ up /\ pc[t] = "idle" /\ t \in Cleaners
    /\ cached # {}
    /\ BeginScan(t)
    /\ Goto(t, "scan")
    /\ op' = [op EXCEPT ![t] = "clean"]
    /\ UNCHANGED <<up, crossed, cached, disk, complete, flock, cacheMutex, insMutex,
                   file, target, fd, victims, missing>>

(* The next element read is expired and is removed, or it is not. *)
ScanNext(t) ==
    /\ up /\ pc[t] = "scan" /\ MoreToScan(t)
    /\ LET rest == [scan[t] EXCEPT !.left = @ - 1] IN
        scan' = [scan EXCEPT ![t] = IF rest.left = 0 THEN NoScan ELSE rest]
    /\ \/ \E f \in scan[t].seen :
            /\ target' = [target EXCEPT ![t] = f]
            /\ Goto(t, "open")
       \/ UNCHANGED <<target, pc>>
    /\ UNCHANGED <<up, crossed, cached, disk, complete, flock, cacheMutex, insMutex,
                   op, file, fd, victims, missing>>

(* The cleaner sleeps again; an insertion goes on with the space check. *)
EndScan(t) ==
    /\ up /\ pc[t] = "scan" /\ scan[t].left = 0
    /\ Goto(t, IF op[t] = "clean" THEN "idle" ELSE "space")
    /\ op' = [op EXCEPT ![t] = IF op[t] = "clean" THEN "none" ELSE op[t]]
    /\ UNCHANGED <<up, crossed, cached, disk, complete, flock, cacheMutex, insMutex,
                   file, target, fd, scan, victims, missing>>

(* Delete and DeleteFile look the file up in cachingMap without a lock. *)
StartDelete(t, f) ==
    /\ up /\ pc[t] = "idle" /\ t \in Deleters
    /\ f \in cached
    /\ Goto(t, "hit")
    /\ op' = [op EXCEPT ![t] = "delete"]
    /\ target' = [target EXCEPT ![t] = f]
    /\ UNCHANGED <<up, crossed, cached, disk, complete, flock, cacheMutex, insMutex,
                   file, fd, scan, victims, missing>>

(* incrementPopularity, on behalf of a delete or of a read. *)
IncrementPopularity(t) ==
    /\ up /\ pc[t] = "hit"
    /\ cacheMutex = NoThread
    /\ Goto(t, IF op[t] = "delete" THEN "open" ELSE "rdOpen")
    /\ UNCHANGED <<up, crossed, cached, disk, complete, flock, cacheMutex, insMutex,
                   op, file, target, fd, scan, victims, missing>>

(* removeWithLocks: open the path, give up when it is not there. *)
OpenToRemove(t) ==
    /\ up /\ pc[t] = "open"
    /\ \/ /\ disk[target[t]] # NoInode
          /\ fd' = [fd EXCEPT ![t] = disk[target[t]]]
          /\ Goto(t, "flock")
          /\ UNCHANGED <<op, file, target, scan, victims, missing>>
       \/ /\ disk[target[t]] = NoInode
          /\ ReturnFromRemove(t)
    /\ UNCHANGED <<up, crossed, cached, disk, complete, flock, cacheMutex, insMutex>>

(* Flock(fd, LOCK_EX) on the inode that was opened. *)
LockToRemove(t) ==
    /\ up /\ pc[t] = "flock"
    /\ flock[fd[t]] = NoThread
    /\ flock' = [flock EXCEPT ![fd[t]] = t]
    /\ Goto(t, "unlink")
    /\ UNCHANGED <<up, crossed, cached, disk, complete, cacheMutex, insMutex,
                   op, file, target, fd, scan, victims, missing>>

(* os.Remove of the path, which may name another inode by now; then the    *)
(* lock is released and the file closed.                                   *)
Unlink(t) ==
    /\ up /\ pc[t] = "unlink"
    /\ flock' = [flock EXCEPT ![fd[t]] = NoThread]
    /\ \/ /\ disk[target[t]] # NoInode
          /\ disk' = Unlinked(target[t])
          /\ complete' = WholeOnDisk(disk')
          /\ fd' = [fd EXCEPT ![t] = NoInode]
          /\ Goto(t, "dequeue")
          /\ UNCHANGED <<op, file, target, scan, victims, missing>>
       \/ /\ disk[target[t]] = NoInode
          /\ ReturnFromRemove(t)
          /\ UNCHANGED <<disk, complete>>
    /\ UNCHANGED <<up, crossed, cached, cacheMutex, insMutex>>

(* removeFileFromQueue.  The eviction calls it holding cacheMutex, which   *)
(* is not reentrant: the guard is then never true.                         *)
RemoveFromQueue(t) ==
    /\ up /\ pc[t] = "dequeue"
    /\ cacheMutex = NoThread
    /\ target[t] \in cached
    /\ cached' = Dequeued(target[t])
    /\ ReturnFromRemove(t)
    /\ UNCHANGED <<up, crossed, disk, complete, flock, cacheMutex, insMutex>>

(* The process stops and its memory is lost; the tmpfs survives. *)
LoseMemory ==
    /\ up' = FALSE
    /\ cached' = {}
    /\ flock' = BlankFlock
    /\ cacheMutex' = NoThread /\ insMutex' = NoThread
    /\ pc' = BlankPc /\ op' = BlankOp
    /\ file' = BlankName /\ target' = BlankName /\ fd' = BlankFd
    /\ scan' = BlankScan /\ victims' = BlankVictims /\ missing' = BlankMissing
    /\ crossed' = {}
    /\ UNCHANGED <<disk, complete>>

(* getIndex returns (-1, nil) for a name that is not in the map: the slice *)
(* expression panics and the process dies.                                 *)
IndexPanic(t) ==
    /\ up /\ pc[t] = "dequeue"
    /\ cacheMutex = NoThread
    /\ target[t] \notin cached
    /\ LoseMemory

-----------------------------------------------------------------------------
(* readFromLocalCache and DownloadFromEdge. *)

StartRead(t, f) ==
    /\ up /\ pc[t] = "idle" /\ t \in Readers
    /\ f \in cached
    /\ Goto(t, "hit")
    /\ op' = [op EXCEPT ![t] = "read"]
    /\ target' = [target EXCEPT ![t] = f]
    /\ UNCHANGED <<up, crossed, cached, disk, complete, flock, cacheMutex, insMutex,
                   file, fd, scan, victims, missing>>

(* Without the file the download ends with an error.  Flock(fd, F_RDLCK)   *)
(* is a flock with operation 0, which takes no lock.                       *)
OpenToRead(t) ==
    /\ up /\ pc[t] = "rdOpen"
    /\ \/ /\ disk[target[t]] # NoInode
          /\ fd' = [fd EXCEPT ![t] = disk[target[t]]]
          /\ Goto(t, "rdRead")
          /\ UNCHANGED <<op, file, target, scan, victims, missing>>
       \/ /\ disk[target[t]] = NoInode
          /\ Finish(t)
    /\ UNCHANGED <<up, crossed, cached, disk, complete, flock, cacheMutex, insMutex>>

(* The file is read up to EOF, wherever that is by then, and closed. *)
ReadToEnd(t) ==
    /\ up /\ pc[t] = "rdRead"
    /\ Finish(t)
    /\ UNCHANGED <<up, crossed, cached, disk, complete, flock, cacheMutex, insMutex>>

-----------------------------------------------------------------------------
(* Crash and restart. *)

Crash ==
    /\ up /\ Crashes
    /\ LoseMemory

(* StartCache: ActivateCacheRecovery admits every file found on disk. *)
Recover ==
    /\ ~up
    /\ up' = TRUE
    /\ cached' = {f \in Files : disk[f] # NoInode}
    /\ UNCHANGED <<disk, complete, flock, cacheMutex, insMutex, threadVars, crossed>>

-----------------------------------------------------------------------------
InsertStep(t) ==
    \/ LockInsertion(t) \/ MeasureSpace(t) \/ ChooseVictims(t) \/ NextVictim(t)
    \/ NothingToWrite(t) \/ CreateFile(t) \/ LockForWrite(t)
    \/ WriteChunks(t) \/ AbortWrite(t) \/ DropSharedLock(t)
    \/ CloseWritten(t) \/ CloseAborted(t) \/ InsertInQueue(t)

RemoveStep(t) ==
    \/ ScanNext(t) \/ EndScan(t) \/ OpenToRemove(t) \/ LockToRemove(t)
    \/ Unlink(t) \/ RemoveFromQueue(t) \/ IndexPanic(t)

ReadStep(t) ==
    IncrementPopularity(t) \/ OpenToRead(t) \/ ReadToEnd(t)

Start(t) ==
    \/ StartClean(t)
    \/ \E f \in Files : StartInsert(t, f) \/ StartDelete(t, f) \/ StartRead(t, f)

Step(t) == InsertStep(t) \/ RemoveStep(t) \/ ReadStep(t)

Next ==
    \/ \E t \in Threads : Start(t) \/ Step(t)
    \/ Crash
    \/ Recover

Spec == Init /\ [][Next]_vars

(* The scheduler runs every goroutine.  The mutexes (sync.RWMutex) and the *)
(* flock of an inode are handed over in the order of arrival, so that a    *)
(* goroutine that can take one again and again takes it in the end: strong *)
(* fairness of its steps.  Nothing makes a request arrive, and nothing is  *)
(* required of Start.                                                      *)
Fairness == WF_vars(Recover) /\ \A t \in Threads : SF_vars(Step(t))

FairSpec == Spec /\ Fairness

-----------------------------------------------------------------------------
(* Properties. *)

(* An entry of the cache has its file on disk, unless a goroutine that has *)
(* just unlinked the file is about to drop the entry, or the file was last *)
(* created over its entry.  An entry without a file answers every lookup   *)
(* with a failed download and cannot be removed, because                   *)
(* RemoveFileFromCache stops when the file is missing.                     *)
NoGhost ==
    \A f \in cached \ crossed :
        disk[f] = NoInode => \E t \in Threads : Removing(t, f)

(* A file on disk is in the cache, unless an insertion is still writing it *)
(* or created it over its entry, or over that of a goroutine which had     *)
(* still to remove it.  A file without an entry takes space that neither   *)
(* the expiry scan nor the eviction can give back.                         *)
NoOrphan ==
    up => \A f \in Files \ crossed :
            disk[f] # NoInode /\ f \notin cached => \E t \in Threads : Writing(t, f)

(* The file of f is whole, or some goroutine is writing it. *)
WholeOrBeingWritten(f) ==
    disk[f] \in Inodes \ complete
        => \E t \in Threads : fd[t] = disk[f] /\ pc[t] \in {"wlock", "write"}

(* As long as the process runs, the end of an insertion, whatever its      *)
(* outcome and whoever else writes or removes the file, leaves no half     *)
(* file behind.                                                            *)
WritersLeaveNoHalfFile ==
    [][\A f \in Files : up' /\ WholeOrBeingWritten(f) => WholeOrBeingWritten(f)']_vars

(* "Se esiste già, non lo inseriamo di nuovo" (cache.go:83): an insertion  *)
(* never truncates the file of an entry that stays in the cache.           *)
EntryKeepsInode(f, i) == f \in cached \cap cached' /\ disk[f] = i /\ disk'[f] = i
NoRewrite ==
    [][\A i \in complete : (\E f \in Files : EntryKeepsInode(f, i)) => i \in complete']_vars

(* No goroutine asks for cacheMutex while it holds it. *)
NoSelfDeadlock ==
    \A t \in Threads : pc[t] = "dequeue" => cacheMutex # t

(* Every operation on the cache comes to an end, whoever else holds its    *)
(* locks, whatever fails, unless the eviction has locked itself out.       *)
OperationsTerminate ==
    \A t \in Threads : pc[t] # "idle" ~> pc[t] = "idle" \/ ~NoSelfDeadlock

-----------------------------------------------------------------------------
(* What makes NoGhost and NoOrphan inductive, whoever inserts, with aborts *)
(* and crashes.                                                            *)

InsertLabels ==
    {"insLock", "space", "evict", "evictNext", "create", "wlock", "write",
     "wunlock", "wclose", "enqueue", "aunlock", "aclose"}
RemoveLabels == {"open", "flock", "unlink", "dequeue"}

(* The step of a goroutine says what its local variables hold. *)
LocalOK ==
    \A t \in Threads :
        /\ pc[t] \in InsertLabels => op[t] = "insert"
        /\ pc[t] = "scan" => op[t] \in {"insert", "clean"}
        /\ pc[t] \in RemoveLabels => op[t] \in {"insert", "clean", "delete"}
        /\ pc[t] = "hit" => op[t] \in {"delete", "read"}
        /\ pc[t] \in {"rdOpen", "rdRead"} => op[t] = "read"
        /\ pc[t] = "idle" => op[t] = "none"
        /\ pc[t] \in RemoveLabels \cup {"hit", "rdOpen"} => target[t] \in Files
        /\ pc[t] \in {"wlock", "write", "wunlock", "wclose", "aunlock", "aclose",
                      "flock", "unlink", "rdRead"} => fd[t] \in Inodes
        /\ op[t] = "insert" => file[t] \in Files /\ t \in Inserters[file[t]]
        /\ cacheMutex = t => op[t] = "insert" /\ pc[t] \in RemoveLabels \cup {"evictNext"}
        /\ ~up => pc[t] = "idle"

(* fileInsertionMutex is held from the scan of an insertion to its end. *)
InsertionLocked ==
    \A t \in Threads : op[t] = "insert" /\ pc[t] # "insLock" => insMutex = t

(* A file that was not created over its entry has none while it is written. *)
WrittenIsNew ==
    \A t \in Threads : \A f \in Files \ crossed : Writing(t, f) => f \notin cached

(* The path of an entry, or of a file about to become one, is missing only *)
(* between the unlink and the removal of the entry.                        *)
UnlinkedIsRemoved ==
    \A f \in Files \ crossed :
        /\ disk[f] = NoInode
        /\ f \in cached \/ \E t \in Threads : Writing(t, f)
        => \E u \in Threads : Removing(u, f)

(* Only one goroutine is between the unlink of a path and the removal of   *)
(* its entry, and the path stays missing meanwhile.                        *)
RemovedOnce ==
    \A t \in Threads : \A f \in Files \ crossed : Removing(t, f) =>
        /\ disk[f] = NoInode
        /\ \A u \in Threads : Removing(u, f) => u = t

FilesOK == WrittenIsNew /\ UnlinkedIsRemoved /\ NoOrphan /\ RemovedOnce

CacheInv == TypeOK /\ LocalOK /\ InsertionLocked /\ FilesOK

-----------------------------------------------------------------------------
(* What makes WritersLeaveNoHalfFile inductive, whoever inserts. *)

InWrite(t) == pc[t] \in {"wlock", "write"}

(* Two paths are two inodes, and the inode of a writer has no other path   *)
(* than that of its file: os.Remove of an aborted write leaves no other.   *)
PathsApart ==
    /\ \A f, g \in Files : disk[f] = disk[g] /\ disk[f] # NoInode => f = g
    /\ \A t \in Threads : \A f \in Files : InWrite(t) /\ disk[f] = fd[t] => f = file[t]

InodesInv == TypeOK /\ LocalOK /\ PathsApart
=============================================================================
