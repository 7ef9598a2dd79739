-------------------------- MODULE EdgeCacheProofs ---------------------------
(***************************************************************************)
(* Theorems about EdgeCache, for any number of goroutines, files, inodes   *)
(* and any sizes, whoever inserts, with aborted streams, crashes and       *)
(* eviction.  LocalStep shows that the local variables fit the program     *)
(* counter, InsertionLockedStep that fileInsertionMutex keeps insertions   *)
(* apart, and FilesStep that every step preserves what relates the entries *)
(* of the cache to the files: NoGhost and NoOrphan follow.  That no half   *)
(* file is left behind follows from PathsStayApart.                        *)
(***************************************************************************)
EXTENDS EdgeCache, FiniteSetTheorems, TLAPS

(* Abbreviations the actions are written with. *)
USE DEF IsNew, Enqueued, Dequeued, Unlinked, UnlockInsertion, MoreToScan

(* A scan starts with a number of elements to visit. *)
LEMMA ScanLength == ASSUME TypeOK PROVE Cardinality(cached) \in Nat
BY FS_Subset, FS_CardinalityType, ThreadsAssumption DEF TypeOK

(* Every goroutine is idle at the start. *)
LEMMA LocalInit == Init => TypeOK /\ LocalOK
BY ThreadsAssumption DEF Init, TypeOK, LocalOK, BlankFlock, BlankPc, BlankOp,
    BlankName, BlankFd, BlankScan, BlankVictims, BlankMissing, NoScan,
    LabelSet, OpSet, InsertLabels, RemoveLabels

-----------------------------------------------------------------------------
(* TypeOK and LocalOK: the actions that need more than one leaf. *)

(* The space that is missing is a natural number. *)
LEMMA MeasureSpaceLocal ==
    ASSUME TypeOK, LocalOK, NEW t \in Threads, MeasureSpace(t)
    PROVE  TypeOK' /\ LocalOK'
<1>1. missing' \in [Threads -> Nat]
  <2>1. CASE UNCHANGED missing
    BY <2>1 DEF TypeOK
  <2>2. ASSUME NEW m \in 1..Size[file[t]], missing' = [missing EXCEPT ![t] = m]
        PROVE  missing' \in [Threads -> Nat]
    <3>1. m \in Nat
      OBVIOUS
    <3> QED BY <2>2, <3>1 DEF TypeOK
  <2> QED BY <2>1, <2>2 DEF MeasureSpace
<1>2. pc' \in [Threads -> LabelSet]
  BY DEF MeasureSpace, Goto, TypeOK, LabelSet
<1>3. TypeOK'
  BY <1>1, <1>2 DEF MeasureSpace, TypeOK
<1>4. LocalOK'
  BY DEF MeasureSpace, Goto, TypeOK, LocalOK, InsertLabels, RemoveLabels
<1> QED BY <1>3, <1>4

(* The eviction chooses files, and takes cacheMutex for an insertion. *)
LEMMA ChooseVictimsLocal ==
    ASSUME TypeOK, LocalOK, NEW t \in Threads, ChooseVictims(t)
    PROVE  TypeOK' /\ LocalOK'
<1> USE ThreadsAssumption DEF InsertLabels, RemoveLabels
<1>1. CASE cached = {}
  <2>1. /\ insMutex' = NoThread /\ Finish(t)
        /\ UNCHANGED <<up, crossed, cached, disk, complete, flock, cacheMutex>>
    BY <1>1 DEF ChooseVictims
  <2>2. TypeOK'
    BY <2>1 DEF Finish, TypeOK, LabelSet, OpSet
  <2>3. LocalOK'
    BY <1>1 DEF ChooseVictims, Finish, TypeOK, LocalOK
  <2> QED BY <2>2, <2>3
<1>2. CASE cached # {}
  <2>1. PICK order \in Orders :
            LET sizes == [i \in DOMAIN order |-> Size[order[i]]]
                chosen == {order[i] : i \in Policy!FilesToDelete(sizes, missing[t])}
            IN  /\ victims' = [victims EXCEPT ![t] = chosen]
                /\ cacheMutex' = IF chosen = {} THEN NoThread ELSE t
                /\ Goto(t, IF chosen = {} THEN "create" ELSE "evictNext")
    BY <1>2 DEF ChooseVictims
  <2> DEFINE sizes == [i \in DOMAIN order |-> Size[order[i]]]
             chosen == {order[i] : i \in Policy!FilesToDelete(sizes, missing[t])}
  <2>2. chosen \subseteq Files
    <3>1. Policy!FilesToDelete(sizes, missing[t]) \subseteq DOMAIN order
      BY DEF Policy!FilesToDelete
    <3>2. \A i \in DOMAIN order : order[i] \in cached
      BY DEF Orders
    <3>3. chosen \subseteq cached
      BY <3>1, <3>2
    <3> QED BY <3>3 DEF TypeOK
  <2>3. /\ victims' = [victims EXCEPT ![t] = chosen]
        /\ cacheMutex' = IF chosen = {} THEN NoThread ELSE t
        /\ pc' = [pc EXCEPT ![t] = IF chosen = {} THEN "create" ELSE "evictNext"]
        /\ missing' = [missing EXCEPT ![t] = 0]
        /\ UNCHANGED <<up, crossed, cached, disk, complete, flock, insMutex, op, file, target, fd, scan>>
    BY <1>2, <2>1 DEF ChooseVictims, Goto
  <2> HIDE DEF chosen
  <2>4. TypeOK'
    BY <2>2, <2>3 DEF TypeOK, LabelSet
  <2>5. LocalOK'
    BY <2>3 DEF ChooseVictims, TypeOK, LocalOK
  <2> QED BY <2>4, <2>5
<1> QED BY <1>1, <1>2

(* The loop of the eviction hands a file to RemoveFileFromCache. *)
LEMMA NextVictimLocal ==
    ASSUME TypeOK, LocalOK, NEW t \in Threads, NextVictim(t)
    PROVE  TypeOK' /\ LocalOK'
<1> USE ThreadsAssumption DEF TypeOK, LocalOK, LabelSet, OpSet, InsertLabels, RemoveLabels
<1>1. CASE victims[t] = {}
  <2>1. /\ pc' = [pc EXCEPT ![t] = "create"]
        /\ cacheMutex' = NoThread
        /\ UNCHANGED <<up, crossed, cached, disk, complete, flock, insMutex, op, file, target,
                       fd, scan, victims, missing>>
    BY <1>1 DEF NextVictim, Goto
  <2>2. pc' \in [Threads -> LabelSet]
    BY <2>1
  <2>3. TypeOK' BY <2>1, <2>2
  <2>4. LocalOK' BY <1>1, <2>1 DEF NextVictim
  <2> QED BY <2>3, <2>4
<1>2. CASE victims[t] # {}
  <2>1. PICK f \in victims[t] :
            /\ victims' = [victims EXCEPT ![t] = @ \ {f}]
            /\ target' = [target EXCEPT ![t] = f]
            /\ Goto(t, "open")
            /\ UNCHANGED cacheMutex
    BY <1>2 DEF NextVictim
  <2>2. f \in Files
    OBVIOUS
  <2>3. TypeOK' BY <2>1, <2>2 DEF NextVictim, Goto
  <2>4. LocalOK' BY <2>1, <2>2 DEF NextVictim, Goto
  <2> QED BY <2>3, <2>4
<1> QED BY <1>1, <1>2

(* The writer has an inode open once it has created its file. *)
LEMMA CreateFileLocal ==
    ASSUME TypeOK, LocalOK, NEW t \in Threads, CreateFile(t)
    PROVE  TypeOK' /\ LocalOK'
<1> USE ThreadsAssumption DEF TypeOK, LocalOK, LabelSet, OpSet, InsertLabels, RemoveLabels
<1>1. file[t] \in Files
  BY DEF CreateFile
<1>2. CASE disk[file[t]] = NoInode
  <2> DEFINE i == CHOOSE i \in FreeInodes(file[t]) : TRUE
  <2>1. i \in FreeInodes(file[t])
    BY <1>2 DEF CreateFile
  <2>2. i \in Inodes
    BY <1>1, <2>1 DEF FreeInodes
  <2>3. /\ disk' = [disk EXCEPT ![file[t]] = i]
        /\ complete' = complete \ {i}
        /\ fd' = [fd EXCEPT ![t] = i]
    BY <1>2 DEF CreateFile
  <2> HIDE DEF i
  <2>4. TypeOK'
    BY <1>1, <2>2, <2>3 DEF CreateFile, Goto
  <2>5. LocalOK'
    BY <1>1, <2>2, <2>3 DEF CreateFile, Goto
  <2> QED BY <2>4, <2>5
<1>3. CASE disk[file[t]] # NoInode
  <2>1. disk[file[t]] \in Inodes
    BY <1>1, <1>3
  <2>2. /\ fd' = [fd EXCEPT ![t] = disk[file[t]]]
        /\ complete' \subseteq complete
        /\ pc' = [pc EXCEPT ![t] = "wlock"] /\ pc[t] = "create" /\ up
        /\ crossed' \subseteq crossed \cup {file[t]}
        /\ UNCHANGED <<up, cached, disk, flock, cacheMutex, insMutex,
                       op, file, target, scan, victims, missing>>
    BY <1>3 DEF CreateFile, Goto
  <2>3. TypeOK'
    BY <1>1, <2>1, <2>2
  <2>4. LocalOK'
    BY <2>1, <2>2
  <2> QED BY <2>3, <2>4
<1> QED BY <1>2, <1>3

(* A scan removes an entry on behalf of an insertion or of the cleaner. *)
LEMMA ScanNextLocal ==
    ASSUME TypeOK, LocalOK, NEW t \in Threads, ScanNext(t)
    PROVE  TypeOK' /\ LocalOK'
<1> USE ThreadsAssumption DEF TypeOK, LocalOK, LabelSet, OpSet, InsertLabels, RemoveLabels
<1>1. scan' \in [Threads -> [left : Nat, seen : SUBSET Files]]
  <2> DEFINE rest == [scan[t] EXCEPT !.left = @ - 1]
  <2>1. rest \in [left : Nat, seen : SUBSET Files]
    BY DEF ScanNext
  <2>2. NoScan \in [left : Nat, seen : SUBSET Files]
    BY DEF NoScan
  <2>3. scan' = [scan EXCEPT ![t] = IF rest.left = 0 THEN NoScan ELSE rest]
    BY DEF ScanNext
  <2> QED BY <2>1, <2>2, <2>3
<1>2. CASE UNCHANGED <<target, pc>>
  <2>1. TypeOK' BY <1>1, <1>2 DEF ScanNext
  <2>2. LocalOK' BY <1>2 DEF ScanNext
  <2> QED BY <2>1, <2>2
<1>3. ASSUME NEW f \in scan[t].seen,
             target' = [target EXCEPT ![t] = f], Goto(t, "open")
      PROVE  TypeOK' /\ LocalOK'
  <2>1. f \in Files
    OBVIOUS
  <2>2. TypeOK' BY <1>1, <1>3, <2>1 DEF ScanNext, Goto
  <2>3. LocalOK' BY <1>3, <2>1 DEF ScanNext, Goto
  <2> QED BY <2>2, <2>3
<1> QED BY <1>2, <1>3 DEF ScanNext

(* The remover has an inode open, or returns to its caller. *)
LEMMA OpenToRemoveLocal ==
    ASSUME TypeOK, LocalOK, NEW t \in Threads, OpenToRemove(t)
    PROVE  TypeOK' /\ LocalOK'
<1> USE ThreadsAssumption DEF InsertLabels, RemoveLabels
<1>1. target[t] \in Files
  BY DEF LocalOK, OpenToRemove
<1>2. CASE disk[target[t]] # NoInode
  <2>1. /\ fd' = [fd EXCEPT ![t] = disk[target[t]]]
        /\ pc' = [pc EXCEPT ![t] = "flock"]
        /\ UNCHANGED <<op, file, target, scan, victims, missing,
                       up, crossed, cached, disk, complete, flock, cacheMutex, insMutex>>
    BY <1>2 DEF OpenToRemove, Goto
  <2>2. TypeOK'
    BY <1>1, <2>1 DEF TypeOK, LabelSet
  <2>3. LocalOK'
    BY <1>1, <1>2, <2>1 DEF OpenToRemove, TypeOK, LocalOK
  <2> QED BY <2>2, <2>3
<1>3. CASE disk[target[t]] = NoInode
  <2>1. /\ ReturnFromRemove(t)
        /\ UNCHANGED <<up, crossed, cached, disk, complete, flock, cacheMutex, insMutex>>
    BY <1>3 DEF OpenToRemove
  <2>2. TypeOK'
    BY <2>1 DEF ReturnFromRemove, TypeOK, LabelSet, OpSet
  <2>3. LocalOK'
    BY <1>3 DEF OpenToRemove, ReturnFromRemove, TypeOK, LocalOK
  <2> QED BY <2>2, <2>3
<1> QED BY <1>2, <1>3

(* The remover goes on to the queue, or returns to its caller. *)
LEMMA UnlinkLocal ==
    ASSUME TypeOK, LocalOK, NEW t \in Threads, Unlink(t)
    PROVE  TypeOK' /\ LocalOK'
<1> USE ThreadsAssumption DEF InsertLabels, RemoveLabels
<1>1. target[t] \in Files /\ fd[t] \in Inodes
  BY DEF LocalOK, Unlink
<1>2. flock' \in [Inodes -> Threads \cup {NoThread}]
  BY <1>1 DEF Unlink, TypeOK
<1>3. CASE disk[target[t]] # NoInode
  <2>1. /\ disk' = [disk EXCEPT ![target[t]] = NoInode]
        /\ fd' = [fd EXCEPT ![t] = NoInode]
        /\ pc' = [pc EXCEPT ![t] = "dequeue"]
        /\ UNCHANGED <<op, file, target, scan, victims, missing,
                       up, crossed, cached, cacheMutex, insMutex>>
        /\ complete' \subseteq complete
    BY <1>3 DEF Unlink, WholeOnDisk, Goto
  <2>2. TypeOK'
    <3>1. disk' \in [Files -> Inodes \cup {NoInode}] /\ fd' \in [Threads -> Inodes \cup {NoInode}]
      BY <2>1 DEF TypeOK
    <3>2. complete' \subseteq Inodes
      BY <2>1 DEF TypeOK
    <3>3. pc' \in [Threads -> LabelSet]
      BY <2>1 DEF TypeOK, LabelSet
    <3>4. UNCHANGED <<op, file, target, scan, victims, missing,
                      up, crossed, cached, cacheMutex, insMutex>>
      BY <2>1
    <3> QED BY <1>2, <3>1, <3>2, <3>3, <3>4 DEF TypeOK
  <2>3. op[t] \in {"insert", "clean", "delete"} /\ up /\ pc[t] = "unlink"
    BY DEF Unlink, LocalOK
  <2>4. pc'[t] = "dequeue" /\ \A u \in Threads \ {t} : pc'[u] = pc[u] /\ fd'[u] = fd[u]
    BY <2>1 DEF TypeOK
  <2>5. LocalOK'
    BY <1>1, <2>1, <2>3, <2>4 DEF LocalOK
  <2> QED BY <2>2, <2>5
<1>4. CASE disk[target[t]] = NoInode
  <2>1. ReturnFromRemove(t) /\ UNCHANGED <<up, crossed, cached, disk, complete, cacheMutex, insMutex>>
    BY <1>4 DEF Unlink
  <2>2. TypeOK'
    BY <1>2, <2>1 DEF ReturnFromRemove, TypeOK, LabelSet, OpSet
  <2>3. LocalOK'
    BY <1>4 DEF Unlink, ReturnFromRemove, TypeOK, LocalOK
  <2> QED BY <2>2, <2>3
<1> QED BY <1>3, <1>4

(* The reader has an inode open, or has ended. *)
LEMMA OpenToReadLocal ==
    ASSUME TypeOK, LocalOK, NEW t \in Threads, OpenToRead(t)
    PROVE  TypeOK' /\ LocalOK'
<1>1. target[t] \in Files
  BY DEF LocalOK, OpenToRead
<1>2. CASE disk[target[t]] # NoInode
  <2>1. /\ fd' = [fd EXCEPT ![t] = disk[target[t]]]
        /\ pc' = [pc EXCEPT ![t] = "rdRead"]
        /\ UNCHANGED <<op, file, target, scan, victims, missing,
                       up, crossed, cached, disk, complete, flock, cacheMutex, insMutex>>
    BY <1>2 DEF OpenToRead, Goto
  <2>2. TypeOK'
    BY <1>1, <2>1 DEF TypeOK, LabelSet
  <2>3. LocalOK'
    BY <1>1, <1>2, <2>1, ThreadsAssumption DEF OpenToRead, TypeOK, LocalOK,
                                               InsertLabels, RemoveLabels
  <2> QED BY <2>2, <2>3
<1>3. CASE disk[target[t]] = NoInode
  <2>1. TypeOK'
    <3>1. Finish(t) /\ UNCHANGED <<up, crossed, cached, disk, complete, flock, cacheMutex, insMutex>>
      BY <1>3 DEF OpenToRead
    <3> QED BY <3>1 DEF Finish, TypeOK, LabelSet, OpSet
  <2>2. LocalOK'
    BY <1>3, ThreadsAssumption DEF OpenToRead, Finish, TypeOK, LocalOK, InsertLabels, RemoveLabels
  <2> QED BY <2>1, <2>2
<1> QED BY <1>2, <1>3

-----------------------------------------------------------------------------
(* TypeOK and LocalOK are inductive together. *)
LEMMA LocalStep == TypeOK /\ LocalOK /\ [Next]_vars => TypeOK' /\ LocalOK'
<1> SUFFICES ASSUME TypeOK, LocalOK, [Next]_vars PROVE TypeOK' /\ LocalOK'
  OBVIOUS
<1> USE ThreadsAssumption DEF LabelSet, OpSet, InsertLabels, RemoveLabels
<1>1. ASSUME NEW t \in Threads, LockInsertion(t) PROVE TypeOK' /\ LocalOK'
  <2>1. TypeOK'
    BY <1>1, ScanLength DEF TypeOK, LocalOK, LockInsertion, Goto, BeginScan
  <2>2. LocalOK'
    BY <1>1 DEF TypeOK, LocalOK, LockInsertion, Goto, BeginScan
  <2> QED BY <2>1, <2>2
<1>2. ASSUME NEW t \in Threads, NothingToWrite(t) PROVE TypeOK' /\ LocalOK'
  <2>1. TypeOK'
    BY <1>2 DEF TypeOK, LocalOK, NothingToWrite, Finish
  <2>2. LocalOK'
    BY <1>2 DEF TypeOK, LocalOK, NothingToWrite, Finish
  <2> QED BY <2>1, <2>2
<1>3. ASSUME NEW t \in Threads, LockForWrite(t) PROVE TypeOK' /\ LocalOK'
  <2>1. TypeOK'
    BY <1>3 DEF TypeOK, LocalOK, LockForWrite, Goto
  <2>2. LocalOK'
    BY <1>3 DEF TypeOK, LocalOK, LockForWrite, Goto
  <2> QED BY <2>1, <2>2
<1>4. ASSUME NEW t \in Threads, WriteChunks(t) PROVE TypeOK' /\ LocalOK'
  <2>1. TypeOK'
    <3>1. complete' \subseteq Inodes
      BY <1>4 DEF TypeOK, LocalOK, WriteChunks
    <3> QED BY <1>4, <3>1 DEF TypeOK, LocalOK, WriteChunks, Goto
  <2>2. LocalOK'
    BY <1>4 DEF TypeOK, LocalOK, WriteChunks, Goto
  <2> QED BY <2>1, <2>2
<1>5. ASSUME NEW t \in Threads, AbortWrite(t) PROVE TypeOK' /\ LocalOK'
  <2>1. TypeOK'
    <3>1. complete' \subseteq Inodes
      BY <1>5 DEF TypeOK, AbortWrite, WholeOnDisk
    <3> QED BY <1>5, <3>1 DEF TypeOK, LocalOK, AbortWrite, Goto
  <2>2. LocalOK'
    BY <1>5 DEF TypeOK, LocalOK, AbortWrite, Goto
  <2> QED BY <2>1, <2>2
<1>6. ASSUME NEW t \in Threads, DropSharedLock(t) PROVE TypeOK' /\ LocalOK'
  <2>1. TypeOK'
    BY <1>6 DEF TypeOK, LocalOK, DropSharedLock, Goto
  <2>2. LocalOK'
    BY <1>6 DEF TypeOK, LocalOK, DropSharedLock, Goto
  <2> QED BY <2>1, <2>2
<1>7. ASSUME NEW t \in Threads, CloseWritten(t) PROVE TypeOK' /\ LocalOK'
  <2>1. TypeOK'
    BY <1>7 DEF TypeOK, LocalOK, CloseWritten, Goto
  <2>2. LocalOK'
    BY <1>7 DEF TypeOK, LocalOK, CloseWritten, Goto
  <2> QED BY <2>1, <2>2
<1>8. ASSUME NEW t \in Threads, CloseAborted(t) PROVE TypeOK' /\ LocalOK'
  <2>1. TypeOK'
    BY <1>8 DEF TypeOK, LocalOK, CloseAborted, Finish
  <2>2. LocalOK'
    BY <1>8 DEF TypeOK, LocalOK, CloseAborted, Finish
  <2> QED BY <2>1, <2>2
<1>9. ASSUME NEW t \in Threads, InsertInQueue(t) PROVE TypeOK' /\ LocalOK'
  <2>1. TypeOK'
    BY <1>9 DEF TypeOK, LocalOK, InsertInQueue, Goto, NoScan
  <2>2. LocalOK'
    BY <1>9 DEF TypeOK, LocalOK, InsertInQueue, Goto, NoScan
  <2> QED BY <2>1, <2>2
<1>10. ASSUME NEW t \in Threads, EndScan(t) PROVE TypeOK' /\ LocalOK'
  <2>1. TypeOK'
    BY <1>10 DEF TypeOK, LocalOK, EndScan, Goto
  <2>2. LocalOK'
    BY <1>10 DEF TypeOK, LocalOK, EndScan, Goto
  <2> QED BY <2>1, <2>2
<1>11. ASSUME NEW t \in Threads, LockToRemove(t) PROVE TypeOK' /\ LocalOK'
  <2>1. TypeOK'
    BY <1>11 DEF TypeOK, LocalOK, LockToRemove, Goto
  <2>2. LocalOK'
    BY <1>11 DEF TypeOK, LocalOK, LockToRemove, Goto
  <2> QED BY <2>1, <2>2
<1>12. ASSUME NEW t \in Threads, RemoveFromQueue(t) PROVE TypeOK' /\ LocalOK'
  <2>1. TypeOK'
    BY <1>12 DEF TypeOK, LocalOK, RemoveFromQueue, ReturnFromRemove
  <2>2. LocalOK'
    BY <1>12 DEF TypeOK, LocalOK, RemoveFromQueue, ReturnFromRemove
  <2> QED BY <2>1, <2>2
<1>13. ASSUME NEW t \in Threads, IndexPanic(t) PROVE TypeOK' /\ LocalOK'
  <2>1. TypeOK'
    BY <1>13 DEF TypeOK, LocalOK, IndexPanic, LoseMemory, BlankFlock, BlankPc, BlankOp,
          BlankName, BlankFd, BlankScan, BlankVictims, BlankMissing, NoScan
  <2>2. LocalOK'
    BY <1>13 DEF TypeOK, LocalOK, IndexPanic, LoseMemory, BlankFlock, BlankPc, BlankOp,
          BlankName, BlankFd, BlankScan, BlankVictims, BlankMissing, NoScan
  <2> QED BY <2>1, <2>2
<1>14. ASSUME NEW t \in Threads, IncrementPopularity(t) PROVE TypeOK' /\ LocalOK'
  <2>1. TypeOK'
    BY <1>14 DEF TypeOK, LocalOK, IncrementPopularity, Goto
  <2>2. LocalOK'
    BY <1>14 DEF TypeOK, LocalOK, IncrementPopularity, Goto
  <2> QED BY <2>1, <2>2
<1>16. ASSUME NEW t \in Threads, ReadToEnd(t) PROVE TypeOK' /\ LocalOK'
  <2>1. TypeOK'
    BY <1>16 DEF TypeOK, LocalOK, ReadToEnd, Finish
  <2>2. LocalOK'
    BY <1>16 DEF TypeOK, LocalOK, ReadToEnd, Finish
  <2> QED BY <2>1, <2>2
<1>17. ASSUME NEW t \in Threads, StartClean(t) PROVE TypeOK' /\ LocalOK'
  <2>1. TypeOK'
    BY <1>17, ScanLength DEF TypeOK, LocalOK, StartClean, Goto, BeginScan
  <2>2. LocalOK'
    BY <1>17 DEF TypeOK, LocalOK, StartClean, Goto, BeginScan
  <2> QED BY <2>1, <2>2
<1>18. ASSUME NEW t \in Threads, NEW f \in Files, StartInsert(t, f) PROVE TypeOK' /\ LocalOK'
  <2>1. TypeOK'
    BY <1>18 DEF TypeOK, LocalOK, StartInsert, Goto
  <2>2. LocalOK'
    BY <1>18 DEF TypeOK, LocalOK, StartInsert, Goto
  <2> QED BY <2>1, <2>2
<1>19. ASSUME NEW t \in Threads, NEW f \in Files, StartDelete(t, f) PROVE TypeOK' /\ LocalOK'
  <2>1. TypeOK'
    BY <1>19 DEF TypeOK, LocalOK, StartDelete, Goto
  <2>2. LocalOK'
    BY <1>19 DEF TypeOK, LocalOK, StartDelete, Goto
  <2> QED BY <2>1, <2>2
<1>20. ASSUME NEW t \in Threads, NEW f \in Files, StartRead(t, f) PROVE TypeOK' /\ LocalOK'
  <2>1. TypeOK'
    BY <1>20 DEF TypeOK, LocalOK, StartRead, Goto
  <2>2. LocalOK'
    BY <1>20 DEF TypeOK, LocalOK, StartRead, Goto
  <2> QED BY <2>1, <2>2
<1>21. CASE Crash
  <2>1. TypeOK'
    BY <1>21 DEF TypeOK, LocalOK, Crash, LoseMemory, BlankFlock, BlankPc, BlankOp,
          BlankName, BlankFd, BlankScan, BlankVictims, BlankMissing, NoScan
  <2>2. LocalOK'
    BY <1>21 DEF TypeOK, LocalOK, Crash, LoseMemory, BlankFlock, BlankPc, BlankOp,
          BlankName, BlankFd, BlankScan, BlankVictims, BlankMissing, NoScan
  <2> QED BY <2>1, <2>2
<1>22. CASE Recover
  <2>1. TypeOK'
    BY <1>22 DEF TypeOK, LocalOK, Recover, threadVars
  <2>2. LocalOK'
    BY <1>22 DEF TypeOK, LocalOK, Recover, threadVars
  <2> QED BY <2>1, <2>2
<1>23. CASE UNCHANGED vars
  <2>1. TypeOK'
    BY <1>23 DEF TypeOK, vars, threadVars
  <2>2. LocalOK'
    BY <1>23 DEF LocalOK, vars, threadVars
  <2> QED BY <2>1, <2>2
<1> QED
  BY <1>1, <1>2, <1>3, <1>4, <1>5, <1>6, <1>7, <1>8, <1>9, <1>10, <1>11, <1>12, <1>13,
     <1>14, <1>16, <1>17, <1>18, <1>19, <1>20, <1>21, <1>22, <1>23,
     MeasureSpaceLocal, ChooseVictimsLocal, NextVictimLocal, CreateFileLocal,
     ScanNextLocal, OpenToRemoveLocal, UnlinkLocal, OpenToReadLocal
  DEF Next, Start, Step, InsertStep, RemoveStep, ReadStep

(* Every variable keeps its type, in every interleaving of insertions,     *)
(* removals, scans and reads of edge/cache/cache.go, whoever inserts,      *)
(* and with crashes.                                                       *)
THEOREM TypeCorrect == Spec => []TypeOK
<1>1. TypeOK /\ LocalOK /\ [Next]_vars => TypeOK' /\ LocalOK'
  BY LocalStep
<1> QED BY LocalInit, <1>1, PTL DEF Spec

-----------------------------------------------------------------------------
(* What a step may do to the directory, the cache and those who write or   *)
(* remove.                                                                 *)

(* A step that leaves all of them as they are. *)
Untouched ==
    /\ UNCHANGED <<up, cached, disk, complete, crossed>>
    /\ \A t \in Threads : \A f \in Files : Writing(t, f)' => Writing(t, f)
    /\ \A t \in Threads : \A f \in Files : Writing(t, f) => Writing(t, f)'
    /\ \A t \in Threads : \A f \in Files : Removing(t, f)' <=> Removing(t, f)
    /\ \A t \in Threads : InWrite(t)' <=> InWrite(t)
    /\ \A t \in Threads : InWrite(t) => fd'[t] = fd[t] /\ file'[t] = file[t]

(* The steps that do not. *)
Touches(t) ==
    \/ CreateFile(t) \/ WriteChunks(t) \/ AbortWrite(t) \/ InsertInQueue(t)
    \/ Unlink(t) \/ RemoveFromQueue(t)

(* The steps of an insertion, but those. *)
LEMMA InsertUntouched ==
    ASSUME TypeOK, LocalOK, NEW t \in Threads, InsertStep(t)
    PROVE  Untouched \/ Touches(t)
<1> USE DEF TypeOK, Untouched, Writing, Removing, InWrite, Goto, Finish
<1>1. CASE LockInsertion(t)
  BY <1>1 DEF LockInsertion
<1>2. CASE MeasureSpace(t)
  BY <1>2 DEF MeasureSpace
<1>3. CASE ChooseVictims(t)
  <2>1. UNCHANGED <<up, cached, disk, complete, crossed>>
    BY <1>3 DEF ChooseVictims
  <2>2. CASE cached = {}
    BY <1>3, <2>2 DEF ChooseVictims
  <2>3. CASE cached # {}
    <3>1. /\ pc[t] = "evict"
          /\ \E label \in {"create", "evictNext"} : pc' = [pc EXCEPT ![t] = label]
          /\ UNCHANGED <<file, target, fd>>
      BY <1>3, <2>3 DEF ChooseVictims
    <3> QED BY <2>1, <3>1
  <2> QED BY <2>2, <2>3
<1>4. CASE NextVictim(t)
  BY <1>4 DEF NextVictim
<1>5. CASE NothingToWrite(t)
  BY <1>5 DEF NothingToWrite
<1>6. CASE LockForWrite(t)
  BY <1>6 DEF LockForWrite
<1>7. CASE DropSharedLock(t)
  BY <1>7 DEF DropSharedLock
<1>8. CASE CloseWritten(t)
  BY <1>8 DEF CloseWritten
<1>9. CASE CloseAborted(t)
  BY <1>9 DEF CloseAborted
<1> QED BY <1>1, <1>2, <1>3, <1>4, <1>5, <1>6, <1>7, <1>8, <1>9 DEF InsertStep, Touches

(* Those of a removal and of a scan. *)
LEMMA RemoveUntouched ==
    ASSUME TypeOK, LocalOK, NEW t \in Threads, RemoveStep(t), ~IndexPanic(t)
    PROVE  Untouched \/ Touches(t)
<1> USE DEF TypeOK, Untouched, Writing, Removing, InWrite, Goto
<1>1. CASE ScanNext(t)
  BY <1>1 DEF ScanNext
<1>2. CASE EndScan(t)
  BY <1>2 DEF EndScan
<1>3. CASE OpenToRemove(t)
  BY <1>3 DEF OpenToRemove, ReturnFromRemove
<1>4. CASE LockToRemove(t)
  BY <1>4 DEF LockToRemove
<1> QED BY <1>1, <1>2, <1>3, <1>4 DEF RemoveStep, Touches

(* Those of a read, and the beginning of an operation. *)
LEMMA OtherUntouched ==
    ASSUME TypeOK, LocalOK, NEW t \in Threads, ReadStep(t) \/ Start(t)
    PROVE  Untouched
<1> USE DEF TypeOK, Untouched, Writing, Removing, InWrite, Goto, Finish
<1>1. CASE IncrementPopularity(t)
  BY <1>1 DEF IncrementPopularity
<1>2. CASE OpenToRead(t)
  BY <1>2 DEF OpenToRead
<1>3. CASE ReadToEnd(t)
  BY <1>3 DEF ReadToEnd
<1>4. CASE StartClean(t)
  BY <1>4 DEF StartClean
<1>5. ASSUME NEW f \in Files, StartInsert(t, f) \/ StartDelete(t, f) \/ StartRead(t, f)
      PROVE  Untouched
  BY <1>5 DEF StartInsert, StartDelete, StartRead
<1> QED BY <1>1, <1>2, <1>3, <1>4, <1>5 DEF ReadStep, Start

(* Every step is one of these, a crash, or the recovery. *)
LEMMA StepKinds ==
    ASSUME TypeOK, LocalOK, [Next]_vars
    PROVE  Untouched \/ (\E t \in Threads : Touches(t)) \/ LoseMemory \/ Recover
<1>1. ASSUME NEW t \in Threads, Start(t) \/ Step(t)
      PROVE  Untouched \/ Touches(t) \/ LoseMemory
  BY <1>1, InsertUntouched, RemoveUntouched, OtherUntouched DEF Step, RemoveStep, IndexPanic
<1>2. CASE UNCHANGED vars
  BY <1>2 DEF vars, threadVars, Untouched, Writing, Removing, InWrite
<1> QED BY <1>1, <1>2 DEF Next, Crash

(* Nobody is doing anything after a crash. *)
LEMMA AfterCrash ==
    ASSUME LoseMemory
    PROVE  /\ \A t \in Threads : /\ ~InWrite(t)' /\ pc'[t] = "idle" /\ op'[t] = "none"
                                 /\ \A f \in Files : ~Writing(t, f)' /\ ~Removing(t, f)'
           /\ cached' = {} /\ up' = FALSE /\ crossed' = {} /\ UNCHANGED <<disk, complete>>
BY DEF LoseMemory, InWrite, Writing, Removing, BlankPc, BlankOp

(* The file a writer creates has an inode that nobody else uses, or the    *)
(* one its path names.                                                     *)
LEMMA Created ==
    ASSUME TypeOK, LocalOK, NEW t \in Threads, CreateFile(t)
    PROVE  /\ file[t] \in Files /\ fd'[t] \in Inodes
           /\ disk' = [disk EXCEPT ![file[t]] = fd'[t]]
           /\ disk[file[t]] = NoInode => fd'[t] \in FreeInodes(file[t])
           /\ disk[file[t]] # NoInode => fd'[t] = disk[file[t]]
           /\ complete' = complete \ {fd'[t]}
           /\ crossed' = IF HasEntry(file[t]) THEN crossed \cup {file[t]}
                                              ELSE crossed \ {file[t]}
           /\ \A u \in Threads \ {t} : fd'[u] = fd[u]
           /\ pc' = [pc EXCEPT ![t] = "wlock"]
           /\ pc[t] = "create" /\ op[t] = "insert"
           /\ UNCHANGED <<up, cached, file, target, op, insMutex>>
<1>1. file[t] \in Files /\ pc[t] = "create" /\ op[t] = "insert"
  BY DEF CreateFile, LocalOK, InsertLabels
<1>2. CASE disk[file[t]] = NoInode
  <2> DEFINE i == CHOOSE i \in FreeInodes(file[t]) : TRUE
  <2>1. i \in FreeInodes(file[t])
    BY <1>2 DEF CreateFile
  <2>2. i \in Inodes
    BY <1>1, <2>1, ThreadsAssumption DEF FreeInodes
  <2>3. /\ disk' = [disk EXCEPT ![file[t]] = i]
        /\ complete' = complete \ {i}
        /\ fd' = [fd EXCEPT ![t] = i]
    BY <1>2 DEF CreateFile
  <2> HIDE DEF i
  <2> QED BY <1>1, <1>2, <2>1, <2>2, <2>3 DEF CreateFile, Goto, TypeOK
<1>3. CASE disk[file[t]] # NoInode
  <2>1. /\ disk[file[t]] \in Inodes
        /\ complete' = complete \ {disk[file[t]]}
        /\ fd' = [fd EXCEPT ![t] = disk[file[t]]]
        /\ disk' = disk
    BY <1>1, <1>3 DEF CreateFile, TypeOK
  <2>2. disk = [disk EXCEPT ![file[t]] = disk[file[t]]]
    BY <1>1 DEF TypeOK
  <2> QED BY <1>1, <1>3, <2>1, <2>2 DEF CreateFile, Goto, TypeOK
<1> QED BY <1>2, <1>3

-----------------------------------------------------------------------------
(* Half-written files. *)

(* Two paths stay two inodes. *)
LEMMA PathsStayApart ==
    ASSUME InodesInv, [Next]_vars
    PROVE  PathsApart'
<1> USE DEF InodesInv
<1>1. CASE Untouched
  BY <1>1 DEF Untouched, PathsApart
<1>2. ASSUME NEW t \in Threads, CreateFile(t) PROVE PathsApart'
  <2>1. disk'[file[t]] = fd'[t] /\ \A f \in Files \ {file[t]} : disk'[f] = disk[f]
    BY <1>2, Created DEF TypeOK
  <2>2. \A f \in Files \ {file[t]} : disk[f] # fd'[t]
    <3>1. CASE disk[file[t]] = NoInode
      BY <1>2, <3>1, Created DEF FreeInodes
    <3>2. CASE disk[file[t]] # NoInode
      BY <1>2, <3>2, Created DEF PathsApart
    <3> QED BY <3>1, <3>2
  <2>3. \A f, g \in Files : disk'[f] = disk'[g] /\ disk'[f] # NoInode => f = g
    BY <2>1, <2>2 DEF PathsApart
  <2>4. ASSUME NEW u \in Threads, NEW f \in Files, InWrite(u)', disk'[f] = fd'[u]
        PROVE  f = file'[u]
    <3>1. CASE u = t
      BY <1>2, <2>1, <2>2, <2>4, <3>1, Created
    <3>2. CASE u # t
      <4>1. InWrite(u) /\ fd'[u] = fd[u] /\ file' = file
        BY <1>2, <2>4, <3>2, Created DEF InWrite, TypeOK
      <4>2. fd[u] \in Inodes
        BY <4>1 DEF InWrite, LocalOK
      <4>3. CASE f = file[t] /\ disk[f] = NoInode
        BY <1>2, <2>1, <2>4, <4>1, <4>3, Created DEF FreeInodes
      <4>4. CASE f = file[t] /\ disk[f] # NoInode
        BY <1>2, <2>1, <2>4, <4>1, <4>4, Created DEF PathsApart
      <4>5. CASE f # file[t]
        BY <2>1, <2>4, <4>1, <4>5 DEF PathsApart
      <4> QED BY <4>3, <4>4, <4>5
    <3> QED BY <3>1, <3>2
  <2> QED BY <2>3, <2>4 DEF PathsApart
<1>3. ASSUME NEW t \in Threads,
             AbortWrite(t) \/ Unlink(t) \/ WriteChunks(t) \/ InsertInQueue(t)
                 \/ RemoveFromQueue(t)
      PROVE  PathsApart'
  <2>1. \A f \in Files : disk'[f] = disk[f] \/ disk'[f] = NoInode
    BY <1>3 DEF AbortWrite, Unlink, WriteChunks, InsertInQueue, RemoveFromQueue, Unlinked,
                TypeOK
  <2>2. \A u \in Threads : InWrite(u)' => InWrite(u) /\ fd'[u] = fd[u] /\ file'[u] = file[u]
    BY <1>3 DEF AbortWrite, Unlink, WriteChunks, InsertInQueue, RemoveFromQueue, Goto,
                ReturnFromRemove, InWrite, TypeOK
  <2>3. \A u \in Threads : InWrite(u) => fd[u] # NoInode
    BY ThreadsAssumption DEF InWrite, LocalOK
  <2> QED BY <2>1, <2>2, <2>3 DEF PathsApart
<1>4. CASE LoseMemory
  BY <1>4, AfterCrash DEF PathsApart
<1>5. CASE Recover
  BY <1>5 DEF Recover, threadVars, PathsApart, InWrite
<1> QED BY <1>1, <1>2, <1>3, <1>4, <1>5, StepKinds DEF Touches

LEMMA InodesInvariant == Spec => []InodesInv
<1>1. Init => InodesInv
  BY LocalInit DEF Init, InodesInv, PathsApart, InWrite, BlankPc
<1>2. InodesInv /\ [Next]_vars => InodesInv'
  BY LocalStep, PathsStayApart DEF InodesInv
<1> QED BY <1>1, <1>2, PTL DEF Spec

(* A file that is whole, or has a writer, is so after every step. *)
LEMMA HalfFileStep ==
    ASSUME InodesInv, [Next]_vars, up', NEW f \in Files, WholeOrBeingWritten(f)
    PROVE  WholeOrBeingWritten(f)'
<1> USE DEF InodesInv
<1> SUFFICES ASSUME disk'[f] \in Inodes \ complete'
             PROVE  \E u \in Threads : fd'[u] = disk'[f] /\ InWrite(u)'
  BY DEF WholeOrBeingWritten, InWrite
<1>1. disk[f] \in Inodes \ complete => \E u \in Threads : fd[u] = disk[f] /\ InWrite(u)
  BY DEF WholeOrBeingWritten, InWrite
<1>2. CASE Untouched
  BY <1>1, <1>2 DEF Untouched
<1>3. ASSUME NEW t \in Threads, CreateFile(t)
      PROVE  \E u \in Threads : fd'[u] = disk'[f] /\ InWrite(u)'
  <2>1. /\ disk \in [Files -> Inodes \cup {NoInode}] /\ pc \in [Threads -> LabelSet]
        /\ file[t] \in Files
        /\ disk' = [disk EXCEPT ![file[t]] = fd'[t]]
        /\ complete' = complete \ {fd'[t]}
        /\ pc' = [pc EXCEPT ![t] = "wlock"]
    BY <1>3, Created DEF TypeOK
  <2>2. fd'[t] = disk'[file[t]] /\ InWrite(t)'
    BY <2>1 DEF InWrite
  <2>3. CASE f = file[t] \/ disk'[f] = fd'[t]
    BY <2>2, <2>3
  <2>4. CASE f # file[t] /\ disk'[f] # fd'[t]
    <3>1. disk'[f] = disk[f] /\ disk[f] \notin complete
      BY <2>1, <2>4
    <3>2. PICK u \in Threads : fd[u] = disk[f] /\ InWrite(u)
      BY <1>1, <3>1
    <3>3. u # t
      BY <1>3, <3>2, Created DEF InWrite
    <3>4. fd'[u] = fd[u] /\ InWrite(u)'
      BY <1>3, <3>2, <3>3, Created DEF InWrite, TypeOK
    <3> QED BY <3>1, <3>2, <3>4
  <2> QED BY <2>3, <2>4
<1>4. ASSUME NEW t \in Threads, WriteChunks(t)
      PROVE  \E u \in Threads : fd'[u] = disk'[f] /\ InWrite(u)'
  <2>1. disk[f] \notin complete /\ disk' = disk
    BY <1>4 DEF WriteChunks
  <2>2. disk[f] # fd[t]
    BY <1>4, <2>1 DEF WriteChunks, PathsApart, InWrite
  <2>3. PICK u \in Threads : fd[u] = disk[f] /\ InWrite(u)
    BY <1>1, <2>1
  <2>4. u # t
    BY <2>2, <2>3
  <2>5. fd'[u] = fd[u] /\ InWrite(u)'
    BY <1>4, <2>3, <2>4 DEF WriteChunks, Goto, InWrite, TypeOK
  <2> QED BY <2>1, <2>3, <2>5
<1>5. ASSUME NEW t \in Threads, AbortWrite(t)
      PROVE  \E u \in Threads : fd'[u] = disk'[f] /\ InWrite(u)'
  <2>1. f # file[t] /\ disk'[f] = disk[f] /\ disk[f] \notin complete
    BY <1>5, ThreadsAssumption DEF AbortWrite, Unlinked, WholeOnDisk, TypeOK
  <2>2. PICK u \in Threads : fd[u] = disk[f] /\ InWrite(u)
    BY <1>1, <2>1
  <2>3. u # t
    BY <2>1, <2>2 DEF PathsApart
  <2>4. fd'[u] = fd[u] /\ InWrite(u)'
    BY <1>5, <2>2, <2>3 DEF AbortWrite, Goto, InWrite, TypeOK
  <2> QED BY <2>1, <2>2, <2>4
<1>6. ASSUME NEW t \in Threads, InsertInQueue(t) \/ Unlink(t) \/ RemoveFromQueue(t)
      PROVE  \E u \in Threads : fd'[u] = disk'[f] /\ InWrite(u)'
  <2>1. disk'[f] = disk[f] /\ disk[f] \notin complete
    BY <1>6, ThreadsAssumption DEF InsertInQueue, Unlink, RemoveFromQueue, Unlinked,
                                   WholeOnDisk, TypeOK
  <2>2. PICK u \in Threads : fd[u] = disk[f] /\ InWrite(u)
    BY <1>1, <2>1
  <2>3. fd'[u] = fd[u] /\ InWrite(u)'
    BY <1>6, <2>2 DEF InsertInQueue, Unlink, RemoveFromQueue, Goto, ReturnFromRemove,
                      InWrite, TypeOK
  <2> QED BY <2>1, <2>2, <2>3
<1>7. CASE Recover
  BY <1>1, <1>7 DEF Recover, threadVars, InWrite
<1> QED BY <1>2, <1>3, <1>4, <1>5, <1>6, <1>7, StepKinds, AfterCrash DEF Touches

(* InsertFileInCache leaves no half file behind, whoever else inserts or   *)
(* removes the file, and whether its stream ends well or not: only a crash *)
(* does.                                                                   *)
THEOREM WritersNeverLeaveHalfFile == Spec => WritersLeaveNoHalfFile
<1>1. InodesInv /\ [Next]_vars
        => [\A f \in Files : up' /\ WholeOrBeingWritten(f) => WholeOrBeingWritten(f)']_vars
  BY HalfFileStep
<1> QED BY <1>1, InodesInvariant, PTL DEF Spec, WritersLeaveNoHalfFile

-----------------------------------------------------------------------------
(* One insertion at a time. *)

(* fileInsertionMutex belongs to the insertion under way, whose steps are  *)
(* these ...                                                               *)
LEMMA InsertStepLocked ==
    ASSUME TypeOK, LocalOK, InsertionLocked,
           NEW t \in Threads, InsertStep(t)
    PROVE  InsertionLocked'
<1> USE ThreadsAssumption DEF TypeOK, LocalOK, InsertionLocked, InsertLabels,
        Goto, Finish, UnlockInsertion
<1>1. CASE LockInsertion(t)
  BY <1>1 DEF LockInsertion
<1>2. CASE MeasureSpace(t)
  BY <1>2 DEF MeasureSpace
<1>3. CASE ChooseVictims(t)
  <2>1. CASE cached = {}
    <3>1. Finish(t) /\ insMutex' = NoThread /\ pc[t] = "evict"
      BY <1>3, <2>1 DEF ChooseVictims
    <3> QED BY <3>1
  <2>2. CASE cached # {}
    <3>1. \E l \in {"create", "evictNext"} : pc' = [pc EXCEPT ![t] = l]
      BY <1>3, <2>2 DEF ChooseVictims
    <3>2. UNCHANGED <<op, insMutex>> /\ pc[t] = "evict"
      BY <1>3, <2>2 DEF ChooseVictims
    <3> QED BY <3>1, <3>2
  <2> QED BY <2>1, <2>2
<1>4. CASE NextVictim(t)
  BY <1>4 DEF NextVictim
<1>5. CASE NothingToWrite(t)
  BY <1>5 DEF NothingToWrite
<1>6. CASE CreateFile(t)
  BY <1>6 DEF CreateFile
<1>7. CASE LockForWrite(t)
  BY <1>7 DEF LockForWrite
<1>8. CASE WriteChunks(t)
  BY <1>8 DEF WriteChunks
<1>9. CASE DropSharedLock(t)
  BY <1>9 DEF DropSharedLock
<1>10. CASE CloseWritten(t)
  BY <1>10 DEF CloseWritten
<1>11. CASE CloseAborted(t)
  BY <1>11 DEF CloseAborted
<1>12. CASE InsertInQueue(t)
  BY <1>12 DEF InsertInQueue
<1>13. CASE AbortWrite(t)
  BY <1>13 DEF AbortWrite
<1> QED
  BY <1>1, <1>2, <1>3, <1>4, <1>5, <1>6, <1>7, <1>8, <1>9, <1>10, <1>11, <1>12, <1>13
     DEF InsertStep

(* ... and no other step takes it away. *)
LEMMA OtherStepLocked ==
    ASSUME TypeOK, LocalOK, InsertionLocked, NEW t \in Threads,
           RemoveStep(t) \/ ReadStep(t) \/ Start(t), ~IndexPanic(t)
    PROVE  InsertionLocked'
<1> USE ThreadsAssumption DEF TypeOK, LocalOK, InsertionLocked, RemoveLabels,
        Goto, Finish
<1>1. CASE ScanNext(t)
  BY <1>1 DEF ScanNext
<1>2. CASE EndScan(t)
  BY <1>2 DEF EndScan
<1>3. CASE OpenToRemove(t)
  <2>1. pc[t] = "open" /\ UNCHANGED insMutex
    BY <1>3 DEF OpenToRemove
  <2>2. CASE Goto(t, "flock") /\ UNCHANGED op
    BY <2>1, <2>2
  <2>3. CASE ReturnFromRemove(t)
    <3>1. /\ \E l \in {"idle", "evictNext", "scan"} : pc' = [pc EXCEPT ![t] = l]
          /\ \E o \in {"none", op[t]} : op' = [op EXCEPT ![t] = o]
      BY <2>3 DEF ReturnFromRemove
    <3> QED BY <2>1, <3>1
  <2> QED BY <1>3, <2>2, <2>3 DEF OpenToRemove
<1>4. CASE LockToRemove(t)
  BY <1>4 DEF LockToRemove
<1>5. CASE Unlink(t)
  BY <1>5 DEF Unlink, ReturnFromRemove
<1>6. CASE RemoveFromQueue(t)
  <2>1. pc[t] = "dequeue" /\ ReturnFromRemove(t) /\ UNCHANGED insMutex
    BY <1>6 DEF RemoveFromQueue
  <2>2. /\ \E l \in {"idle", "evictNext", "scan"} : pc' = [pc EXCEPT ![t] = l]
        /\ \E o \in {"none", op[t]} : op' = [op EXCEPT ![t] = o]
    BY <2>1 DEF ReturnFromRemove
  <2> QED BY <2>1, <2>2
<1>7. CASE ReadStep(t)
  <2>1. pc[t] \in {"hit", "rdOpen", "rdRead"} /\ UNCHANGED insMutex
    BY <1>7 DEF ReadStep, IncrementPopularity, OpenToRead, ReadToEnd
  <2>2. op[t] \in {"delete", "read"}
    BY <2>1
  <2>3. op'[t] # "insert"
    <3>1. CASE IncrementPopularity(t)
      BY <2>2, <3>1 DEF IncrementPopularity
    <3>2. CASE OpenToRead(t) \/ ReadToEnd(t)
      BY <2>2, <3>2 DEF OpenToRead, ReadToEnd
    <3> QED BY <1>7, <3>1, <3>2 DEF ReadStep
  <2>4. \A u \in Threads \ {t} : pc'[u] = pc[u] /\ op'[u] = op[u]
    BY <1>7 DEF ReadStep, IncrementPopularity, OpenToRead, ReadToEnd
  <2> QED BY <2>1, <2>3, <2>4
<1>8. CASE StartClean(t)
  BY <1>8 DEF StartClean
<1>9. ASSUME NEW f \in Files, StartInsert(t, f) \/ StartDelete(t, f) \/ StartRead(t, f)
      PROVE  InsertionLocked'
  <2>1. CASE StartInsert(t, f)
    BY <2>1 DEF StartInsert
  <2>2. CASE StartDelete(t, f) \/ StartRead(t, f)
    <3>1. /\ pc' = [pc EXCEPT ![t] = "hit"] /\ UNCHANGED insMutex
          /\ \E o \in {"delete", "read"} : op' = [op EXCEPT ![t] = o]
      BY <2>2 DEF StartDelete, StartRead
    <3> QED BY <3>1
  <2> QED BY <1>9, <2>1, <2>2
<1> QED
  BY <1>1, <1>2, <1>3, <1>4, <1>5, <1>6, <1>7, <1>8, <1>9 DEF RemoveStep, Start

LEMMA InsertionLockedStep ==
    ASSUME TypeOK, LocalOK, InsertionLocked, [Next]_vars
    PROVE  InsertionLocked'
<1>1. ASSUME NEW t \in Threads, InsertStep(t)
      PROVE  InsertionLocked'
  BY <1>1, InsertStepLocked
<1>2. ASSUME NEW t \in Threads, RemoveStep(t) \/ ReadStep(t) \/ Start(t), ~IndexPanic(t)
      PROVE  InsertionLocked'
  BY <1>2, OtherStepLocked
<1>3. CASE LoseMemory
  BY <1>3, AfterCrash DEF InsertionLocked
<1>4. CASE Recover \/ UNCHANGED vars
  BY <1>4 DEF Recover, vars, threadVars, InsertionLocked
<1> QED BY <1>1, <1>2, <1>3, <1>4 DEF Next, Step, IndexPanic, Crash

-----------------------------------------------------------------------------
(* The entries of the cache and the files on disk.                         *)

(* Between os.Create and the entry in the queue there is one goroutine at  *)
(* most, and none while another is about to create its file.               *)
LEMMA OneWriter ==
    ASSUME CacheInv, NEW t \in Threads, NEW u \in Threads, NEW g \in Files, Writing(u, g),
           op[t] = "insert", pc[t] # "insLock"
    PROVE  u = t
<1>1. op[u] = "insert" /\ pc[u] # "insLock"
  BY DEF CacheInv, LocalOK, InsertLabels, Writing
<1> QED BY <1>1 DEF CacheInv, InsertionLocked

(* A file created over no entry has none, and no remover. *)
LEMMA CreateFileFiles ==
    ASSUME CacheInv, NEW t \in Threads, CreateFile(t)
    PROVE  FilesOK'
<1> DEFINE f == file[t]
<1>1. /\ disk \in [Files -> Inodes \cup {NoInode}] /\ pc \in [Threads -> LabelSet]
      /\ f \in Files /\ fd'[t] # NoInode
      /\ disk' = [disk EXCEPT ![f] = fd'[t]]
      /\ crossed' = IF HasEntry(f) THEN crossed \cup {f} ELSE crossed \ {f}
      /\ pc' = [pc EXCEPT ![t] = "wlock"] /\ pc[t] = "create" /\ op[t] = "insert"
      /\ UNCHANGED <<up, cached, file, target>>
  BY Created, ThreadsAssumption DEF CacheInv, TypeOK
<1>2. \A u \in Threads : \A g \in Files : ~Writing(u, g)
  BY <1>1, OneWriter DEF Writing
<1>3. /\ \A u \in Threads : \A g \in Files : Removing(u, g)' <=> Removing(u, g)
      /\ \A u \in Threads : \A g \in Files : Writing(u, g)' => u = t /\ g = f
      /\ Writing(t, f)'
  BY <1>1, <1>2 DEF Removing, Writing
<1>4. f \notin crossed' => f \notin cached /\ \A u \in Threads : ~Removing(u, f)
  BY <1>1 DEF HasEntry
<1>5. \A g \in Files \ {f} : (g \in crossed' <=> g \in crossed) /\ disk'[g] = disk[g]
  BY <1>1
<1>6. disk'[f] # NoInode
  BY <1>1
<1>7. WrittenIsNew'
  BY <1>1, <1>3, <1>4 DEF WrittenIsNew
<1>8. UnlinkedIsRemoved'
  <2> SUFFICES ASSUME NEW g \in Files \ crossed', disk'[g] = NoInode,
                      g \in cached' \/ \E u \in Threads : Writing(u, g)'
               PROVE  \E u \in Threads : Removing(u, g)'
    BY DEF UnlinkedIsRemoved
  <2>1. g # f
    BY <1>6
  <2>2. g \in cached /\ g \notin crossed /\ disk[g] = NoInode
    BY <1>1, <1>3, <1>5, <2>1
  <2> QED BY <1>3, <2>2 DEF CacheInv, FilesOK, UnlinkedIsRemoved
<1>9. NoOrphan'
  <2> SUFFICES ASSUME up', NEW g \in Files \ crossed', disk'[g] # NoInode, g \notin cached'
               PROVE  \E u \in Threads : Writing(u, g)'
    BY DEF NoOrphan
  <2>1. CASE g = f
    <3>1. file'[t] = g /\ pc'[t] = "wlock"
      BY <1>1, <2>1 DEF CacheInv, TypeOK
    <3> QED BY <3>1 DEF Writing
  <2>2. CASE g # f
    <3>1. up /\ disk[g] # NoInode /\ g \notin cached /\ g \notin crossed
      BY <1>1, <1>5, <2>2
    <3> QED BY <1>2, <3>1 DEF CacheInv, FilesOK, NoOrphan
  <2> QED BY <2>1, <2>2
<1>10. RemovedOnce'
  <2> SUFFICES ASSUME NEW u \in Threads, NEW g \in Files \ crossed', Removing(u, g)'
               PROVE  /\ disk'[g] = NoInode
                      /\ \A v \in Threads : Removing(v, g)' => v = u
    BY DEF RemovedOnce
  <2>1. Removing(u, g) /\ g # f
    BY <1>3, <1>4
  <2>2. g \notin crossed /\ disk'[g] = disk[g]
    BY <1>5, <2>1
  <2> QED BY <1>3, <2>1, <2>2 DEF CacheInv, FilesOK, RemovedOnce
<1> QED BY <1>7, <1>8, <1>9, <1>10 DEF FilesOK

(* The file whose write is aborted has no entry, and had this writer only. *)
LEMMA AbortWriteFiles ==
    ASSUME CacheInv, NEW t \in Threads, AbortWrite(t)
    PROVE  FilesOK'
<1> DEFINE f == file[t]
<1>1. /\ disk \in [Files -> Inodes \cup {NoInode}] /\ pc \in [Threads -> LabelSet]
      /\ f \in Files /\ pc[t] = "write" /\ op[t] = "insert"
      /\ disk' = [disk EXCEPT ![f] = NoInode]
      /\ pc' = [pc EXCEPT ![t] = "aunlock"]
      /\ UNCHANGED <<up, cached, crossed, file, target>>
  BY DEF AbortWrite, Goto, CacheInv, TypeOK, LocalOK, InsertLabels
<1>2. \A u \in Threads : \A g \in Files : Writing(u, g) <=> u = t /\ g = f
  BY <1>1, OneWriter DEF Writing
<1>3. /\ \A u \in Threads : \A g \in Files : Removing(u, g)' <=> Removing(u, g)
      /\ \A u \in Threads : \A g \in Files : ~Writing(u, g)'
  BY <1>1, <1>2 DEF Removing, Writing
<1>4. f \in cached => f \in crossed
  BY <1>1, <1>2 DEF CacheInv, FilesOK, WrittenIsNew
<1>5. \A g \in Files : disk'[g] = IF g = f THEN NoInode ELSE disk[g]
  BY <1>1
<1>6. WrittenIsNew'
  BY <1>3 DEF WrittenIsNew
<1>7. UnlinkedIsRemoved'
  BY <1>1, <1>3, <1>4, <1>5 DEF CacheInv, FilesOK, UnlinkedIsRemoved
<1>8. NoOrphan'
  BY <1>1, <1>2, <1>5 DEF CacheInv, FilesOK, NoOrphan
<1>9. RemovedOnce'
  BY <1>1, <1>3, <1>5 DEF CacheInv, FilesOK, RemovedOnce
<1> QED BY <1>6, <1>7, <1>8, <1>9 DEF FilesOK

(* The new entry is there for the path, or for the remover of the path. *)
LEMMA InsertInQueueFiles ==
    ASSUME CacheInv, NEW t \in Threads, InsertInQueue(t)
    PROVE  FilesOK'
<1> DEFINE f == file[t]
<1>1. /\ pc' = [pc EXCEPT ![t] = "idle"] /\ pc[t] = "enqueue" /\ op[t] = "insert"
      /\ file' = [file EXCEPT ![t] = NoFile]
      /\ cached' = cached \cup {f} /\ f \in Files
      /\ UNCHANGED <<up, disk, crossed, target>>
      /\ pc \in [Threads -> LabelSet] /\ file \in [Threads -> Files \cup {NoFile}]
  BY DEF InsertInQueue, Goto, CacheInv, LocalOK, InsertLabels, TypeOK
<1>2. \A u \in Threads : \A g \in Files : Writing(u, g) <=> u = t /\ g = f
  BY <1>1, OneWriter DEF Writing
<1>3. /\ \A u \in Threads : \A g \in Files : Removing(u, g)' <=> Removing(u, g)
      /\ \A u \in Threads : \A g \in Files : ~Writing(u, g)'
  BY <1>1, <1>2 DEF Removing, Writing
<1>4. WrittenIsNew'
  BY <1>3 DEF WrittenIsNew
<1>5. UnlinkedIsRemoved'
  BY <1>1, <1>2, <1>3 DEF CacheInv, FilesOK, UnlinkedIsRemoved
<1>6. NoOrphan'
  BY <1>1, <1>2 DEF CacheInv, FilesOK, NoOrphan
<1>7. RemovedOnce'
  BY <1>1, <1>3 DEF CacheInv, FilesOK, RemovedOnce
<1> QED BY <1>4, <1>5, <1>6, <1>7 DEF FilesOK

(* The first to unlink a path is the only one. *)
LEMMA UnlinkFiles ==
    ASSUME CacheInv, NEW t \in Threads, Unlink(t)
    PROVE  FilesOK'
<1> DEFINE f == target[t]
<1>1. /\ pc[t] = "unlink" /\ f \in Files
      /\ disk \in [Files -> Inodes \cup {NoInode}] /\ pc \in [Threads -> LabelSet]
      /\ target \in [Threads -> Files \cup {NoFile}]
      /\ UNCHANGED <<up, cached, crossed, file>>
  BY DEF Unlink, ReturnFromRemove, CacheInv, LocalOK, RemoveLabels, TypeOK
<1>2. \A u \in Threads : \A g \in Files : Writing(u, g)' <=> Writing(u, g)
  BY <1>1 DEF Unlink, Goto, ReturnFromRemove, Writing
<1>3. WrittenIsNew'
  BY <1>1, <1>2 DEF CacheInv, FilesOK, WrittenIsNew
<1>4. CASE disk[f] # NoInode
  <2>1. /\ disk' = [disk EXCEPT ![f] = NoInode] /\ pc' = [pc EXCEPT ![t] = "dequeue"]
        /\ target' = target
    BY <1>4 DEF Unlink, Goto
  <2>2. \A u \in Threads : \A g \in Files :
            Removing(u, g)' <=> Removing(u, g) \/ (u = t /\ g = f)
    BY <1>1, <2>1 DEF Removing
  <2>3. f \notin crossed => \A u \in Threads : ~Removing(u, f)
    BY <1>1, <1>4 DEF CacheInv, FilesOK, RemovedOnce
  <2>4. \A g \in Files : disk'[g] = IF g = f THEN NoInode ELSE disk[g]
    BY <1>1, <2>1
  <2>5. UnlinkedIsRemoved'
    BY <1>1, <1>2, <2>2, <2>4 DEF CacheInv, FilesOK, UnlinkedIsRemoved
  <2>6. NoOrphan'
    BY <1>1, <1>2, <2>4 DEF CacheInv, FilesOK, NoOrphan
  <2>7. RemovedOnce'
    BY <1>1, <2>2, <2>3, <2>4 DEF CacheInv, FilesOK, RemovedOnce
  <2> QED BY <1>3, <2>5, <2>6, <2>7 DEF FilesOK
<1>5. CASE disk[f] = NoInode
  <2>1. disk' = disk /\ ReturnFromRemove(t)
    BY <1>5 DEF Unlink
  <2>2. \A u \in Threads : \A g \in Files : Removing(u, g)' <=> Removing(u, g)
    BY <1>1, <2>1 DEF Removing, ReturnFromRemove
  <2>3. UnlinkedIsRemoved'
    BY <1>1, <1>2, <2>1, <2>2 DEF CacheInv, FilesOK, UnlinkedIsRemoved
  <2>4. NoOrphan'
    BY <1>1, <1>2, <2>1 DEF CacheInv, FilesOK, NoOrphan
  <2>5. RemovedOnce'
    BY <1>1, <2>1, <2>2 DEF CacheInv, FilesOK, RemovedOnce
  <2> QED BY <1>3, <2>3, <2>4, <2>5 DEF FilesOK
<1> QED BY <1>4, <1>5

(* The path of the entry that goes is missing, and no insertion writes it. *)
LEMMA RemoveFromQueueFiles ==
    ASSUME CacheInv, NEW t \in Threads, RemoveFromQueue(t)
    PROVE  FilesOK'
<1> DEFINE f == target[t]
<1>1. /\ pc[t] = "dequeue" /\ f \in Files /\ f \in cached
      /\ cached' = cached \ {f}
      /\ ReturnFromRemove(t)
      /\ UNCHANGED <<up, disk, crossed, file>>
      /\ pc \in [Threads -> LabelSet] /\ target \in [Threads -> Files \cup {NoFile}]
  BY DEF RemoveFromQueue, ReturnFromRemove, CacheInv, LocalOK, RemoveLabels, TypeOK
<1>2. /\ \A u \in Threads : \A g \in Files : Writing(u, g)' <=> Writing(u, g)
      /\ \A u \in Threads : \A g \in Files :
            Removing(u, g)' <=> Removing(u, g) /\ u # t
      /\ \A g \in Files : Removing(t, g) <=> g = f
  BY <1>1 DEF Writing, Removing, ReturnFromRemove
<1>3. f \notin crossed => disk[f] = NoInode /\ \A u \in Threads : ~Writing(u, f)
  BY <1>1, <1>2 DEF CacheInv, FilesOK, RemovedOnce, WrittenIsNew
<1>4. WrittenIsNew'
  BY <1>1, <1>2 DEF CacheInv, FilesOK, WrittenIsNew
<1>5. UnlinkedIsRemoved'
  <2> SUFFICES ASSUME NEW g \in Files \ crossed, disk[g] = NoInode,
                      g \in cached' \/ \E u \in Threads : Writing(u, g)
               PROVE  \E u \in Threads : Removing(u, g)'
    BY <1>1, <1>2 DEF UnlinkedIsRemoved
  <2>1. g # f /\ (g \in cached \/ \E u \in Threads : Writing(u, g))
    BY <1>1, <1>3
  <2>2. PICK u \in Threads : Removing(u, g)
    BY <2>1 DEF CacheInv, FilesOK, UnlinkedIsRemoved
  <2> QED BY <1>2, <2>1, <2>2
<1>6. NoOrphan'
  BY <1>1, <1>2, <1>3 DEF CacheInv, FilesOK, NoOrphan
<1>7. RemovedOnce'
  BY <1>1, <1>2 DEF CacheInv, FilesOK, RemovedOnce
<1> QED BY <1>4, <1>5, <1>6, <1>7 DEF FilesOK

(* A step that leaves the entries, the paths, the writers and the removers *)
(* as they are.                                                            *)
LEMMA SameFiles ==
    ASSUME FilesOK, UNCHANGED <<up, cached, disk, crossed>>,
           \A t \in Threads : \A f \in Files :
                (Writing(t, f)' <=> Writing(t, f)) /\ (Removing(t, f)' <=> Removing(t, f))
    PROVE  FilesOK'
<1>1. WrittenIsNew'
  BY DEF FilesOK, WrittenIsNew
<1>2. UnlinkedIsRemoved'
  BY DEF FilesOK, UnlinkedIsRemoved
<1>3. NoOrphan'
  BY DEF FilesOK, NoOrphan
<1>4. RemovedOnce'
  BY DEF FilesOK, RemovedOnce
<1> QED BY <1>1, <1>2, <1>3, <1>4 DEF FilesOK

LEMMA FilesStep ==
    ASSUME CacheInv, [Next]_vars
    PROVE  FilesOK'
<1>1. CASE Untouched
  BY <1>1, SameFiles DEF Untouched, CacheInv
<1>2. ASSUME NEW t \in Threads, WriteChunks(t)
      PROVE  FilesOK'
  <2>1. /\ UNCHANGED <<up, cached, disk, crossed>>
        /\ \A u \in Threads : \A f \in Files :
            (Writing(u, f)' <=> Writing(u, f)) /\ (Removing(u, f)' <=> Removing(u, f))
    BY <1>2 DEF WriteChunks, Goto, Writing, Removing, CacheInv, TypeOK
  <2> QED BY <2>1, SameFiles DEF CacheInv
<1>3. ASSUME LoseMemory
      PROVE  FilesOK'
  <2>1. /\ ~up' /\ cached' = {}
        /\ \A t \in Threads : \A f \in Files : ~Writing(t, f)' /\ ~Removing(t, f)'
    BY <1>3, AfterCrash
  <2> QED BY <2>1 DEF FilesOK, WrittenIsNew, UnlinkedIsRemoved, NoOrphan, RemovedOnce
<1>4. ASSUME Recover
      PROVE  FilesOK'
  <2>1. /\ cached' = {f \in Files : disk[f] # NoInode}
        /\ disk' = disk /\ pc' = pc
        /\ \A t \in Threads : pc[t] = "idle"
    BY <1>4 DEF Recover, threadVars, CacheInv, LocalOK
  <2>2. \A t \in Threads : \A f \in Files : ~Writing(t, f)' /\ ~Removing(t, f)'
    BY <2>1 DEF Writing, Removing
  <2> QED
    BY <2>1, <2>2 DEF FilesOK, WrittenIsNew, UnlinkedIsRemoved, NoOrphan, RemovedOnce
<1> QED
  BY <1>1, <1>2, <1>3, <1>4, StepKinds, CreateFileFiles, AbortWriteFiles,
     InsertInQueueFiles, UnlinkFiles, RemoveFromQueueFiles DEF Touches, CacheInv

(* Entries and files agree, through overlapping insertions of one file,    *)
(* removals, aborted writes and crashes, but for files created over their  *)
(* entry: the inductive invariant of the cache.                            *)
THEOREM CacheInvariant == Spec => []CacheInv
<1>1. Init => CacheInv
  BY LocalInit DEF Init, CacheInv, FilesOK, InsertionLocked, WrittenIsNew,
     UnlinkedIsRemoved, NoOrphan, RemovedOnce, Writing, Removing, BlankPc, BlankOp
<1>2. CacheInv /\ [Next]_vars => CacheInv'
  BY LocalStep, InsertionLockedStep, FilesStep DEF CacheInv
<1> QED BY <1>1, <1>2, PTL DEF Spec

(* RemoveFileFromCache and InsertFileInCache, with any number of inserters *)
(* and aborted writes, leave no entry without its file, except between the *)
(* unlink (cache.go:143) and the removal of the entry (cache.go:148), and  *)
(* except an entry over which the file was created.                        *)
THEOREM NoGhostAlways == Spec => []NoGhost
<1>1. CacheInv => NoGhost
  BY DEF CacheInv, FilesOK, UnlinkedIsRemoved, NoGhost, TypeOK
<1> QED BY CacheInvariant, <1>1, PTL

(* Every file on disk has an entry or a writer, whatever the capacity, the *)
(* evictions and the aborted writes, but for those created over an entry   *)
(* or under a goroutine about to remove it.                                *)
THEOREM NoOrphanAlways == Spec => []NoOrphan
<1>1. CacheInv => NoOrphan
  BY DEF CacheInv, FilesOK
<1> QED BY CacheInvariant, <1>1, PTL
=============================================================================
