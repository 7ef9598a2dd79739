------------------------- MODULE StreamRedirection --------------------------
(***************************************************************************)
(* One transfer of a file through an edge node: an upload, or a download   *)
(* served by S3, by another edge node or by the local cache.  A producer   *)
(* reads the chunks where they come from and redirects them on two         *)
(* channels: the main one, to S3 or to the client, and the one to the      *)
(* cache.  The goroutine at the other end of each tells the producer how   *)
(* it went on a return channel.                                            *)
(*                                                                         *)
(*   kind      producer                consumer of the main channel        *)
(*   upload    doUpload (handler)      SendToS3                            *)
(*   edge      downloadFromOtherEdge   redirectStreamToClient (handler)    *)
(*   s3        SendFromS3              redirectStreamToClient (handler)    *)
(*   local     readFromLocalCache      redirectStreamToClient (handler)    *)
(*                                                                         *)
(* A chunk is its position in the file.  S3 and the file system cut the    *)
(* bytes as they like; the model keeps the chunks of CHUNK_SIZE, or        *)
(* S3_DOWNLOAD_CHUNK_SIZE, that travel on the channels.                    *)
(***************************************************************************)
EXTENDS Integers, Sequences

CONSTANTS
    Kinds,          \* kinds of transfer
    Lengths,        \* chunks a file may have
    ChannelSize,    \* UPLOAD_CHANNEL_SIZE, DOWNLOAD_CHANNEL_SIZE
    CacheLimit,     \* MAX_CACHABLE_FILE_SIZE, in chunks
    Faults          \* who may fail: "source", "sink", "cache"

AllKinds == {"upload", "edge", "s3", "local"}

ASSUME KindsAssumption == Kinds \subseteq AllKinds /\ Lengths \subseteq Nat
ASSUME SizesAssumption == ChannelSize \in Nat \ {0} /\ CacheLimit \in Nat
ASSUME FaultsAssumption == Faults \subseteq {"source", "sink", "cache"}

VARIABLES
    kind, length,   \* the transfer, and the chunks of its file
    toCache,        \* isFileCacheable, as the handler found it
    queue, closed,  \* MessageChannel of the main channel and of the cache
    ret, retClosed, \* ReturnChannel of each; only the main one is closed
    producer,       \* next step of the producer
    opened,         \* it has something to read from
    hand,           \* last chunk it has read
    offering,       \* isFileCacheable, as the producer has it
    mainFailed,     \* mainChannelError # nil
    sourceFailed,   \* grpcError # nil
    consumer,       \* next step of the consumer of the main channel
    holding,        \* message it has taken
    received,       \* chunks that reached S3 or the client
    writer,         \* the goroutine of InsertFileInCache
    written,        \* chunks in the file it writes
    reply           \* what the handler answered

request == <<kind, length, toCache>>
channels == <<queue, closed, ret, retClosed>>
producerVars == <<producer, opened, hand, offering, mainFailed, sourceFailed>>
consumerVars == <<consumer, holding, received>>
writerVars == <<writer, written>>
vars == <<request, channels, producerVars, consumerVars, writerVars, reply>>

Dests == {"main", "cache"}
Err == 0            \* a Message with an error
Whole == [i \in 1..length |-> i]

TypeOK ==
    /\ kind \in Kinds /\ length \in Lengths /\ toCache \in BOOLEAN
    /\ queue \in [Dests -> Seq(Nat)]
    /\ closed \in [Dests -> BOOLEAN]
    /\ ret \in [Dests -> Seq({"ok", "failed"})]
    /\ retClosed \in BOOLEAN
    /\ producer \in {"open", "poll", "recv", "toMain", "toCache", "errToMain",
                     "errToCache", "close", "await", "done", "panic"}
    /\ opened \in BOOLEAN /\ offering \in BOOLEAN
    /\ hand \in 0..length
    /\ mainFailed \in BOOLEAN /\ sourceFailed \in BOOLEAN
    /\ consumer \in {"recv", "send", "succeeded", "failed"}
    /\ holding \in Nat
    /\ received \in Seq(Nat)
    /\ writer \in {"absent", "waiting", "reading", "kept", "dropped"}
    /\ written \in Seq(Nat)
    /\ reply \in {"none", "ok", "failed"}

(* IsFileCacheable.  Variant: one chunk too many. *)
IsLargerFileCacheable(n) == n > 0 /\ n <= CacheLimit + 1
IsFileCacheable(n) == n > 0 /\ n <= CacheLimit

(* The size of a file may be unknown: it is then not cached. *)
Init ==
    /\ kind \in Kinds
    /\ length \in Lengths
    /\ toCache \in {FALSE, kind # "local" /\ IsFileCacheable(length)}
    /\ queue = [d \in Dests |-> <<>>]
    /\ closed = [d \in Dests |-> FALSE]
    /\ ret = [d \in Dests |-> <<>>]
    /\ retClosed = FALSE
    /\ producer = "open" /\ opened = FALSE
    /\ hand = 0
    /\ offering = toCache
    /\ mainFailed = FALSE /\ sourceFailed = FALSE
    /\ consumer = "recv" /\ holding = Err
    /\ received = <<>>
    /\ writer = IF toCache THEN "waiting" ELSE "absent"
    /\ written = <<>>
    /\ reply = "none"

-----------------------------------------------------------------------------
(* Channels. *)

Panicked == producer = "panic"

Full(d) == Len(queue[d]) >= ChannelSize

(* MessageChannel <- m, which waits for room. *)
SendTo(d, m) ==
    /\ ~Full(d)
    /\ queue' = [queue EXCEPT ![d] = Append(@, m)]
    /\ UNCHANGED <<closed, ret, retClosed>>

ReturnReady(d) == ret[d] # <<>> \/ (d = "main" /\ retClosed)

(* <-ReturnChannel; a closed one gives nil. *)
Returned(d) == IF ret[d] # <<>> THEN Head(ret[d]) ELSE "ok"
TakeReturn(d) ==
    /\ ReturnReady(d)
    /\ ret' = [ret EXCEPT ![d] = IF @ = <<>> THEN @ ELSE Tail(@)]
    /\ UNCHANGED <<queue, closed, retClosed>>

RedirectsStream == kind \in {"upload", "edge"}      \* rcvAndRedirectChunks

-----------------------------------------------------------------------------
(* The producer. *)

(* grpc.Dial and DownloadFromEdge, os.Open; the streams of an upload and   *)
(* of S3 are there already.                                                *)
Open ==
    /\ producer = "open"
    /\ \/ /\ opened' = TRUE
          /\ producer' = "poll"
       \/ /\ kind \in {"edge", "local"} /\ "source" \in Faults
          /\ producer' = "errToMain"
          /\ UNCHANGED opened
    /\ UNCHANGED <<request, channels, hand, offering, mainFailed, sourceFailed,
                   consumerVars, writerVars, reply>>

(* The select on the return channel of the main channel.  An error there   *)
(* ends the loop: rcvAndRedirectChunks tells the cache.  Whatever is there, *)
(* WriteAt fails the download from S3 and the local read stops.            *)
PollMain ==
    /\ producer = "poll"
    /\ TakeReturn("main")
    /\ \/ /\ RedirectsStream
          /\ mainFailed' = (Returned("main") = "failed")
          /\ producer' = IF Returned("main") = "failed" THEN "errToCache" ELSE "poll"
       \/ /\ ~RedirectsStream
          /\ producer' = IF kind = "s3" THEN "errToMain" ELSE "close"
          /\ UNCHANGED mainFailed
    /\ UNCHANGED <<request, opened, hand, offering, sourceFailed,
                   consumerVars, writerVars, reply>>

(* The select on the return channel of the cache: it gets no more chunks.  *)
(* rcvAndRedirectChunks selects again, WriteAt goes on with its chunk.     *)
PollCache ==
    /\ producer = "poll" /\ kind # "local"
    /\ TakeReturn("cache")
    /\ offering' = (offering /\ Returned("cache") = "ok" /\ kind # "s3")
    /\ producer' \in {"poll", IF kind = "s3" THEN "recv" ELSE "poll"}
    /\ UNCHANGED <<request, opened, hand, mainFailed, sourceFailed,
                   consumerVars, writerVars, reply>>

(* The default of the select, when neither has anything to say. *)
PollNone ==
    /\ producer = "poll"
    /\ ~ReturnReady("main")
    /\ kind = "local" \/ ~ReturnReady("cache")
    /\ producer' = "recv"
    /\ UNCHANGED <<request, channels, opened, hand, offering, mainFailed, sourceFailed,
                   consumerVars, writerVars, reply>>

(* Recv, Read, or the bytes of the next chunk from S3.  Variant: the end   *)
(* of the file is noticed too late.                                        *)
MayReadPastEnd == hand <= length
MoreToRead == hand < length

ReadChunk ==
    /\ producer = "recv"
    /\ MoreToRead
    /\ hand' = hand + 1
    /\ producer' = "toMain"
    /\ UNCHANGED <<request, channels, opened, offering, mainFailed, sourceFailed,
                   consumerVars, writerVars, reply>>

EndOfSource ==
    /\ producer = "recv"
    /\ hand = length
    /\ producer' = "close"
    /\ UNCHANGED <<request, channels, opened, hand, offering, mainFailed, sourceFailed,
                   consumerVars, writerVars, reply>>

SourceFails ==
    /\ producer = "recv"
    /\ "source" \in Faults
    /\ sourceFailed' = RedirectsStream
    /\ producer' = "errToMain"
    /\ UNCHANGED <<request, channels, opened, hand, offering, mainFailed,
                   consumerVars, writerVars, reply>>

(* The last chunk from S3 is sent by Flush, when the download is over. *)
AfterChunk == IF kind = "s3" /\ hand = length THEN "close" ELSE "poll"

SendToMain ==
    /\ producer = "toMain"
    /\ SendTo("main", hand)
    /\ producer' = IF offering THEN "toCache" ELSE AfterChunk
    /\ UNCHANGED <<request, opened, hand, offering, mainFailed, sourceFailed,
                   consumerVars, writerVars, reply>>

SendToCache ==
    /\ producer = "toCache"
    /\ SendTo("cache", hand)
    /\ producer' = AfterChunk
    /\ UNCHANGED <<request, opened, hand, offering, mainFailed, sourceFailed,
                   consumerVars, writerVars, reply>>

(* Without a source the channels are not closed.  Otherwise they are.      *)
AfterError == IF opened THEN "close" ELSE "done"

(* Who tells the cache of an error of the source: SendFromS3 whenever the  *)
(* file was cacheable, the others while they offer it chunks.  Variant:    *)
(* nobody does.                                                            *)
TellsNobody == FALSE
TellsCache == IF kind = "s3" THEN toCache ELSE offering

SendErrorToMain ==
    /\ producer = "errToMain"
    /\ SendTo("main", Err)
    /\ producer' = IF TellsCache THEN "errToCache" ELSE AfterError
    /\ UNCHANGED <<request, opened, hand, offering, mainFailed, sourceFailed,
                   consumerVars, writerVars, reply>>

SendErrorToCache ==
    /\ producer = "errToCache"
    /\ SendTo("cache", Err)
    /\ producer' = AfterError
    /\ UNCHANGED <<request, opened, hand, offering, mainFailed, sourceFailed,
                   consumerVars, writerVars, reply>>

(* close(MessageChannel) of the main channel and of the cache.  Variants:  *)
(* only one of them.                                                       *)
MainClosed == [closed EXCEPT !["main"] = TRUE]
CacheClosed == [closed EXCEPT !["cache"] = TRUE]
BothClosed == [d \in Dests |-> TRUE]

CloseChannels ==
    /\ producer = "close"
    /\ closed' = BothClosed
    /\ producer' = IF RedirectsStream THEN "await" ELSE "done"
    /\ UNCHANGED <<request, queue, ret, retClosed, opened, hand, offering, mainFailed,
                   sourceFailed, consumerVars, writerVars, reply>>

(* rcvAndRedirectChunks returns, without or with the value of the main     *)
(* return channel.  The handler of an upload answers, and returns an error *)
(* also when SendAndClose fails, its client being gone; downloadFromOther- *)
(* Edge ends, or sends the error it got on the channels just closed.       *)
(* Variant: the error of the last chunks is not looked at.                 *)
SeenFailure(last) == sourceFailed \/ mainFailed
AnyFailure(last) == sourceFailed \/ mainFailed \/ last = "failed"

RedirectionEnds(last) ==
    LET failed == AnyFailure(last) IN
    /\ mainFailed' = (mainFailed \/ last = "failed")
    /\ \/ /\ kind = "upload"
          /\ \/ ~failed /\ reply' = "ok"
             \/ (failed \/ "source" \in Faults) /\ reply' = "failed"
          /\ producer' = "done"
       \/ /\ kind = "edge"
          /\ producer' = IF failed THEN "panic" ELSE "done"
          /\ UNCHANGED reply
    /\ UNCHANGED <<request, opened, hand, offering, sourceFailed,
                   consumerVars, writerVars>>

EndAfterMainError ==
    /\ producer = "await" /\ mainFailed
    /\ RedirectionEnds("ok")
    /\ UNCHANGED channels

EndAfterReturn ==
    /\ producer = "await" /\ ~mainFailed
    /\ TakeReturn("main")
    /\ RedirectionEnds(Returned("main"))

-----------------------------------------------------------------------------
(* The consumer of the main channel: S3 for an upload, or the client.      *)

(* It returns on an error of its own, with one from the producer, or well. *)
(* Variant: an error of its own is not put on the return channel.          *)
NothingOnReturn(v) == UNCHANGED ret
PutOnReturn(v) == ret' = [ret EXCEPT !["main"] = Append(@, v)]

ConsumerReturns(outcome) ==
    /\ retClosed' = TRUE
    /\ consumer' = outcome
    /\ reply' = IF kind = "upload" THEN reply
                ELSE IF outcome = "succeeded" THEN "ok" ELSE "failed"
    /\ UNCHANGED <<closed, holding>>

TakeMessage ==
    /\ consumer = "recv" /\ queue["main"] # <<>>
    /\ queue' = [queue EXCEPT !["main"] = Tail(@)]
    /\ LET m == Head(queue["main"]) IN
        \/ /\ m # Err
           /\ holding' = m
           /\ consumer' = "send"
           /\ UNCHANGED <<closed, ret, retClosed, reply>>
        \/ /\ m = Err
           /\ ConsumerReturns("failed")
           /\ IF kind = "upload" THEN PutOnReturn("failed") ELSE UNCHANGED ret
    /\ UNCHANGED <<request, producerVars, received, writerVars>>

(* What a message holds when it is sent.  The messages of a local read     *)
(* share one buffer, which holds the last chunk that was read.             *)
Body(m) == IF kind = "local" THEN hand ELSE m

SinkTakesChunk ==
    /\ consumer = "send"
    /\ received' = Append(received, Body(holding))
    /\ consumer' = "recv"
    /\ UNCHANGED <<request, channels, producerVars, holding, writerVars, reply>>

(* The client is gone, or S3 refuses the upload. *)
SinkFails ==
    /\ "sink" \in Faults
    /\ consumer = "send" \/ (consumer = "recv" /\ kind = "upload")
    /\ ConsumerReturns("failed")
    /\ PutOnReturn("failed")
    /\ UNCHANGED <<request, queue, producerVars, received, writerVars>>

EndOfMain ==
    /\ consumer = "recv" /\ queue["main"] = <<>> /\ closed["main"]
    /\ ConsumerReturns("succeeded")
    /\ IF kind = "upload" THEN PutOnReturn("ok") ELSE UNCHANGED ret
    /\ UNCHANGED <<request, queue, producerVars, received, writerVars>>

-----------------------------------------------------------------------------
(* The writer: InsertFileInCache and writeChunksInCache.                   *)

WriterFails ==
    /\ writer' = "dropped"
    /\ ret' = [ret EXCEPT !["cache"] = Append(@, "failed")]
    /\ UNCHANGED <<closed, retClosed>>

(* The file is in the cache already, or there is no room for it: the       *)
(* channel is not read.                                                    *)
WriterGivesUp ==
    /\ writer = "waiting" /\ "cache" \in Faults
    /\ writer' = "dropped"
    /\ UNCHANGED <<request, channels, producerVars, consumerVars, written, reply>>

WriterStarts ==
    /\ writer = "waiting"
    /\ writer' = "reading"
    /\ UNCHANGED <<request, channels, producerVars, consumerVars, written, reply>>

WriteChunk ==
    /\ writer = "reading" /\ queue["cache"] # <<>>
    /\ Head(queue["cache"]) # Err
    /\ queue' = [queue EXCEPT !["cache"] = Tail(@)]
    /\ \/ /\ written' = Append(written, Head(queue["cache"]))
          /\ UNCHANGED <<closed, ret, retClosed, writer>>
       \/ /\ "cache" \in Faults
          /\ WriterFails
          /\ UNCHANGED written
    /\ UNCHANGED <<request, producerVars, consumerVars, reply>>

WriterAborts ==
    /\ writer = "reading" /\ queue["cache"] # <<>>
    /\ Head(queue["cache"]) = Err
    /\ queue' = [queue EXCEPT !["cache"] = Tail(@)]
    /\ WriterFails
    /\ UNCHANGED <<request, producerVars, consumerVars, written, reply>>

(* Without a chunk no file was created, and the return channel is silent.  *)
EndOfCache ==
    /\ writer = "reading" /\ queue["cache"] = <<>> /\ closed["cache"]
    /\ writer' = IF written # <<>> THEN "kept" ELSE "dropped"
    /\ ret' = [ret EXCEPT !["cache"] = IF written # <<>> THEN Append(@, "ok") ELSE @]
    /\ UNCHANGED <<request, queue, closed, retClosed, producerVars, consumerVars,
                   written, reply>>

-----------------------------------------------------------------------------
ProducerStep ==
    \/ Open \/ PollMain \/ PollCache \/ PollNone
    \/ ReadChunk \/ EndOfSource \/ SourceFails
    \/ SendToMain \/ SendToCache \/ SendErrorToMain \/ SendErrorToCache
    \/ CloseChannels \/ EndAfterMainError \/ EndAfterReturn
ConsumerStep == TakeMessage \/ SinkTakesChunk \/ SinkFails \/ EndOfMain
WriterStep ==
    WriterGivesUp \/ WriterStarts \/ WriteChunk \/ WriterAborts \/ EndOfCache

Next == ~Panicked /\ (ProducerStep \/ ConsumerStep \/ WriterStep)

Spec == Init /\ [][Next]_vars

(* The scheduler runs every goroutine, and every call to S3, to the client *)
(* and to another edge node returns, with an error if need be.             *)
Fairness ==
    /\ WF_vars(~Panicked /\ ProducerStep)
    /\ WF_vars(~Panicked /\ ConsumerStep)
    /\ WF_vars(~Panicked /\ WriterStep)

FairSpec == Spec /\ Fairness

-----------------------------------------------------------------------------
(* Properties. *)

(* A transfer the handler reports as successful has carried the whole file *)
(* in order, and for an upload S3 has accepted it.  A local read is the    *)
(* subject of DeliveredInOrder.                                            *)
SuccessIsWhole ==
    reply = "ok" /\ kind # "local" => received = Whole /\ consumer = "succeeded"

(* A file is entered in the cache only with all its chunks in order,       *)
(* whoever failed and whenever.                                            *)
CachedIsWhole == writer = "kept" => written = Whole

(* The producer never waits for room in the channel of the cache, where    *)
(* the writer may have left, or may be waiting for fileInsertionMutex:     *)
(* the limit on the size of a cached file leaves room for an error.        *)
CacheNeverFull ==
    producer \in {"toCache", "errToCache"} => ~Full("cache")

(* An upload to S3 that failed while the main channel was full: the        *)
(* producer waits for room and nobody reads any more.                      *)
StalledUpload ==
    /\ kind = "upload" /\ consumer = "failed"
    /\ producer \in {"toMain", "errToMain"} /\ Full("main")

(* The handler answers its client in the end, whoever failed, except for   *)
(* an upload that stalls and for a process that panics.                    *)
HandlerReplies == <>(reply # "none" \/ StalledUpload \/ Panicked)

(* When the file fits in the channels every goroutine of the transfer      *)
(* ends: none keeps fileInsertionMutex or its file open for ever.          *)
TransferEnds ==
    length < ChannelSize
        => <>(\/ Panicked
              \/ /\ producer = "done" /\ consumer \in {"succeeded", "failed"}
                 /\ writer \in {"absent", "kept", "dropped"})

(* The client gets the chunks in their order: "Recupera il file dalla      *)
(* cache locale e ne legge i chunk inviandoli sul canale" (server_services *)
(* .go:281).                                                               *)
DeliveredInOrder == \A i \in DOMAIN received : received[i] = i

(* A transfer that fails is reported, and a download falls back on S3      *)
(* (server_services.go:163); the process does not stop.                    *)
NoPanic == ~Panicked

(* The promise of Transfer: a chunk is delivered once and in its turn, an  *)
(* answer never changes and is the outcome at the sink, but for an upload  *)
(* that S3 has accepted and whose client cannot be told, and neither the   *)
(* sink nor the cache takes a part of the file for the whole.  The chunks  *)
(* of a local read share a buffer: their order is not promised.            *)
SinkOutcome ==
    CASE consumer = "succeeded" -> "accepted"
      [] consumer = "failed" -> "refused"
      [] OTHER -> "open"
CopyOutcome ==
    CASE writer \in {"waiting", "reading"} -> "open"
      [] writer = "kept" -> "kept"
      [] OTHER -> "dropped"

Promise == INSTANCE Transfer WITH
    size <- length, ordered <- kind # "local", delivered <- received,
    sink <- SinkOutcome, answer <- reply, stored <- written, copy <- CopyOutcome

ImplementsTransfer == Promise!Spec

-----------------------------------------------------------------------------
(* What makes CacheNeverFull and CachedIsWhole inductive.                  *)

(* Chunks offered to the cache so far by a producer that never stopped     *)
(* offering them.                                                          *)
Offered == IF producer \in {"toMain", "toCache"} THEN hand - 1 ELSE hand

Redirecting ==
    producer \in {"open", "poll", "recv", "toMain", "toCache", "errToMain", "errToCache"}

(* What waits for the writer is never more than what was offered, and an   *)
(* error is the last message.                                              *)
CacheRoom ==
    /\ offering => toCache
    /\ toCache => kind # "local" /\ IsFileCacheable(length)
    /\ producer \in {"toMain", "toCache"} => hand > 0
    /\ producer = "toCache" => offering
    /\ Redirecting => Len(queue["cache"]) <= IF toCache THEN Offered ELSE 0

Consecutive(s, first) == \A i \in 1..Len(s) : s[i] = first + i

(* The messages in the channel of the cache go on from what was written:   *)
(* up to the chunk in hand as long as the producer redirects, then up to   *)
(* the end of the file or to an error.                                     *)
InStep ==
    LET q == queue["cache"]
        w == Len(written)
    IN  \/ /\ Consecutive(q, w)
           /\ w + Len(q) = IF Redirecting THEN Offered ELSE length
        \/ /\ ~Redirecting
           /\ q # <<>> /\ q[Len(q)] = Err
           /\ \A i \in 1..Len(q) - 1 : q[i] = w + i

CacheStream ==
    /\ writer \in {"waiting", "reading"} => offering /\ InStep
    /\ Consecutive(written, 0)
    /\ writer = "kept" => Len(written) = length
    /\ closed["cache"] => producer \in {"await", "done", "panic"}
    /\ ret["cache"] # <<>> => writer \in {"kept", "dropped"}

CacheStreamInv == TypeOK /\ CacheRoom /\ CacheStream

(* What makes SuccessIsWhole and ImplementsTransfer inductive.             *)

Receiving == consumer \in {"recv", "send"}
Taken == Len(received) + IF consumer = "send" THEN 1 ELSE 0

(* Chunks the producer has put in the main channel. *)
Sent == IF producer = "toMain" THEN hand - 1 ELSE hand

ErrorIsLast == queue["main"] # <<>> /\ queue["main"][Len(queue["main"])] = Err

(* The producer has no more chunks for the main channel, for it has sent   *)
(* all of them, an error, or to nobody.                                    *)
Ended == producer \in {"errToCache", "close", "await", "done", "panic"}

(* The messages in the main channel go on from what was taken, up to the   *)
(* last chunk sent or to an error.  An end without an error is the end of  *)
(* the file.                                                               *)
MainInStep ==
    LET q == queue["main"] IN
    \/ /\ Consecutive(q, Taken)
       /\ Taken + Len(q) = Sent
       /\ Ended => hand = length /\ ~sourceFailed
    \/ /\ Ended /\ ErrorIsLast
       /\ \A i \in 1..Len(q) - 1 : q[i] = Taken + i
       /\ Taken + Len(q) - 1 <= hand

MainStream ==
    /\ kind # "local" => Consecutive(received, 0)
    /\ consumer = "send" /\ kind # "local" => holding = Taken
    /\ closed["main"] => producer \in {"await", "done", "panic"}
    /\ Receiving => MainInStep

(* What the ends know of each other.                                       *)
Outcomes ==
    /\ Receiving => ret["main"] = <<>> /\ ~retClosed /\ ~mainFailed
    /\ consumer = "succeeded" =>
        /\ Len(received) = length
        /\ ~sourceFailed /\ ~mainFailed /\ closed["main"]
        /\ ret["main"] \in {<<>>, <<"ok">>}
    /\ kind # "upload" =>
        reply = IF Receiving THEN "none" ELSE Promise!Outcome(SinkOutcome)
    /\ kind = "upload" =>
        /\ reply # "none"
            => /\ ~Receiving /\ producer = "done"
               /\ reply \in {Promise!Outcome(SinkOutcome), "failed"}
        /\ reply = "none" /\ producer # "done" /\ ~mainFailed /\ ~Receiving
            => ret["main"] = <<IF consumer = "succeeded" THEN "ok" ELSE "failed">>
    /\ sourceFailed => RedirectsStream /\ (Ended \/ producer = "errToMain")
    /\ mainFailed => Ended

(* No message is beyond the end of the file. *)
InFile == \A d \in Dests : \A i \in DOMAIN queue[d] : queue[d][i] <= length

TransferInv == CacheStreamInv /\ MainStream /\ Outcomes /\ InFile
=============================================================================
