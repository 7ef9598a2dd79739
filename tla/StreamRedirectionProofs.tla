---------------------- MODULE StreamRedirectionProofs -----------------------
(***************************************************************************)
(* Theorems about StreamRedirection, for files of any length and channels  *)
(* of any size.  CacheNeverFull and CachedIsWhole follow from              *)
(* CacheStreamInv, whose parts TypeStep, RoomStep and StreamStep show to   *)
(* be preserved by every step.                                             *)
(***************************************************************************)
EXTENDS StreamRedirection, TLAPS

USE KindsAssumption, SizesAssumption

-----------------------------------------------------------------------------
(* TypeOK. *)

(* The channels are empty at the start. *)
LEMMA TypeInit == Init => TypeOK
<1> SUFFICES ASSUME Init PROVE TypeOK
  OBVIOUS
<1> USE DEF Init, Dests
<1>1. queue \in [Dests -> Seq(Nat)] /\ ret \in [Dests -> Seq({"ok", "failed"})]
  OBVIOUS
<1>2. kind \in Kinds /\ length \in Lengths /\ toCache \in BOOLEAN /\ offering \in BOOLEAN
  BY DEF IsFileCacheable
<1>3. hand \in 0..length
  BY <1>2
<1>4. received \in Seq(Nat) /\ written \in Seq(Nat) /\ holding \in Nat
  BY DEF Err
<1> QED BY <1>1, <1>2, <1>3, <1>4 DEF TypeOK

(* Receiving from a return channel keeps its type. *)
LEMMA TakeReturnType ==
    ASSUME TypeOK, NEW d \in Dests, TakeReturn(d)
    PROVE  /\ ret' \in [Dests -> Seq({"ok", "failed"})]
           /\ UNCHANGED <<queue, closed, retClosed>>
<1>1. ret[d] \in Seq({"ok", "failed"})
  BY DEF TypeOK
<1>2. (IF ret[d] = <<>> THEN ret[d] ELSE Tail(ret[d])) \in Seq({"ok", "failed"})
  BY <1>1
<1> QED BY <1>2 DEF TypeOK, TakeReturn

(* Receiving from a message channel keeps its type. *)
LEMMA PopType ==
    ASSUME TypeOK, NEW d \in Dests, queue[d] # <<>>,
           queue' = [queue EXCEPT ![d] = Tail(@)]
    PROVE  queue' \in [Dests -> Seq(Nat)] /\ Head(queue[d]) \in Nat
<1>1. queue[d] \in Seq(Nat)
  BY DEF TypeOK
<1>2. Tail(queue[d]) \in Seq(Nat) /\ Head(queue[d]) \in Nat
  BY <1>1
<1> QED BY <1>2 DEF TypeOK

(* So does sending on a return channel. *)
LEMMA PutType ==
    ASSUME TypeOK, NEW d \in Dests, NEW v \in {"ok", "failed"},
           ret' = [ret EXCEPT ![d] = Append(@, v)]
    PROVE  ret' \in [Dests -> Seq({"ok", "failed"})]
<1>1. Append(ret[d], v) \in Seq({"ok", "failed"})
  BY DEF TypeOK
<1> QED BY <1>1 DEF TypeOK


(* The select of the producer on the main return channel. *)
LEMMA PollMainType == ASSUME TypeOK, PollMain PROVE TypeOK'
<1>1. /\ ret' \in [Dests -> Seq({"ok", "failed"})]
      /\ UNCHANGED <<queue, closed, retClosed>>
  BY TakeReturnType DEF PollMain, Dests
<1>2. mainFailed' \in BOOLEAN
  BY DEF PollMain, TypeOK
<1>3. producer' \in {"errToCache", "poll", "errToMain", "close"}
  BY DEF PollMain
<1> QED BY <1>1, <1>2, <1>3 DEF TypeOK, PollMain, request, consumerVars, writerVars

(* The select of the producer on the return channel of the cache. *)
LEMMA PollCacheType == ASSUME TypeOK, PollCache PROVE TypeOK'
<1>1. /\ ret' \in [Dests -> Seq({"ok", "failed"})]
      /\ UNCHANGED <<queue, closed, retClosed>>
  BY TakeReturnType DEF PollCache, Dests
<1>2. offering' \in BOOLEAN /\ producer' \in {"poll", "recv"}
  BY DEF PollCache, TypeOK
<1> QED BY <1>1, <1>2 DEF TypeOK, PollCache, request, consumerVars, writerVars

(* The consumer takes a message. *)
LEMMA TakeMessageType == ASSUME TypeOK, TakeMessage PROVE TypeOK'
<1> USE DEF Dests
<1>1. queue' \in [Dests -> Seq(Nat)] /\ Head(queue["main"]) \in Nat
  BY PopType DEF TakeMessage
<1>2. ret' \in [Dests -> Seq({"ok", "failed"})]
  BY PutType DEF TakeMessage, PutOnReturn, TypeOK
<1>3. /\ closed' \in [Dests -> BOOLEAN] /\ retClosed' \in BOOLEAN
      /\ consumer' \in {"recv", "send", "succeeded", "failed"}
      /\ holding' \in Nat
      /\ reply' \in {"none", "ok", "failed"}
  BY <1>1 DEF TypeOK, TakeMessage, ConsumerReturns
<1> QED BY <1>1, <1>2, <1>3 DEF TypeOK, TakeMessage, request, producerVars, writerVars

(* The writer takes a chunk. *)
LEMMA WriteChunkType == ASSUME TypeOK, WriteChunk PROVE TypeOK'
<1> USE DEF Dests
<1>1. queue' \in [Dests -> Seq(Nat)] /\ Head(queue["cache"]) \in Nat
  BY PopType DEF WriteChunk
<1>2. ret' \in [Dests -> Seq({"ok", "failed"})]
  BY PutType DEF WriteChunk, WriterFails, TypeOK
<1>3. written' \in Seq(Nat)
  <2>1. Append(written, Head(queue["cache"])) \in Seq(Nat)
    BY <1>1 DEF TypeOK
  <2> QED BY <2>1 DEF WriteChunk, TypeOK
<1>4. closed' \in [Dests -> BOOLEAN] /\ retClosed' \in BOOLEAN
      /\ writer' \in {"absent", "waiting", "reading", "kept", "dropped"}
  BY DEF TypeOK, WriteChunk, WriterFails
<1> QED BY <1>1, <1>2, <1>3, <1>4 DEF TypeOK, WriteChunk, request, producerVars, consumerVars

(* The writer takes an error. *)
LEMMA WriterAbortsType == ASSUME TypeOK, WriterAborts PROVE TypeOK'
<1> USE DEF Dests
<1>1. queue' \in [Dests -> Seq(Nat)]
  BY PopType DEF WriterAborts
<1>2. ret' \in [Dests -> Seq({"ok", "failed"})]
  BY PutType DEF WriterAborts, WriterFails
<1>3. /\ closed' \in [Dests -> BOOLEAN] /\ retClosed' \in BOOLEAN
      /\ writer' \in {"absent", "waiting", "reading", "kept", "dropped"}
  BY DEF TypeOK, WriterAborts, WriterFails
<1> QED BY <1>1, <1>2, <1>3 DEF TypeOK, WriterAborts, request, producerVars, consumerVars

(* The consumer finds its channel closed. *)
LEMMA EndOfMainType == ASSUME TypeOK, EndOfMain PROVE TypeOK'
<1> USE DEF Dests
<1>1. ret' \in [Dests -> Seq({"ok", "failed"})]
  BY PutType DEF EndOfMain, PutOnReturn, TypeOK
<1>2. /\ closed' \in [Dests -> BOOLEAN] /\ retClosed' \in BOOLEAN
      /\ consumer' \in {"recv", "send", "succeeded", "failed"}
      /\ reply' \in {"none", "ok", "failed"}
  BY DEF TypeOK, EndOfMain, ConsumerReturns
<1> QED BY <1>1, <1>2 DEF TypeOK, EndOfMain, ConsumerReturns, request, producerVars, writerVars

(* The producer opens its source. *)
LEMMA OpenType == ASSUME TypeOK, Open PROVE TypeOK'
<1>1. /\ opened' \in BOOLEAN /\ producer' \in {"poll", "errToMain"}
      /\ UNCHANGED <<hand, offering, mainFailed, sourceFailed, reply>>
  BY DEF Open, TypeOK
<1> QED BY <1>1 DEF TypeOK, Open, request, channels, consumerVars, writerVars

(* Every step of the transfer keeps the types. *)
LEMMA TypeStep == TypeOK /\ [Next]_vars => TypeOK'
<1> SUFFICES ASSUME TypeOK, [Next]_vars PROVE TypeOK'
  OBVIOUS
<1> USE DEF Dests, request, channels, producerVars, consumerVars, writerVars
<1>1. CASE Open
  BY <1>1, OpenType
<1>2. CASE PollMain
  BY <1>2, PollMainType
<1>3. CASE PollCache
  BY <1>3, PollCacheType
<1>4. CASE PollNone
  BY <1>4 DEF TypeOK, PollNone
<1>5. CASE ReadChunk
  BY <1>5 DEF TypeOK, ReadChunk, MoreToRead
<1>6. CASE EndOfSource
  BY <1>6 DEF TypeOK, EndOfSource
<1>7. CASE SourceFails
  BY <1>7 DEF TypeOK, SourceFails, RedirectsStream
<1>8. CASE SendToMain
  BY <1>8 DEF TypeOK, SendToMain, SendTo, AfterChunk, Full
<1>9. CASE SendToCache
  BY <1>9 DEF TypeOK, SendToCache, SendTo, AfterChunk, Full
<1>10. CASE SendErrorToMain
  BY <1>10 DEF TypeOK, SendErrorToMain, SendTo, AfterError, TellsCache, Full, Err
<1>11. CASE SendErrorToCache
  BY <1>11 DEF TypeOK, SendErrorToCache, SendTo, AfterError, Full, Err
<1>12. CASE CloseChannels
  BY <1>12 DEF TypeOK, CloseChannels, BothClosed, RedirectsStream
<1>13. CASE EndAfterMainError
  BY <1>13 DEF TypeOK, EndAfterMainError, RedirectionEnds, AnyFailure
<1>14. CASE EndAfterReturn
  BY <1>14 DEF TypeOK, EndAfterReturn, RedirectionEnds, AnyFailure, TakeReturn,
               ReturnReady, Returned
<1>15. CASE TakeMessage
  BY <1>15, TakeMessageType
<1>16. CASE SinkTakesChunk
  BY <1>16 DEF TypeOK, SinkTakesChunk, Body
<1>17. CASE SinkFails
  BY <1>17 DEF TypeOK, SinkFails, ConsumerReturns, PutOnReturn
<1>18. CASE EndOfMain
  BY <1>18, EndOfMainType
<1>19. CASE WriterGivesUp
  BY <1>19 DEF TypeOK, WriterGivesUp
<1>20. CASE WriterStarts
  BY <1>20 DEF TypeOK, WriterStarts
<1>21. CASE WriteChunk
  BY <1>21, WriteChunkType
<1>22. CASE WriterAborts
  BY <1>22, WriterAbortsType
<1>23. CASE EndOfCache
  BY <1>23 DEF TypeOK, EndOfCache
<1>24. CASE UNCHANGED vars
  BY <1>24 DEF TypeOK, vars
<1> QED
  BY <1>1, <1>2, <1>3, <1>4, <1>5, <1>6, <1>7, <1>8, <1>9, <1>10, <1>11, <1>12,
     <1>13, <1>14, <1>15, <1>16, <1>17, <1>18, <1>19, <1>20, <1>21, <1>22, <1>23, <1>24
  DEF Next, ProducerStep, ConsumerStep, WriterStep

-----------------------------------------------------------------------------
(* CacheRoom. *)

(* Nothing is offered to the cache at the start. *)
LEMMA RoomInit == Init => CacheRoom
<1> SUFFICES ASSUME Init PROVE CacheRoom
  OBVIOUS
<1>1. toCache => kind # "local" /\ IsFileCacheable(length)
  BY DEF Init
<1>2. /\ offering = toCache /\ producer = "open"
      /\ Len(queue["cache"]) = 0 /\ hand = 0
  BY DEF Init, Dests
<1> QED BY <1>1, <1>2 DEF CacheRoom, Offered

(* The writer makes room: one message less waits. *)
LEMMA WriterMakesRoom ==
    ASSUME TypeOK, CacheRoom, WriteChunk \/ WriterAborts
    PROVE  CacheRoom'
<1> DEFINE q == queue["cache"]
<1>1. /\ UNCHANGED <<kind, length, toCache, producer, hand, offering>>
      /\ q # <<>> /\ queue' = [queue EXCEPT !["cache"] = Tail(q)]
  BY DEF WriteChunk, WriterAborts, request, producerVars
<1>2. q \in Seq(Nat) /\ queue'["cache"] = Tail(q)
  BY <1>1 DEF TypeOK, Dests
<1>3. Len(queue'["cache"]) + 1 = Len(q) /\ Len(q) \in Nat
  <2> HIDE DEF q
  <2> QED BY <1>1, <1>2
<1>4. Redirecting => Len(q) <= IF toCache THEN Offered ELSE 0
  BY DEF CacheRoom
<1>5. Offered' = Offered /\ Offered \in Int /\ (Redirecting' <=> Redirecting)
  BY <1>1 DEF Offered, Redirecting, TypeOK
<1>6. Redirecting' => Len(queue'["cache"]) <= IF toCache' THEN Offered' ELSE 0
  <2> HIDE DEF q
  <2> QED BY <1>1, <1>3, <1>4, <1>5
<1> QED BY <1>1, <1>6 DEF CacheRoom

(* CacheRoom is inductive: the producer offers one chunk at a time. *)
LEMMA RoomStep == TypeOK /\ TypeOK' /\ CacheRoom /\ [Next]_vars => CacheRoom'
<1> SUFFICES ASSUME TypeOK, TypeOK', CacheRoom, [Next]_vars PROVE CacheRoom'
  OBVIOUS
<1>0. CASE WriteChunk \/ WriterAborts
  BY <1>0, WriterMakesRoom
<1> USE DEF TypeOK, CacheRoom, Redirecting, Offered, Dests, request, channels,
            producerVars, consumerVars, writerVars
<1>1. CASE Open
  BY <1>1 DEF Open
<1>2. CASE PollMain
  BY <1>2 DEF PollMain, TakeReturn, ReturnReady, Returned, RedirectsStream
<1>3. CASE PollCache
  BY <1>3 DEF PollCache, TakeReturn, ReturnReady, Returned
<1>4. CASE PollNone
  BY <1>4 DEF PollNone
<1>5. CASE ReadChunk
  BY <1>5 DEF ReadChunk, MoreToRead
<1>6. CASE EndOfSource
  BY <1>6 DEF EndOfSource
<1>7. CASE SourceFails
  BY <1>7 DEF SourceFails, RedirectsStream
<1>8. CASE SendToMain
  BY <1>8 DEF SendToMain, SendTo, AfterChunk, Full
<1>9. CASE SendToCache
  BY <1>9 DEF SendToCache, SendTo, AfterChunk, Full
<1>10. CASE SendErrorToMain
  BY <1>10 DEF SendErrorToMain, SendTo, AfterError, TellsCache, Full, Err
<1>11. CASE SendErrorToCache
  BY <1>11 DEF SendErrorToCache, SendTo, AfterError, Full, Err
<1>12. CASE CloseChannels
  BY <1>12 DEF CloseChannels, BothClosed, RedirectsStream
<1>13. CASE EndAfterMainError
  BY <1>13 DEF EndAfterMainError, RedirectionEnds, AnyFailure
<1>14. CASE EndAfterReturn
  BY <1>14 DEF EndAfterReturn, RedirectionEnds, AnyFailure, TakeReturn, ReturnReady, Returned
<1>15. CASE TakeMessage
  BY <1>15 DEF TakeMessage, ConsumerReturns, PutOnReturn, Err
<1>16. CASE SinkTakesChunk
  BY <1>16 DEF SinkTakesChunk, Body
<1>17. CASE SinkFails
  BY <1>17 DEF SinkFails, ConsumerReturns, PutOnReturn
<1>18. CASE EndOfMain
  BY <1>18 DEF EndOfMain, ConsumerReturns, PutOnReturn
<1>19. CASE WriterGivesUp
  BY <1>19 DEF WriterGivesUp
<1>20. CASE WriterStarts
  BY <1>20 DEF WriterStarts
<1>21. CASE EndOfCache
  BY <1>21 DEF EndOfCache
<1>22. CASE UNCHANGED vars
  BY <1>22 DEF vars
<1> QED
  BY <1>0, <1>1, <1>2, <1>3, <1>4, <1>5, <1>6, <1>7, <1>8, <1>9, <1>10, <1>11, <1>12,
     <1>13, <1>14, <1>15, <1>16, <1>17, <1>18, <1>19, <1>20, <1>21, <1>22
  DEF Next, ProducerStep, ConsumerStep, WriterStep

-----------------------------------------------------------------------------
(* CacheStream: the actions that need more than one leaf. *)

(* After an error of the sink the cache is told before the close. *)
LEMMA PollMainStream ==
    ASSUME TypeOK, CacheRoom, CacheStream, PollMain
    PROVE  CacheStream'
<1>1. /\ UNCHANGED <<queue, closed, length, offering, hand, writer, written>>
      /\ ret'["cache"] = ret["cache"]
  BY DEF TypeOK, Dests, PollMain, TakeReturn, request, writerVars
<1>2. producer = "poll" /\ producer' \in {"poll", "errToCache", "errToMain", "close"}
  BY DEF PollMain
<1>3. producer' = "close" => ~offering
  BY DEF PollMain, RedirectsStream, CacheRoom, TypeOK, AllKinds
<1>4. writer \in {"waiting", "reading"} => InStep'
  BY <1>1, <1>2, <1>3 DEF CacheStream, InStep, Consecutive, Redirecting, Offered
<1> QED BY <1>1, <1>2, <1>4 DEF CacheStream, Consecutive

(* What a send adds to a channel. *)
LEMMA AppendOne ==
    ASSUME NEW q \in Seq(Nat), NEW m \in Nat
    PROVE  /\ Append(q, m) \in Seq(Nat)
           /\ Len(Append(q, m)) = Len(q) + 1
           /\ Append(q, m)[Len(q) + 1] = m
           /\ \A i \in 1..Len(q) : Append(q, m)[i] = q[i]
OBVIOUS

LEMMA AppendNonempty ==
    ASSUME NEW q \in Seq(Nat), NEW m \in Nat
    PROVE  Append(q, m) # <<>>
OBVIOUS

(* The next chunk goes behind those that wait for the writer. *)
LEMMA SendToCacheStream ==
    ASSUME TypeOK, CacheRoom, CacheStream, SendToCache
    PROVE  CacheStream'
<1> DEFINE q == queue["cache"]
<1>1. /\ UNCHANGED <<closed, length, offering, hand, writer, written, ret>>
      /\ queue'["cache"] = Append(q, hand)
      /\ q \in Seq(Nat) /\ hand \in Nat
  BY DEF TypeOK, Dests, SendToCache, SendTo, request, writerVars
<1>2. producer = "toCache" /\ producer' \in {"poll", "close"}
                            /\ (producer' = "close" => hand = length)
  BY DEF SendToCache, AfterChunk
<1>3. ASSUME writer \in {"waiting", "reading"} PROVE InStep'
  <2>1. Consecutive(q, Len(written)) /\ Len(written) + Len(q) = hand - 1
    BY <1>2, <1>3 DEF CacheStream, InStep, Redirecting, Offered
  <2>2. Len(written) \in Nat /\ Len(q) \in Nat
    BY <1>1 DEF TypeOK
  <2>3. /\ Consecutive(Append(q, hand), Len(written))
        /\ Len(written) + Len(Append(q, hand)) = hand
    <3>1. hand = Len(written) + (Len(q) + 1)
      BY <1>1, <2>1, <2>2
    <3>2. ASSUME NEW i \in 1..Len(Append(q, hand)) PROVE Append(q, hand)[i] = Len(written) + i
      <4>1. CASE i = Len(q) + 1
        BY <1>1, <2>2, <3>1, <4>1, AppendOne
      <4>2. CASE i \in 1..Len(q)
        <5>1. Append(q, hand)[i] = q[i]
          BY <1>1, <4>2, AppendOne
        <5>2. q[i] = Len(written) + i
          BY <2>1, <4>2 DEF Consecutive
        <5> QED BY <5>1, <5>2
      <4>3. i = Len(q) + 1 \/ i \in 1..Len(q)
        <5>1. Len(Append(q, hand)) = Len(q) + 1
          BY <1>1, AppendOne
        <5> HIDE DEF q
        <5> QED BY <2>2, <5>1
      <4> QED BY <4>1, <4>2, <4>3
    <3> QED BY <1>1, <2>2, <3>1, <3>2, AppendOne DEF Consecutive
  <2>4. hand = IF Redirecting' THEN Offered' ELSE length'
    BY <1>1, <1>2 DEF Redirecting, Offered
  <2> QED BY <1>1, <2>3, <2>4 DEF InStep
<1> QED BY <1>1, <1>2, <1>3 DEF CacheStream, Consecutive

(* The error goes behind the chunks that wait for the writer. *)
LEMMA SendErrorToCacheStream ==
    ASSUME TypeOK, CacheRoom, CacheStream, SendErrorToCache
    PROVE  CacheStream'
<1> DEFINE q == queue["cache"]
<1>1. /\ UNCHANGED <<closed, length, offering, hand, writer, written, ret>>
      /\ queue'["cache"] = Append(q, Err)
      /\ q \in Seq(Nat) /\ Err \in Nat
  BY DEF TypeOK, Dests, SendErrorToCache, SendTo, request, writerVars, Err
<1>2. producer = "errToCache" /\ producer' \in {"close", "done"}
  BY DEF SendErrorToCache, AfterError
<1>3. ASSUME writer \in {"waiting", "reading"} PROVE InStep'
  <2>1. Consecutive(q, Len(written))
    BY <1>2, <1>3 DEF CacheStream, InStep, Redirecting
  <2>2. Len(written) \in Nat /\ Len(q) \in Nat
    BY <1>1 DEF TypeOK
  <2>3. /\ Append(q, Err) # <<>> /\ Append(q, Err)[Len(Append(q, Err))] = Err
        /\ \A i \in 1..Len(Append(q, Err)) - 1 : Append(q, Err)[i] = Len(written) + i
    BY <1>1, <2>1, <2>2, AppendOne DEF Consecutive
  <2>4. ~Redirecting'
    BY <1>2 DEF Redirecting
  <2> QED BY <1>1, <2>3, <2>4 DEF InStep
<1> QED BY <1>1, <1>2, <1>3 DEF CacheStream, Consecutive

(* What a receive leaves in a channel. *)
LEMMA PopOne ==
    ASSUME NEW q \in Seq(Nat), q # <<>>
    PROVE  \E t \in Seq(Nat) :
              /\ t = Tail(q) /\ Len(t) + 1 = Len(q)
              /\ \A i \in 1..Len(t) : t[i] = q[i + 1]
<1>1. Tail(q) \in Seq(Nat)
  OBVIOUS
<1>2. Len(Tail(q)) + 1 = Len(q)
  OBVIOUS
<1>3. \A i \in 1..Len(Tail(q)) : Tail(q)[i] = q[i + 1]
  OBVIOUS
<1> QED BY <1>1, <1>2, <1>3

(* The chunk that is written follows those in the file. *)
LEMMA WriteChunkStream ==
    ASSUME TypeOK, TypeOK', CacheStream, WriteChunk
    PROVE  CacheStream'
<1>1. /\ UNCHANGED <<closed, length, offering, hand, producer>>
      /\ writer = "reading" /\ InStep /\ offering
      /\ queue["cache"] \in Seq(Nat) /\ queue["cache"] # <<>>
      /\ Head(queue["cache"]) = queue["cache"][1] /\ Head(queue["cache"]) # Err
      /\ queue'["cache"] = Tail(queue["cache"])
  BY DEF TypeOK, Dests, WriteChunk, WriterFails, request, producerVars, CacheStream
<1>2. CASE written' = Append(written, Head(queue["cache"])) /\ UNCHANGED <<ret, writer>>
  <2>1. PICK q \in Seq(Nat) : q = queue["cache"] /\ q # <<>>
    BY <1>1
  <2>2. PICK t \in Seq(Nat) :
            /\ t = Tail(q) /\ Len(t) + 1 = Len(q)
            /\ \A i \in 1..Len(t) : t[i] = q[i + 1]
    BY <2>1, PopOne
  <2>3. queue'["cache"] = t
    BY <1>1, <2>1, <2>2
  <2>4. PICK w \in Nat : w = Len(written)
    BY DEF TypeOK
  <2>5. /\ Len(written') = w + 1
        /\ q[1] = w + 1 => Consecutive(written', 0)
    <3>1. written \in Seq(Nat) /\ Head(queue["cache"]) \in Nat /\ Head(queue["cache"]) = q[1]
      <4>1. written \in Seq(Nat)
        BY DEF TypeOK
      <4>2. Head(queue["cache"]) = q[1]
        BY <1>1, <2>1
      <4>3. q[1] \in Nat
        BY <2>1
      <4> QED BY <4>1, <4>2, <4>3
    <3>2. Len(written') = w + 1 /\ written'[w + 1] = q[1]
          /\ \A i \in 1..w : written'[i] = written[i]
      BY <1>2, <2>4, <3>1, AppendOne
    <3> QED BY <2>4, <3>2 DEF Consecutive, CacheStream
  <2>6. CASE /\ Consecutive(q, w)
             /\ w + Len(q) = IF Redirecting THEN Offered ELSE length
    <3>1. 1 \in 1..Len(q)
      BY <2>2
    <3>2. q[1] = w + 1
      BY <2>6, <3>1 DEF Consecutive
    <3>3. ASSUME NEW i \in 1..Len(t) PROVE t[i] = (w + 1) + i
      <4>1. i + 1 \in 1..Len(q) /\ i \in Nat
        BY <2>2
      <4>2. t[i] = w + (i + 1)
        BY <2>2, <2>6, <4>1 DEF Consecutive
      <4> QED BY <4>1, <4>2
    <3>4. (w + 1) + Len(t) = IF Redirecting' THEN Offered' ELSE length'
      <4>1. (w + 1) + Len(t) = w + Len(q)
        BY <2>2
      <4>2. (IF Redirecting THEN Offered ELSE length) = IF Redirecting' THEN Offered' ELSE length'
        BY <1>1 DEF Redirecting, Offered
      <4> QED BY <2>6, <4>1, <4>2
    <3>5. Consecutive(queue'["cache"], Len(written'))
      BY <2>3, <2>5, <3>3 DEF Consecutive
    <3>6. InStep'
      BY <2>3, <2>5, <3>4, <3>5 DEF InStep
    <3> QED BY <1>1, <1>2, <2>5, <3>2, <3>6 DEF CacheStream
  <2>7. CASE /\ ~Redirecting
             /\ q[Len(q)] = Err
             /\ \A i \in 1..Len(q) - 1 : q[i] = w + i
    <3>1. Len(t) \in Nat \ {0}
      <4>1. q[1] # Err
        BY <1>1, <2>1
      <4>2. Len(t) \in Nat /\ Len(t) + 1 = Len(q)
        BY <2>2
      <4>3. Len(q) # 1
        BY <2>7, <4>1
      <4> QED BY <4>2, <4>3
    <3>2. q[1] = w + 1
      BY <2>2, <2>7, <3>1
    <3>3. t # <<>> /\ t[Len(t)] = Err
      <4>1. Len(t) \in 1..Len(t) /\ t # <<>>
        BY <3>1
      <4>2. t[Len(t)] = q[Len(t) + 1]
        BY <2>2, <4>1
      <4> QED BY <2>2, <2>7, <4>1, <4>2
    <3>4. ASSUME NEW i \in 1..Len(t) - 1 PROVE t[i] = (w + 1) + i
      <4>1. i + 1 \in 1..Len(q) - 1 /\ i \in 1..Len(t) /\ i \in Nat
        BY <2>2, <3>1
      <4>2. t[i] = w + (i + 1)
        BY <2>2, <2>7, <4>1
      <4> QED BY <4>1, <4>2
    <3>5. ~Redirecting'
      BY <1>1, <2>7 DEF Redirecting
    <3>6. InStep'
      BY <2>3, <2>5, <3>3, <3>4, <3>5 DEF InStep
    <3> QED BY <1>1, <1>2, <2>5, <3>2, <3>6 DEF CacheStream
  <2> QED BY <1>1, <2>1, <2>4, <2>6, <2>7 DEF InStep
<1>3. CASE WriterFails /\ UNCHANGED written
  BY <1>1, <1>3 DEF WriterFails, CacheStream, Consecutive
<1> QED BY <1>2, <1>3 DEF WriteChunk, WriterFails

(* Nothing is written at the start. *)
LEMMA StreamInit == Init => CacheStream
BY DEF Init, CacheStream, InStep, Consecutive, Redirecting, Offered, Dests

(* CacheStream is inductive, given the types and CacheRoom. *)
LEMMA StreamStep ==
    TypeOK /\ TypeOK' /\ CacheRoom /\ CacheStream /\ [Next]_vars => CacheStream'
<1> SUFFICES ASSUME TypeOK, TypeOK', CacheRoom, CacheStream, [Next]_vars PROVE CacheStream'
  OBVIOUS
<1> USE DEF Dests, request, channels, producerVars, consumerVars, writerVars
<1>1. CASE Open
  BY <1>1 DEF TypeOK, CacheRoom, CacheStream, InStep, Consecutive, Redirecting, Offered, Open
<1>2. CASE PollMain
  BY <1>2, PollMainStream
<1>3. CASE PollCache
  BY <1>3 DEF TypeOK, CacheRoom, CacheStream, InStep, Consecutive, Redirecting, Offered,
              PollCache, TakeReturn, ReturnReady, Returned
<1>4. CASE PollNone
  BY <1>4 DEF TypeOK, CacheRoom, CacheStream, InStep, Consecutive, Redirecting, Offered, PollNone
<1>5. CASE ReadChunk
  BY <1>5 DEF TypeOK, CacheRoom, CacheStream, InStep, Consecutive, Redirecting, Offered,
              ReadChunk, MoreToRead
<1>6. CASE EndOfSource
  BY <1>6 DEF TypeOK, CacheRoom, CacheStream, InStep, Consecutive, Redirecting, Offered,
              EndOfSource
<1>7. CASE SourceFails
  BY <1>7 DEF TypeOK, CacheRoom, CacheStream, InStep, Consecutive, Redirecting, Offered,
              SourceFails, RedirectsStream
<1>8. CASE SendToMain
  BY <1>8 DEF TypeOK, CacheRoom, CacheStream, InStep, Consecutive, Redirecting, Offered,
              SendToMain, SendTo, AfterChunk, Full
<1>9. CASE SendToCache
  BY <1>9, SendToCacheStream
<1>10. CASE SendErrorToMain
  BY <1>10 DEF TypeOK, CacheRoom, CacheStream, InStep, Consecutive, Redirecting,
               Offered, SendErrorToMain, SendTo, AfterError, TellsCache, Full, Err
<1>11. CASE SendErrorToCache
  BY <1>11, SendErrorToCacheStream
<1>12. CASE CloseChannels
  BY <1>12 DEF TypeOK, CacheRoom, CacheStream, InStep, Consecutive, Redirecting,
               Offered, CloseChannels, BothClosed, RedirectsStream
<1>13. CASE EndAfterMainError
  BY <1>13 DEF TypeOK, CacheRoom, CacheStream, InStep, Consecutive, Redirecting,
               Offered, EndAfterMainError, RedirectionEnds, AnyFailure
<1>14. CASE EndAfterReturn
  BY <1>14 DEF TypeOK, CacheRoom, CacheStream, InStep, Consecutive, Redirecting,
               Offered, EndAfterReturn, RedirectionEnds, AnyFailure, TakeReturn,
               ReturnReady, Returned
<1>15. CASE TakeMessage
  BY <1>15 DEF TypeOK, CacheRoom, CacheStream, InStep, Consecutive, Redirecting,
               Offered, TakeMessage, ConsumerReturns, PutOnReturn, Err
<1>16. CASE SinkTakesChunk
  BY <1>16 DEF TypeOK, CacheRoom, CacheStream, InStep, Consecutive, Redirecting,
               Offered, SinkTakesChunk, Body
<1>17. CASE SinkFails
  BY <1>17 DEF TypeOK, CacheRoom, CacheStream, InStep, Consecutive, Redirecting,
               Offered, SinkFails, ConsumerReturns, PutOnReturn
<1>18. CASE EndOfMain
  BY <1>18 DEF TypeOK, CacheRoom, CacheStream, InStep, Consecutive, Redirecting,
               Offered, EndOfMain, ConsumerReturns, PutOnReturn
<1>19. CASE WriterGivesUp
  BY <1>19 DEF TypeOK, CacheRoom, CacheStream, InStep, Consecutive, Redirecting,
               Offered, WriterGivesUp
<1>20. CASE WriterStarts
  BY <1>20 DEF TypeOK, CacheRoom, CacheStream, InStep, Consecutive, Redirecting,
               Offered, WriterStarts
<1>21. CASE WriteChunk
  BY <1>21, WriteChunkStream
<1>22. CASE WriterAborts
  BY <1>22 DEF TypeOK, CacheRoom, CacheStream, InStep, Consecutive, Redirecting,
               Offered, WriterAborts, WriterFails, Err
<1>23. CASE EndOfCache
  BY <1>23 DEF TypeOK, CacheRoom, CacheStream, InStep, Consecutive, Redirecting,
               Offered, EndOfCache
<1>24. CASE UNCHANGED vars
  BY <1>24 DEF TypeOK, CacheRoom, CacheStream, InStep, Consecutive, Redirecting, Offered, vars
<1> QED
  BY <1>1, <1>2, <1>3, <1>4, <1>5, <1>6, <1>7, <1>8, <1>9, <1>10, <1>11, <1>12,
     <1>13, <1>14, <1>15, <1>16, <1>17, <1>18, <1>19, <1>20, <1>21, <1>22, <1>23, <1>24
  DEF Next, ProducerStep, ConsumerStep, WriterStep

-----------------------------------------------------------------------------
(* The initial state satisfies the whole invariant. *)
LEMMA InvInit == Init => CacheStreamInv
BY TypeInit, RoomInit, StreamInit DEF CacheStreamInv

(* TypeStep, RoomStep and StreamStep together. *)
LEMMA InvStep == CacheStreamInv /\ [Next]_vars => CacheStreamInv'
BY TypeStep, RoomStep, StreamStep DEF CacheStreamInv

(* CacheStreamInv holds in every state of a transfer. *)
LEMMA InvAlways == Spec => []CacheStreamInv
BY InvInit, InvStep, PTL DEF Spec

(* Every variable of a transfer keeps its type: no goroutine reads past    *)
(* the end of the file (ReadChunk), and the channels carry chunks and      *)
(* errors only.                                                            *)
THEOREM TypeCorrect == Spec => []TypeOK
<1>1. CacheStreamInv => TypeOK
  BY DEF CacheStreamInv
<1> QED BY <1>1, InvAlways, PTL

(* With a limit on cached files below the size of the channels, as         *)
(* conf.properties has them, the producer never waits on the channel of    *)
(* the cache, whether or not the goroutine of InsertFileInCache is there   *)
(* to read it.                                                             *)
THEOREM CacheNeverFullAlways ==
    ASSUME CacheLimit < ChannelSize
    PROVE  Spec => []CacheNeverFull
<1>1. CacheStreamInv => CacheNeverFull
  <2> SUFFICES ASSUME CacheStreamInv, producer \in {"toCache", "errToCache"}
               PROVE  ~Full("cache")
    BY DEF CacheNeverFull
  <2> USE DEF CacheStreamInv, CacheRoom, TypeOK
  <2>1. Len(queue["cache"]) \in Nat
    BY DEF Dests
  <2>2. Len(queue["cache"]) <= IF toCache THEN hand ELSE 0
    BY <2>1 DEF Redirecting, Offered
  <2>3. toCache => hand <= CacheLimit
    BY DEF IsFileCacheable
  <2> QED BY <2>1, <2>2, <2>3 DEF Full
<1> QED BY <1>1, InvAlways, PTL

(* Whoever fails, and in whatever order the three goroutines notice it,    *)
(* what InsertFileInCache enters in the cache is the whole file in order.  *)
THEOREM CachedIsWholeAlways == Spec => []CachedIsWhole
<1>1. CacheStreamInv => CachedIsWhole
  <2> SUFFICES ASSUME CacheStreamInv, writer = "kept" PROVE written = Whole
    BY DEF CachedIsWhole
  <2>1. /\ written \in Seq(Nat) /\ Len(written) = length
        /\ \A i \in 1..Len(written) : written[i] = 0 + i
    BY DEF CacheStreamInv, CacheStream, Consecutive, TypeOK
  <2>2. DOMAIN written = 1..length /\ written = [i \in 1..length |-> written[i]]
    BY <2>1
  <2>3. \A i \in 1..length : written[i] = i
    BY <2>1
  <2> QED BY <2>2, <2>3 DEF Whole
<1> QED BY <1>1, InvAlways, PTL
=============================================================================
