--------------------------- MODULE TransferProofs ---------------------------
(***************************************************************************)
(* StreamRedirection implements Transfer, for files of any length and      *)
(* channels of any size, whoever fails.  TransferInv is shown to be        *)
(* inductive, part by part: InFile, Outcomes, MainStream.                  *)
(***************************************************************************)
EXTENDS StreamRedirectionProofs

USE KindsAssumption, SizesAssumption

-----------------------------------------------------------------------------
(* InFile. *)

(* A send keeps the messages of a channel within the file. *)
LEMMA AppendWithin ==
    ASSUME NEW q \in Seq(Nat), NEW m \in Nat, NEW n \in Nat, m <= n,
           \A i \in DOMAIN q : q[i] <= n
    PROVE  \A i \in DOMAIN Append(q, m) : Append(q, m)[i] <= n
<1>1. DOMAIN Append(q, m) = 1..Len(q) + 1 /\ DOMAIN q = 1..Len(q) /\ Len(q) \in Nat
  OBVIOUS
<1> SUFFICES ASSUME NEW i \in 1..Len(q) + 1 PROVE Append(q, m)[i] <= n
  BY <1>1
<1>2. CASE i = Len(q) + 1
  BY <1>2, AppendOne
<1>3. CASE i \in 1..Len(q)
  BY <1>1, <1>3, AppendOne
<1> QED BY <1>1, <1>2, <1>3

(* So does a receive. *)
LEMMA PopWithin ==
    ASSUME NEW q \in Seq(Nat), q # <<>>, NEW n \in Nat,
           \A i \in DOMAIN q : q[i] <= n
    PROVE  \A i \in DOMAIN Tail(q) : Tail(q)[i] <= n
<1>1. PICK t \in Seq(Nat) :
         /\ t = Tail(q) /\ Len(t) + 1 = Len(q)
         /\ \A i \in 1..Len(t) : t[i] = q[i + 1]
  BY PopOne
<1>2. DOMAIN t = 1..Len(t) /\ DOMAIN q = 1..Len(q) /\ Len(t) \in Nat
  OBVIOUS
<1>3. ASSUME NEW i \in DOMAIN t PROVE t[i] <= n
  BY <1>1, <1>2, <1>3
<1> QED BY <1>1, <1>3

(* InFile when one channel is sent a message. *)
LEMMA SendWithin ==
    ASSUME TypeOK, InFile, NEW d \in Dests, NEW m \in 0..length, SendTo(d, m),
           length' = length
    PROVE  InFile'
<1>1. queue[d] \in Seq(Nat) /\ length \in Nat /\ m \in Nat
  BY DEF TypeOK
<1>2. \A i \in DOMAIN Append(queue[d], m) : Append(queue[d], m)[i] <= length
  BY <1>1, AppendWithin DEF InFile
<1> QED BY <1>2 DEF InFile, SendTo, TypeOK

(* InFile when one channel loses its first message. *)
LEMMA ReceiveWithin ==
    ASSUME TypeOK, InFile, NEW d \in Dests, queue[d] # <<>>, length' = length,
           queue' = [queue EXCEPT ![d] = Tail(@)]
    PROVE  InFile'
<1>1. queue[d] \in Seq(Nat) /\ length \in Nat
  BY DEF TypeOK
<1>2. \A i \in DOMAIN Tail(queue[d]) : Tail(queue[d])[i] <= length
  BY <1>1, PopWithin DEF InFile
<1> QED BY <1>2 DEF InFile, TypeOK

(* Every step keeps the messages within the file. *)
LEMMA InFileStep == TypeOK /\ InFile /\ [Next]_vars => InFile'
<1> SUFFICES ASSUME TypeOK, InFile, [Next]_vars PROVE InFile'
  OBVIOUS
<1> USE DEF request, channels
<1>0. "main" \in Dests /\ "cache" \in Dests /\ hand \in 0..length /\ Err \in 0..length
  BY DEF Dests, TypeOK, Err
<1>1. CASE SendToMain
  BY <1>0, <1>1, SendWithin DEF SendToMain
<1>2. CASE SendToCache
  BY <1>0, <1>2, SendWithin DEF SendToCache
<1>3. CASE SendErrorToMain
  BY <1>0, <1>3, SendWithin DEF SendErrorToMain
<1>4. CASE SendErrorToCache
  BY <1>0, <1>4, SendWithin DEF SendErrorToCache
<1>5. CASE TakeMessage
  BY <1>0, <1>5, ReceiveWithin DEF TakeMessage
<1>6. CASE WriteChunk
  BY <1>0, <1>6, ReceiveWithin DEF WriteChunk
<1>7. CASE WriterAborts
  BY <1>0, <1>7, ReceiveWithin DEF WriterAborts
<1>8. ASSUME UNCHANGED <<queue, length>> PROVE InFile'
  BY <1>8 DEF InFile
<1>9. CASE Open \/ PollMain \/ PollCache \/ PollNone \/ ReadChunk \/ EndOfSource
           \/ SourceFails \/ CloseChannels \/ EndAfterMainError \/ EndAfterReturn
  <2>1. UNCHANGED <<queue, length>>
    BY <1>9 DEF Open, PollMain, PollCache, PollNone, ReadChunk, EndOfSource, SourceFails,
       CloseChannels, EndAfterMainError, EndAfterReturn, RedirectionEnds, TakeReturn
  <2> QED BY <1>8, <2>1
<1>10. CASE SinkTakesChunk \/ SinkFails \/ EndOfMain
            \/ WriterGivesUp \/ WriterStarts \/ EndOfCache \/ UNCHANGED vars
  <2>1. UNCHANGED <<queue, length>>
    BY <1>10 DEF SinkTakesChunk, SinkFails, EndOfMain, WriterGivesUp, WriterStarts,
       EndOfCache, vars
  <2> QED BY <1>8, <2>1
<1> QED
  BY <1>1, <1>2, <1>3, <1>4, <1>5, <1>6, <1>7, <1>9, <1>10
  DEF Next, ProducerStep, ConsumerStep, WriterStep

-----------------------------------------------------------------------------
(* Outcomes: what is told and what has happened agree. *)

(* Before it has heard from the sink, the producer finds nothing to hear.  *)
LEMMA HeardFromSink ==
    ASSUME TypeOK, Outcomes, ReturnReady("main")
    PROVE  ~Receiving
BY DEF Outcomes, ReturnReady

(* A return channel loses what was heard, and nothing else changes. *)
LEMMA TakeReturnMain ==
    ASSUME TypeOK, TakeReturn("main")
    PROVE  /\ ReturnReady("main") /\ UNCHANGED <<queue, closed, retClosed>>
           /\ ret'["main"] = IF ret["main"] = <<>> THEN <<>> ELSE Tail(ret["main"])
BY DEF TypeOK, TakeReturn, Dests

(* When the sink has accepted the file, nothing but "ok" is heard. *)
LEMMA HearsAcceptance ==
    ASSUME TypeOK, Outcomes, TakeReturn("main"), consumer = "succeeded"
    PROVE  Returned("main") = "ok" /\ ret'["main"] = <<>>
<1>1. ret["main"] \in {<<>>, <<"ok">>}
  BY DEF Outcomes
<1>2. Head(<<"ok">>) = "ok" /\ Tail(<<"ok">>) = <<>> /\ <<"ok">> # <<>>
  OBVIOUS
<1> QED BY <1>1, <1>2, TakeReturnMain DEF Returned

(* The producer hears from the sink before its next chunk. *)
LEMMA PollMainOutcomes == ASSUME TypeOK, MainStream, Outcomes, PollMain PROVE Outcomes'
<1>1. ~Receiving /\ TakeReturn("main")
  BY HeardFromSink DEF PollMain, TakeReturn
<1>2. ~closed["main"]
  BY DEF MainStream, PollMain
<1>3. consumer = "failed"
  BY <1>1, <1>2 DEF Outcomes, Receiving, TypeOK
<1>4. kind = "upload" /\ reply = "none" => ret["main"] = <<"failed">> /\ ~mainFailed
  BY <1>1, <1>3 DEF Outcomes, PollMain, Ended, Receiving
<1>5. ASSUME kind = "upload", reply = "none" PROVE mainFailed'
  <2>1. Returned("main") = "failed"
    BY <1>4, <1>5 DEF Returned
  <2> QED BY <1>5, <2>1 DEF PollMain, RedirectsStream
<1>6. /\ producer = "poll" /\ ~sourceFailed /\ ~mainFailed
      /\ UNCHANGED <<kind, consumer, reply, sourceFailed, received, length>>
  BY DEF PollMain, Outcomes, Ended, request, consumerVars
<1>7. mainFailed' => producer' = "errToCache"
  BY <1>6 DEF PollMain
<1>8. ~Receiving' /\ SinkOutcome' = SinkOutcome
  BY <1>3, <1>6 DEF Receiving, SinkOutcome
<1>9. Promise!Outcome(SinkOutcome') = Promise!Outcome(SinkOutcome)
  BY <1>8
<1> QED BY <1>1, <1>3, <1>5, <1>6, <1>7, <1>8, <1>9 DEF Outcomes, Ended

(* The end of the redirection, told or after an error: an upload that S3   *)
(* has not accepted is reported as failed.                                 *)
LEMMA RedirectionOutcomes ==
    ASSUME TypeOK, MainStream, Outcomes, EndAfterMainError \/ EndAfterReturn
    PROVE  Outcomes'
<1>1. /\ producer = "await" /\ ~Receiving
      /\ UNCHANGED <<kind, length, consumer, received, sourceFailed, closed>>
  <2>1. CASE EndAfterMainError
    BY <2>1 DEF EndAfterMainError, RedirectionEnds, Outcomes, channels, request, consumerVars
  <2>2. CASE EndAfterReturn
    BY <2>2, HeardFromSink DEF EndAfterReturn, RedirectionEnds, TakeReturn, request, consumerVars
  <2> QED BY <2>1, <2>2
<1>2. consumer \in {"succeeded", "failed"}
  BY <1>1 DEF TypeOK, Receiving
<1>3. consumer = "succeeded" =>
        /\ EndAfterReturn /\ ~mainFailed' /\ ret'["main"] = <<>> /\ ~sourceFailed
        /\ kind = "upload" => reply' \in {"ok", "failed"}
  <2> SUFFICES ASSUME consumer = "succeeded" PROVE
        /\ EndAfterReturn /\ ~mainFailed' /\ ret'["main"] = <<>> /\ ~sourceFailed
        /\ kind = "upload" => reply' \in {"ok", "failed"}
    OBVIOUS
  <2>1. ~mainFailed /\ ~sourceFailed
    BY DEF Outcomes
  <2>2. EndAfterReturn /\ TakeReturn("main")
    BY <2>1 DEF EndAfterMainError, EndAfterReturn
  <2>3. Returned("main") = "ok" /\ ret'["main"] = <<>>
    BY <2>2, HearsAcceptance
  <2> QED BY <2>1, <2>2, <2>3 DEF EndAfterReturn, RedirectionEnds, AnyFailure
<1>4. consumer = "failed" /\ kind = "upload" => reply' = "failed"
  <2> SUFFICES ASSUME consumer = "failed", kind = "upload" PROVE reply' = "failed"
    OBVIOUS
  <2>1. CASE mainFailed
    BY <2>1 DEF EndAfterMainError, EndAfterReturn, RedirectionEnds, AnyFailure
  <2>2. CASE ~mainFailed
    <3>1. ret["main"] = <<"failed">>
      BY <1>1, <2>2 DEF Outcomes
    <3>2. Returned("main") = "failed"
      BY <3>1 DEF Returned
    <3> QED BY <2>2, <3>2 DEF EndAfterMainError, EndAfterReturn, RedirectionEnds, AnyFailure
  <2> QED BY <2>1, <2>2
<1>5. /\ producer' \in {"done", "panic"} /\ (kind # "upload" => reply' = reply)
      /\ kind = "upload" => producer' = "done" /\ reply' # "none"
  BY DEF EndAfterMainError, EndAfterReturn, RedirectionEnds, AnyFailure
<1>6. (Receiving <=> Receiving') /\ SinkOutcome' = SinkOutcome
  BY <1>1 DEF Receiving, SinkOutcome
<1>7. Promise!Outcome(SinkOutcome') = IF consumer = "succeeded" THEN "ok" ELSE "failed"
  BY <1>2, <1>6 DEF SinkOutcome, Promise!Outcome
<1>8. kind # "upload" => reply' = Promise!Outcome(SinkOutcome')
  BY <1>1, <1>5, <1>6 DEF Outcomes
<1>9. /\ sourceFailed' => RedirectsStream' /\ Ended'
      /\ mainFailed' => Ended'
  BY <1>1, <1>5 DEF Outcomes, Ended, RedirectsStream
<1>10. /\ ~Receiving'
       /\ kind = "upload" => reply' \in {Promise!Outcome(SinkOutcome'), "failed"}
  BY <1>1, <1>2, <1>3, <1>4, <1>6, <1>7
<1>11. consumer = "succeeded" => Len(received) = length /\ closed["main"]
  BY DEF Outcomes
<1> QED BY <1>1, <1>3, <1>5, <1>8, <1>9, <1>10, <1>11 DEF Outcomes

(* What the consumer puts on its return channel is alone there. *)
LEMMA PutFailed ==
    ASSUME TypeOK, Outcomes, Receiving, PutOnReturn("failed")
    PROVE  ret'["main"] = <<"failed">>
<1>1. ret["main"] = <<>> /\ Append(<<>>, "failed") = <<"failed">>
  BY DEF Outcomes
<1>2. ret'["main"] = Append(ret["main"], "failed")
  BY DEF PutOnReturn, TypeOK, Dests
<1> QED BY <1>1, <1>2

(* The sink, or an error it is sent, ends the consumer. *)
LEMMA ConsumerOutcomes ==
    ASSUME TypeOK, Outcomes, Receiving, producerVars' = producerVars,
           kind' = kind, closed' = closed,
           ConsumerReturns("failed"),
           ret'["main"] = IF kind = "upload" THEN <<"failed">> ELSE ret'["main"]
    PROVE  Outcomes'
<1>1. /\ consumer' = "failed" /\ ~Receiving' /\ SinkOutcome' = "refused"
      /\ Promise!Outcome(SinkOutcome') = "failed"
  BY DEF ConsumerReturns, Receiving, SinkOutcome, Promise!Outcome
<1>2. kind = "upload" => reply = "none" /\ reply' = reply
  BY DEF Outcomes, ConsumerReturns
<1>3. kind # "upload" => reply' = "failed"
  BY DEF ConsumerReturns
<1>4. /\ sourceFailed' => RedirectsStream' /\ (Ended' \/ producer' = "errToMain")
      /\ mainFailed' => Ended'
  BY DEF Outcomes, producerVars, RedirectsStream, Ended
<1> QED BY <1>1, <1>2, <1>3, <1>4 DEF Outcomes

(* The consumer accepts the file: the main channel was closed with nothing *)
(* left in it, so that the file has ended.                                 *)
LEMMA EndOfMainOutcomes ==
    ASSUME TypeOK, MainStream, Outcomes, EndOfMain
    PROVE  Outcomes'
<1>1. /\ Receiving /\ consumer' = "succeeded" /\ consumer = "recv"
      /\ UNCHANGED <<kind, length, received, closed, producer, mainFailed, sourceFailed>>
      /\ queue["main"] = <<>> /\ closed["main"]
  BY DEF EndOfMain, ConsumerReturns, Receiving, request, producerVars
<1>2. Ended /\ producer # "toMain"
  BY <1>1 DEF MainStream, Ended
<1>3. Len(received) = length /\ ~sourceFailed
  <2>1. /\ Taken + Len(queue["main"]) = Sent
        /\ hand = length /\ ~sourceFailed
    BY <1>1, <1>2 DEF MainStream, MainInStep, ErrorIsLast
  <2>2. Taken = Len(received) + 0 /\ Len(queue["main"]) = 0 /\ Sent = hand
    BY <1>1, <1>2 DEF Taken, Sent
  <2> QED BY <2>1, <2>2 DEF TypeOK
<1>4. ~mainFailed /\ ret["main"] = <<>>
  BY <1>1 DEF Outcomes
<1>5. ret'["main"] = IF kind = "upload" THEN <<"ok">> ELSE <<>>
  BY <1>4 DEF EndOfMain, PutOnReturn, TypeOK, Dests
<1>6. /\ kind = "upload" => reply = "none" /\ reply' = reply
      /\ kind # "upload" => reply' = "ok"
  BY <1>1 DEF Outcomes, EndOfMain, ConsumerReturns
<1>7. ~Receiving' /\ Promise!Outcome(SinkOutcome') = "ok"
  BY <1>1 DEF Receiving, SinkOutcome, Promise!Outcome
<1> QED BY <1>1, <1>3, <1>4, <1>5, <1>6, <1>7 DEF Outcomes

(* Steps of the producer and of the writer between which the sink does     *)
(* nothing and is told nothing.                                            *)
LEMMA QuietOutcomes ==
    ASSUME TypeOK, MainStream, Outcomes,
           UNCHANGED <<kind, length, consumer, received, reply, mainFailed, sourceFailed,
                       retClosed>>,
           ret'["main"] = ret["main"],
           closed["main"] => closed'["main"],
           producer = "done" => producer' = "done",
           Ended => Ended',
           sourceFailed => Ended' \/ producer' = "errToMain"
    PROVE  Outcomes'
<1>1. Receiving' = Receiving /\ SinkOutcome' = SinkOutcome /\ RedirectsStream' = RedirectsStream
  BY DEF Receiving, SinkOutcome, RedirectsStream
<1>2. Promise!Outcome(SinkOutcome') = Promise!Outcome(SinkOutcome)
  BY <1>1
<1> QED BY <1>1, <1>2 DEF Outcomes

(* Every step keeps what is told and what has happened in agreement.       *)
LEMMA OutcomesStep ==
    TypeOK /\ MainStream /\ Outcomes /\ [Next]_vars => Outcomes'
<1> SUFFICES ASSUME TypeOK, MainStream, Outcomes, [Next]_vars PROVE Outcomes'
  OBVIOUS
<1> USE DEF request, channels, producerVars, consumerVars, writerVars, Dests
<1>1. CASE Open
  BY <1>1, QuietOutcomes DEF Open, Ended, Outcomes
<1>2. CASE PollMain
  BY <1>2, PollMainOutcomes
<1>3. CASE PollCache
  BY <1>3, QuietOutcomes DEF PollCache, TakeReturn, Ended, Outcomes
<1>4. CASE PollNone
  BY <1>4, QuietOutcomes DEF PollNone, Ended, Outcomes
<1>5. CASE ReadChunk
  BY <1>5, QuietOutcomes DEF ReadChunk, Ended, Outcomes
<1>6. CASE EndOfSource
  BY <1>6, QuietOutcomes DEF EndOfSource, Ended, Outcomes
<1>7. CASE SourceFails
  <2>1. /\ ~mainFailed /\ producer' = "errToMain" /\ (sourceFailed' => RedirectsStream')
    BY <1>7 DEF SourceFails, Outcomes, Ended, RedirectsStream
  <2>2. consumer # "succeeded"
    BY <1>7 DEF SourceFails, Outcomes, MainStream
  <2>3. /\ UNCHANGED <<kind, length, consumer, received, reply, mainFailed, retClosed, ret>>
        /\ producer = "recv"
    BY <1>7 DEF SourceFails
  <2>4. Receiving' = Receiving /\ SinkOutcome' = SinkOutcome
    BY <2>3 DEF Receiving, SinkOutcome
  <2>5. Promise!Outcome(SinkOutcome') = Promise!Outcome(SinkOutcome)
    BY <2>4
  <2> QED BY <2>1, <2>2, <2>3, <2>4, <2>5 DEF Outcomes
<1>8. CASE SendToMain
  BY <1>8, QuietOutcomes DEF SendToMain, SendTo, AfterChunk, Ended, Outcomes
<1>9. CASE SendToCache
  BY <1>9, QuietOutcomes DEF SendToCache, SendTo, AfterChunk, Ended, Outcomes
<1>10. CASE SendErrorToMain
  BY <1>10, QuietOutcomes DEF SendErrorToMain, SendTo, AfterError, Ended, Outcomes
<1>11. CASE SendErrorToCache
  BY <1>11, QuietOutcomes DEF SendErrorToCache, SendTo, AfterError, Ended, Outcomes
<1>12. CASE CloseChannels
  BY <1>12, QuietOutcomes DEF CloseChannels, BothClosed, Ended, Outcomes
<1>13. CASE EndAfterMainError \/ EndAfterReturn
  BY <1>13, RedirectionOutcomes
<1>14. CASE TakeMessage
  <2>1. CASE Head(queue["main"]) # Err
    <3>1. /\ Receiving /\ Receiving' /\ UNCHANGED <<retClosed, ret, reply, closed>>
          /\ consumer # "succeeded" /\ consumer' # "succeeded"
          /\ UNCHANGED <<kind, producer, mainFailed, sourceFailed>>
      BY <1>14, <2>1 DEF TakeMessage, Receiving
    <3>2. RedirectsStream' = RedirectsStream /\ (Ended' <=> Ended)
      BY <3>1 DEF RedirectsStream, Ended
    <3> QED BY <3>1, <3>2 DEF Outcomes
  <2>2. CASE Head(queue["main"]) = Err
    <3>1. Receiving /\ ConsumerReturns("failed") /\ UNCHANGED <<kind, closed, producerVars>>
      BY <1>14, <2>2 DEF TakeMessage, Receiving, ConsumerReturns
    <3>2. ret'["main"] = IF kind = "upload" THEN <<"failed">> ELSE ret'["main"]
      BY <1>14, <2>2, <3>1, PutFailed DEF TakeMessage
    <3> QED BY <3>1, <3>2, ConsumerOutcomes
  <2> QED BY <2>1, <2>2
<1>15. CASE SinkTakesChunk
  <2>1. /\ Receiving /\ Receiving' /\ UNCHANGED <<retClosed, ret, reply, closed>>
        /\ consumer # "succeeded" /\ consumer' # "succeeded"
        /\ UNCHANGED <<kind, producer, mainFailed, sourceFailed>>
    BY <1>15 DEF SinkTakesChunk, Receiving
  <2>2. RedirectsStream' = RedirectsStream /\ (Ended' <=> Ended)
    BY <2>1 DEF RedirectsStream, Ended
  <2> QED BY <2>1, <2>2 DEF Outcomes
<1>16. CASE SinkFails
  <2>1. Receiving /\ ConsumerReturns("failed") /\ UNCHANGED <<kind, closed, producerVars>>
    BY <1>16 DEF SinkFails, Receiving, ConsumerReturns
  <2>2. ret'["main"] = IF kind = "upload" THEN <<"failed">> ELSE ret'["main"]
    BY <1>16, <2>1, PutFailed DEF SinkFails
  <2> QED BY <2>1, <2>2, ConsumerOutcomes
<1>17. CASE EndOfMain
  BY <1>17, EndOfMainOutcomes
<1>18. CASE WriterGivesUp \/ WriterStarts \/ UNCHANGED vars
  BY <1>18, QuietOutcomes DEF WriterGivesUp, WriterStarts, vars, Ended, Outcomes
<1>19. CASE WriteChunk \/ WriterAborts \/ EndOfCache
  <2>1. /\ UNCHANGED <<kind, length, consumer, received, reply, mainFailed, sourceFailed,
                       retClosed, closed, producer>>
        /\ ret'["main"] = ret["main"]
    BY <1>19 DEF WriteChunk, WriterAborts, EndOfCache, WriterFails, TypeOK
  <2> QED BY <2>1, QuietOutcomes DEF Ended, Outcomes
<1> QED
  BY <1>1, <1>2, <1>3, <1>4, <1>5, <1>6, <1>7, <1>8, <1>9, <1>10, <1>11, <1>12,
     <1>13, <1>14, <1>15, <1>16, <1>17, <1>18, <1>19
  DEF Next, ProducerStep, ConsumerStep, WriterStep

-----------------------------------------------------------------------------
(* MainStream: the messages in the main channel go on from what was taken. *)

(* Steps that leave the main channel and its ends alone, and send nothing. *)
LEMMA QuietStream ==
    ASSUME TypeOK, MainStream,
           UNCHANGED <<kind, length, consumer, received, holding, hand, sourceFailed>>,
           queue'["main"] = queue["main"],
           Sent' = Sent,
           closed'["main"] => producer' \in {"await", "done", "panic"},
           Receiving /\ Ended' /\ ~Ended => hand = length /\ ~sourceFailed,
           Ended => Ended'
    PROVE  MainStream'
<1>1. Receiving' = Receiving /\ Taken' = Taken
  BY DEF Receiving, Taken
<1>2. ASSUME Receiving PROVE MainInStep'
  <2>1. CASE /\ Consecutive(queue["main"], Taken)
             /\ Taken + Len(queue["main"]) = Sent
             /\ Ended => hand = length /\ ~sourceFailed
    BY <1>1, <1>2, <2>1 DEF MainInStep, Consecutive
  <2>2. CASE /\ Ended /\ ErrorIsLast
             /\ \A i \in 1..Len(queue["main"]) - 1 : queue["main"][i] = Taken + i
             /\ Taken + Len(queue["main"]) - 1 <= hand
    BY <1>1, <2>2 DEF MainInStep, ErrorIsLast
  <2> QED BY <1>2, <2>1, <2>2 DEF MainStream, MainInStep
<1> QED BY <1>1, <1>2 DEF MainStream, Consecutive

(* Chunks taken are counted by what was received. *)
LEMMA TakenNat == TypeOK => Taken \in Nat /\ Len(queue["main"]) \in Nat /\ Len(received) \in Nat
BY DEF TypeOK, Taken, Dests

(* The next chunk goes behind those the sink has still to take. *)
LEMMA SendToMainStream ==
    ASSUME TypeOK, CacheRoom, MainStream, Outcomes, SendToMain
    PROVE  MainStream'
<1> DEFINE q == queue["main"]
<1>1. /\ UNCHANGED <<kind, length, consumer, received, holding, hand, sourceFailed, closed>>
      /\ queue'["main"] = Append(q, hand)
      /\ q \in Seq(Nat) /\ hand \in Nat
  BY DEF TypeOK, Dests, SendToMain, SendTo, request, consumerVars
<1>2. /\ producer = "toMain" /\ producer' \in {"toCache", "poll", "close"}
      /\ producer' = "close" => kind = "s3" /\ hand = length
  BY DEF SendToMain, AfterChunk
<1>3. producer' = "close" => ~sourceFailed
  BY <1>2 DEF Outcomes, RedirectsStream
<1>4. Receiving' = Receiving /\ Taken' = Taken
  BY <1>1 DEF Receiving, Taken
<1>5. Ended' => hand = length /\ ~sourceFailed
  BY <1>2, <1>3 DEF Ended
<1>6. ASSUME Receiving PROVE MainInStep'
  <2>1. Consecutive(q, Taken) /\ Taken + Len(q) = hand - 1
    <3>1. MainInStep /\ ~Ended /\ Sent = hand - 1
      BY <1>2, <1>6 DEF MainStream, Ended, Sent
    <3> QED BY <3>1 DEF MainInStep
  <2>2. hand = Taken + (Len(q) + 1)
    <3>1. Taken \in Nat /\ Len(q) \in Nat
      BY TakenNat
    <3> QED BY <1>1, <2>1, <3>1
  <2>3. Len(Append(q, hand)) = Len(q) + 1
    BY <1>1, AppendOne
  <2>4. ASSUME NEW i \in 1..Len(Append(q, hand)) PROVE Append(q, hand)[i] = Taken + i
    <3>1. CASE i = Len(q) + 1
      BY <1>1, <2>2, <3>1, AppendOne
    <3>2. CASE i \in 1..Len(q)
      BY <1>1, <2>1, <3>2, AppendOne DEF Consecutive
    <3> QED BY <2>3, <3>1, <3>2, TakenNat
  <2>5. Taken + Len(Append(q, hand)) = Sent'
    BY <1>1, <1>2, <2>2, <2>3 DEF Sent
  <2>6. Consecutive(Append(q, hand), Taken)
    BY <2>4 DEF Consecutive
  <2> QED BY <1>1, <1>4, <1>5, <2>5, <2>6 DEF MainInStep
<1> QED BY <1>1, <1>2, <1>4, <1>6 DEF MainStream, Consecutive

(* The error goes behind the chunks, and nothing after it. *)
LEMMA SendErrorToMainStream ==
    ASSUME TypeOK, MainStream, SendErrorToMain
    PROVE  MainStream'
<1> DEFINE q == queue["main"]
<1>1. /\ UNCHANGED <<kind, length, consumer, received, holding, hand, sourceFailed, closed>>
      /\ queue'["main"] = Append(q, Err)
      /\ q \in Seq(Nat) /\ Err \in Nat /\ hand \in Nat
  BY DEF TypeOK, Dests, SendErrorToMain, SendTo, request, consumerVars, Err
<1>2. producer = "errToMain" /\ producer' \in {"errToCache", "close", "done"}
  BY DEF SendErrorToMain, AfterError
<1>3. Receiving' = Receiving /\ Taken' = Taken /\ Ended'
  BY <1>1, <1>2 DEF Receiving, Taken, Ended
<1>4. ASSUME Receiving PROVE MainInStep'
  <2>1. Consecutive(q, Taken) /\ Taken + Len(q) = hand
    <3>1. MainInStep /\ ~Ended /\ Sent = hand
      BY <1>2, <1>4 DEF MainStream, Ended, Sent
    <3> QED BY <3>1 DEF MainInStep
  <2>2. /\ Len(Append(q, Err)) = Len(q) + 1 /\ Append(q, Err)[Len(q) + 1] = Err
        /\ \A i \in 1..Len(q) : Append(q, Err)[i] = q[i]
    BY <1>1, AppendOne
  <2>3. ErrorIsLast'
    <3>1. Append(q, Err) # <<>>
      <4>1. q \in Seq(Nat) /\ Err \in Nat
        BY <1>1
      <4> HIDE DEF q
      <4> QED BY <4>1, AppendNonempty
    <3> QED BY <1>1, <2>2, <3>1 DEF ErrorIsLast
  <2>4. Len(Append(q, Err)) - 1 = Len(q)
    BY <2>2, TakenNat
  <2>5. \A i \in 1..Len(q) : Append(q, Err)[i] = Taken + i
    BY <2>1, <2>2 DEF Consecutive
  <2>6. Taken + Len(Append(q, Err)) - 1 <= hand
    BY <1>1, <2>1, <2>2, TakenNat
  <2> QED BY <1>1, <1>3, <2>3, <2>4, <2>5, <2>6 DEF MainInStep
<1> QED BY <1>1, <1>2, <1>3, <1>4 DEF MainStream, Consecutive

(* The chunk that is taken is the next one. *)
LEMMA TakeMessageStream ==
    ASSUME TypeOK, MainStream, TakeMessage
    PROVE  MainStream'
<1>1. /\ UNCHANGED <<kind, length, received, hand, sourceFailed, closed, producer>>
      /\ consumer = "recv" /\ queue["main"] \in Seq(Nat) /\ queue["main"] # <<>>
      /\ queue'["main"] = Tail(queue["main"])
      /\ Head(queue["main"]) = queue["main"][1]
      /\ MainInStep
  BY DEF TypeOK, Dests, TakeMessage, ConsumerReturns, request, producerVars, MainStream,
         Receiving
<1>2. CASE Head(queue["main"]) = Err
  <2>1. ~Receiving' /\ consumer' # "send"
    BY <1>2 DEF TakeMessage, ConsumerReturns, Receiving
  <2> QED BY <1>1, <2>1 DEF MainStream, Consecutive
<1>3. CASE Head(queue["main"]) # Err
  <2>1. PICK q \in Seq(Nat) : q = queue["main"] /\ q # <<>>
    BY <1>1
  <2>2. PICK t \in Seq(Nat) :
            /\ t = Tail(q) /\ Len(t) + 1 = Len(q)
            /\ \A i \in 1..Len(t) : t[i] = q[i + 1]
    BY <2>1, PopOne
  <2>3. queue'["main"] = t
    BY <1>1, <2>1, <2>2
  <2>4. PICK n \in Nat : n = Taken
    BY TakenNat
  <2>5. /\ consumer' = "send" /\ holding' = q[1] /\ Receiving'
        /\ Taken' = n + 1
    <3>1. consumer' = "send" /\ holding' = q[1]
      BY <1>1, <1>3, <2>1 DEF TakeMessage
    <3>2. n = Len(received) /\ Taken' = Len(received) + 1
      BY <1>1, <2>4, <3>1, TakenNat DEF Taken
    <3> QED BY <3>1, <3>2 DEF Receiving
  <2>6. Sent' = Sent /\ Ended' = Ended
    BY <1>1 DEF Sent, Ended
  <2>7. CASE /\ Consecutive(q, n)
             /\ n + Len(q) = Sent
             /\ Ended => hand = length /\ ~sourceFailed
    <3>1. 1 \in 1..Len(q)
      BY <2>2
    <3>2. q[1] = n + 1
      BY <2>7, <3>1 DEF Consecutive
    <3>3. ASSUME NEW i \in 1..Len(t) PROVE t[i] = (n + 1) + i
      <4>1. i + 1 \in 1..Len(q) /\ i \in Nat
        BY <2>2
      <4>2. t[i] = n + (i + 1)
        BY <2>2, <2>7, <4>1 DEF Consecutive
      <4> QED BY <4>1, <4>2
    <3>4. (n + 1) + Len(t) = Sent'
      BY <2>2, <2>6, <2>7
    <3>5. Consecutive(queue'["main"], Taken')
      BY <2>3, <2>5, <3>3 DEF Consecutive
    <3>6. MainInStep'
      BY <1>1, <2>3, <2>5, <2>6, <2>7, <3>4, <3>5 DEF MainInStep
    <3> QED BY <1>1, <2>5, <3>2, <3>6 DEF MainStream, Consecutive
  <2>8. CASE /\ Ended /\ q[Len(q)] = Err
             /\ \A i \in 1..Len(q) - 1 : q[i] = n + i
             /\ n + Len(q) - 1 <= hand
    <3>1. Len(t) \in Nat \ {0}
      <4>1. q[1] # Err
        BY <1>1, <1>3, <2>1
      <4>2. Len(t) \in Nat /\ Len(t) + 1 = Len(q)
        BY <2>2
      <4>3. Len(q) # 1
        BY <2>8, <4>1
      <4> QED BY <4>2, <4>3
    <3>2. q[1] = n + 1
      BY <2>2, <2>8, <3>1
    <3>3. t # <<>> /\ t[Len(t)] = Err
      <4>1. Len(t) \in 1..Len(t) /\ t # <<>>
        BY <3>1
      <4>2. t[Len(t)] = q[Len(t) + 1]
        BY <2>2, <4>1
      <4> QED BY <2>2, <2>8, <4>1, <4>2
    <3>4. ASSUME NEW i \in 1..Len(t) - 1 PROVE t[i] = (n + 1) + i
      <4>1. i + 1 \in 1..Len(q) - 1 /\ i \in 1..Len(t) /\ i \in Nat
        BY <2>2, <3>1
      <4>2. t[i] = n + (i + 1)
        BY <2>2, <2>8, <4>1
      <4> QED BY <4>1, <4>2
    <3>5. (n + 1) + Len(t) - 1 <= hand
      <4>1. hand \in Nat
        BY DEF TypeOK
      <4> QED BY <2>2, <2>8, <4>1
    <3>6. ErrorIsLast'
      BY <2>3, <3>3 DEF ErrorIsLast
    <3>7. MainInStep'
      BY <1>1, <2>3, <2>5, <2>6, <2>8, <3>4, <3>5, <3>6 DEF MainInStep
    <3> QED BY <1>1, <2>5, <3>2, <3>7 DEF MainStream, Consecutive
  <2> QED BY <1>1, <2>1, <2>4, <2>7, <2>8 DEF MainInStep, ErrorIsLast
<1> QED BY <1>2, <1>3

(* The chunk that is received follows those before. *)
LEMMA SinkTakesStream ==
    ASSUME TypeOK, MainStream, SinkTakesChunk
    PROVE  MainStream'
<1>1. /\ UNCHANGED <<kind, length, hand, sourceFailed, closed, producer, queue>>
      /\ consumer = "send" /\ consumer' = "recv"
      /\ received' = Append(received, Body(holding))
      /\ MainInStep
  BY DEF SinkTakesChunk, request, channels, producerVars, MainStream, Receiving
<1>2. received \in Seq(Nat) /\ Body(holding) \in Nat
  BY DEF TypeOK, Body
<1>3. /\ Len(received') = Len(received) + 1
      /\ received'[Len(received) + 1] = Body(holding)
      /\ \A i \in 1..Len(received) : received'[i] = received[i]
  BY <1>1, <1>2, AppendOne
<1>4. Taken' = Taken
  BY <1>1, <1>2, <1>3 DEF Taken
<1>5. MainInStep'
  <2>1. Sent' = Sent /\ Ended' = Ended /\ ErrorIsLast' = ErrorIsLast
    BY <1>1 DEF Sent, Ended, ErrorIsLast
  <2> QED BY <1>1, <1>4, <2>1 DEF MainInStep, Consecutive
<1>6. kind # "local" => Consecutive(received', 0)
  <2> SUFFICES ASSUME kind # "local", NEW i \in 1..Len(received')
               PROVE  received'[i] = 0 + i
    BY DEF Consecutive
  <2>1. Body(holding) = Len(received) + 1
    BY <1>1, <1>2 DEF Body, MainStream, Taken
  <2>2. CASE i = Len(received) + 1
    BY <1>2, <1>3, <2>1, <2>2
  <2>3. CASE i \in 1..Len(received)
    BY <1>3, <2>3 DEF MainStream, Consecutive
  <2> QED BY <1>2, <1>3, <2>2, <2>3
<1> QED BY <1>1, <1>5, <1>6 DEF MainStream

(* Every step keeps the main channel in step with the sink. *)
LEMMA MainStreamStep ==
    TypeOK /\ CacheRoom /\ MainStream /\ Outcomes /\ [Next]_vars => MainStream'
<1> SUFFICES ASSUME TypeOK, CacheRoom, MainStream, Outcomes, [Next]_vars
             PROVE  MainStream'
  OBVIOUS
<1> USE DEF request, channels, producerVars, consumerVars, writerVars, Dests
<1>1. CASE Open
  BY <1>1, QuietStream DEF Open, Ended, MainStream, Sent
<1>2. CASE PollMain
  <2>1. ~Receiving
    BY <1>2, HeardFromSink DEF PollMain, TakeReturn
  <2> QED BY <1>2, <2>1, QuietStream DEF PollMain, TakeReturn, Ended, MainStream, Sent
<1>3. CASE PollCache
  BY <1>3, QuietStream DEF PollCache, TakeReturn, Ended, MainStream, Sent
<1>4. CASE PollNone
  BY <1>4, QuietStream DEF PollNone, Ended, MainStream, Sent
<1>5. CASE ReadChunk
  <2>1. /\ UNCHANGED <<kind, length, consumer, received, holding, sourceFailed, queue, closed>>
        /\ producer = "recv" /\ producer' = "toMain" /\ hand' = hand + 1
    BY <1>5 DEF ReadChunk
  <2>2. Receiving' = Receiving /\ Taken' = Taken /\ ~Ended' /\ ~Ended
    BY <2>1 DEF Receiving, Taken, Ended
  <2>3. Sent' = Sent
    BY <2>1 DEF Sent, TypeOK
  <2>4. Receiving => MainInStep'
    BY <2>1, <2>2, <2>3 DEF MainStream, MainInStep, Consecutive
  <2> QED BY <2>1, <2>2, <2>4 DEF MainStream, Consecutive
<1>6. CASE EndOfSource
  <2>1. ~sourceFailed
    BY <1>6 DEF EndOfSource, Outcomes, Ended
  <2> QED BY <1>6, <2>1, QuietStream DEF EndOfSource, Ended, MainStream, Sent
<1>7. CASE SourceFails
  <2>1. /\ UNCHANGED <<kind, length, consumer, received, holding, hand, queue, closed>>
        /\ producer = "recv" /\ producer' = "errToMain"
    BY <1>7 DEF SourceFails
  <2>2. /\ Receiving' = Receiving /\ Taken' = Taken /\ Sent' = Sent
        /\ ~Ended' /\ ~Ended
    BY <2>1 DEF Receiving, Taken, Ended, Sent
  <2>3. Receiving => MainInStep'
    BY <2>1, <2>2 DEF MainStream, MainInStep, Consecutive
  <2> QED BY <2>1, <2>2, <2>3 DEF MainStream, Consecutive
<1>8. CASE SendToMain
  BY <1>8, SendToMainStream
<1>9. CASE SendToCache
  <2>1. producer = "toCache" /\ (producer' = "close" => kind = "s3" /\ hand = length)
    BY <1>9 DEF SendToCache, AfterChunk
  <2>2. ~sourceFailed
    BY <2>1 DEF Outcomes, Ended
  <2> QED BY <1>9, <2>1, <2>2, QuietStream
          DEF SendToCache, SendTo, AfterChunk, Ended, MainStream, Sent, TypeOK
<1>10. CASE SendErrorToMain
  BY <1>10, SendErrorToMainStream
<1>11. CASE SendErrorToCache
  BY <1>11, QuietStream DEF SendErrorToCache, SendTo, AfterError, Ended, MainStream, Sent, TypeOK
<1>12. CASE CloseChannels
  BY <1>12, QuietStream DEF CloseChannels, BothClosed, Ended, MainStream, Sent
<1>13. CASE EndAfterMainError \/ EndAfterReturn
  BY <1>13, QuietStream DEF EndAfterMainError, EndAfterReturn, RedirectionEnds, TakeReturn,
     Ended, MainStream, Sent
<1>14. CASE TakeMessage
  BY <1>14, TakeMessageStream
<1>15. CASE SinkTakesChunk
  BY <1>15, SinkTakesStream
<1>16. CASE SinkFails \/ EndOfMain
  <2>1. /\ ~Receiving' /\ consumer' # "send"
        /\ UNCHANGED <<kind, received, closed, producer>>
    BY <1>16 DEF SinkFails, EndOfMain, ConsumerReturns, Receiving
  <2> QED BY <2>1 DEF MainStream, Consecutive
<1>17. CASE WriterGivesUp \/ WriterStarts \/ UNCHANGED vars
  BY <1>17, QuietStream DEF WriterGivesUp, WriterStarts, vars, Ended, MainStream, Sent
<1>18. CASE WriteChunk \/ WriterAborts \/ EndOfCache
  <2>1. /\ UNCHANGED <<kind, length, consumer, received, holding, hand, sourceFailed,
                       closed, producer>>
        /\ queue'["main"] = queue["main"]
    BY <1>18 DEF WriteChunk, WriterAborts, EndOfCache, WriterFails, TypeOK
  <2> QED BY <2>1, QuietStream DEF Ended, MainStream, Sent
<1> QED
  BY <1>1, <1>2, <1>3, <1>4, <1>5, <1>6, <1>7, <1>8, <1>9, <1>10, <1>11, <1>12,
     <1>13, <1>14, <1>15, <1>16, <1>17, <1>18
  DEF Next, ProducerStep, ConsumerStep, WriterStep

-----------------------------------------------------------------------------
(* The whole invariant. *)

(* At the start nothing was sent, taken or told. *)
LEMMA TransferInit == Init => TransferInv
<1> SUFFICES ASSUME Init PROVE TransferInv
  OBVIOUS
<1>1. CacheStreamInv
  BY InvInit
<1>2. MainStream
  BY DEF Init, MainStream, MainInStep, Consecutive, Receiving, Taken, Sent, Ended, Dests
<1>3. Outcomes
  BY DEF Init, Outcomes, Receiving, Ended, Dests
<1>4. InFile
  BY DEF Init, InFile
<1> QED BY <1>1, <1>2, <1>3, <1>4 DEF TransferInv

(* The parts together are inductive. *)
LEMMA TransferStep == TransferInv /\ [Next]_vars => TransferInv'
BY InvStep, MainStreamStep, OutcomesStep, InFileStep DEF TransferInv, CacheStreamInv

(* The goroutines of a transfer agree, in every state, on what was sent,   *)
(* taken and told.                                                         *)
THEOREM TransferInvAlways == Spec => []TransferInv
BY TransferInit, TransferStep, PTL DEF Spec

(* What doUpload or doDownload reports as done has reached S3 or the       *)
(* client whole and in order, and an upload was accepted, whatever failed  *)
(* on the way.                                                             *)
THEOREM SuccessIsWholeAlways == Spec => []SuccessIsWhole
<1>1. TransferInv => SuccessIsWhole
  <2> SUFFICES ASSUME TransferInv, reply = "ok", kind # "local"
               PROVE  received = Whole /\ consumer = "succeeded"
    BY DEF SuccessIsWhole
  <2>1. consumer = "succeeded"
    BY DEF TransferInv, Outcomes, SinkOutcome, Promise!Outcome, CacheStreamInv, TypeOK,
       Receiving
  <2>2. /\ received \in Seq(Nat) /\ Len(received) = length
        /\ \A i \in 1..Len(received) : received[i] = 0 + i
    BY <2>1 DEF TransferInv, CacheStreamInv, TypeOK, MainStream, Consecutive, Outcomes
  <2>3. DOMAIN received = 1..length /\ received = [i \in 1..length |-> received[i]]
    BY <2>2
  <2>4. \A i \in 1..length : received[i] = i
    BY <2>2
  <2> QED BY <2>1, <2>3, <2>4 DEF Whole
<1> QED BY <1>1, TransferInvAlways, PTL

-----------------------------------------------------------------------------
(* The refinement: every step is a step of Transfer, or a stutter.         *)

(* What Transfer does not see. *)
LEMMA StepUnseen ==
    ASSUME UNCHANGED <<kind, length, received, consumer, reply, written, writer>>
    PROVE  UNCHANGED Promise!vars
BY DEF Promise!vars, SinkOutcome, CopyOutcome

(* The answer to an upload is the outcome at S3, or a failure. *)
LEMMA RedirectionRefines ==
    ASSUME TransferInv, TransferInv', EndAfterMainError \/ EndAfterReturn
    PROVE  [Promise!Next]_(Promise!vars)
<1>1. /\ UNCHANGED <<kind, length, received, consumer, written, writer>>
      /\ producer = "await"
      /\ \/ kind = "edge" /\ reply' = reply
         \/ kind = "upload" /\ reply' # "none"
  BY DEF EndAfterMainError, EndAfterReturn, RedirectionEnds, AnyFailure, request,
         consumerVars, writerVars
<1>2. CASE kind = "edge"
  BY <1>1, <1>2, StepUnseen
<1>3. CASE kind = "upload"
  <2>1. reply = "none"
    BY <1>1, <1>3 DEF TransferInv, Outcomes
  <2>2. ~Receiving' /\ reply' \in {Promise!Outcome(SinkOutcome'), "failed"}
    BY <1>1, <1>3 DEF TransferInv, Outcomes
  <2>3. SinkOutcome' = SinkOutcome /\ CopyOutcome' = CopyOutcome
    BY <1>1 DEF SinkOutcome, CopyOutcome
  <2>4. SinkOutcome # "open"
    BY <1>1, <2>2 DEF SinkOutcome, Receiving, TransferInv, CacheStreamInv, TypeOK
  <2>5. reply' \in {Promise!Outcome(SinkOutcome), "failed"}
    BY <2>2, <2>3
  <2> QED BY <1>1, <2>1, <2>3, <2>4, <2>5 DEF Promise!Next, Promise!Answer
<1> QED BY <1>1, <1>2, <1>3

(* The consumer returns: the sink settles, and a download is answered.     *)
LEMMA ConsumerRefines ==
    ASSUME TransferInv, TransferInv', NEW v \in {"succeeded", "failed"},
           ConsumerReturns(v), Receiving,
           UNCHANGED <<kind, length, received, written, writer>>
    PROVE  [Promise!Next]_(Promise!vars)
<1>1. SinkOutcome = "open" /\ CopyOutcome' = CopyOutcome
  BY DEF SinkOutcome, CopyOutcome, Receiving
<1>2. consumer' = v /\ SinkOutcome' = IF v = "succeeded" THEN "accepted" ELSE "refused"
  BY DEF ConsumerReturns, SinkOutcome
<1>3. v = "succeeded" => Len(received) = length
  BY <1>2 DEF TransferInv, Outcomes
<1>4. reply' \in {reply, Promise!Outcome(SinkOutcome')}
  BY <1>2 DEF ConsumerReturns, Promise!Outcome
<1> QED BY <1>1, <1>2, <1>3, <1>4 DEF Promise!Next, Promise!Settle

(* The sink gets the next chunk of the file. *)
LEMMA SinkTakesRefines ==
    ASSUME TransferInv, SinkTakesChunk
    PROVE  [Promise!Next]_(Promise!vars)
<1>1. /\ UNCHANGED <<kind, length, reply, written, writer>>
      /\ consumer = "send" /\ consumer' = "recv"
      /\ received' = Append(received, Body(holding))
  BY DEF SinkTakesChunk, request, writerVars
<1>2. /\ SinkOutcome = "open" /\ SinkOutcome' = "open"
      /\ CopyOutcome' = CopyOutcome
  BY <1>1 DEF SinkOutcome, CopyOutcome
<1>3. Taken = Len(received) + 1 /\ Len(received) \in Nat /\ hand \in 0..length
      /\ length \in Nat
  BY <1>1 DEF Taken, TransferInv, CacheStreamInv, TypeOK
<1>4. Taken <= hand
  <2>1. PICK n \in Nat : n = Len(queue["main"])
    BY TakenNat DEF TransferInv, CacheStreamInv
  <2>2. Taken \in Nat /\ Sent \in Int /\ Sent <= hand
    BY <1>3, TakenNat DEF Sent, TransferInv, CacheStreamInv
  <2>3. ErrorIsLast => n > 0
    BY <2>1 DEF ErrorIsLast, TransferInv, CacheStreamInv, TypeOK, Dests
  <2>4. MainInStep
    BY <1>1 DEF TransferInv, MainStream, Receiving
  <2>5. CASE Taken + n = Sent
    BY <1>3, <2>2, <2>5
  <2>6. CASE n > 0 /\ Taken + n - 1 <= hand
    BY <1>3, <2>2, <2>6
  <2> QED BY <2>1, <2>3, <2>4, <2>5, <2>6 DEF MainInStep
<1>5. Len(received) < length
  BY <1>3, <1>4
<1>6. Body(holding) \in 1..length
  <2>1. kind # "local" => holding = Taken
    BY <1>1 DEF TransferInv, MainStream
  <2> QED BY <1>3, <1>4, <2>1 DEF Body
<1>7. kind # "local" => Body(holding) = Len(received) + 1
  BY <1>1, <1>3 DEF Body, TransferInv, MainStream
<1> QED BY <1>1, <1>2, <1>5, <1>6, <1>7 DEF Promise!Next, Promise!Deliver

(* A chunk in front of an error is one of those before it. *)
LEMMA BeforeError ==
    ASSUME NEW q \in Seq(Nat), q # <<>>, NEW w \in Nat, q[1] # Err, q[Len(q)] = Err,
           \A i \in 1..Len(q) - 1 : q[i] = w + i
    PROVE  q[1] = w + 1
<1>1. Len(q) \in Nat /\ Len(q) # 0 /\ Len(q) # 1
  OBVIOUS
<1>2. 1 \in 1..Len(q) - 1
  BY <1>1
<1> QED BY <1>2

(* The writer writes the next chunk of the file, or drops its file.        *)
LEMMA WriteRefines ==
    ASSUME TransferInv, WriteChunk
    PROVE  [Promise!Next]_(Promise!vars)
<1> DEFINE q == queue["cache"]
<1>1. /\ UNCHANGED <<kind, length, reply, received, consumer>>
      /\ writer = "reading" /\ q \in Seq(Nat) /\ q # <<>>
      /\ Head(q) # Err /\ Head(q) = q[1]
  BY DEF WriteChunk, request, consumerVars, TransferInv, CacheStreamInv, TypeOK, Dests
<1>2. SinkOutcome' = SinkOutcome /\ CopyOutcome = "open"
  BY <1>1 DEF SinkOutcome, CopyOutcome
<1>3. CASE written' = Append(written, Head(q)) /\ UNCHANGED writer
  <2>1. InStep /\ Len(written) \in Nat /\ Len(q) \in Nat \ {0}
    BY <1>1 DEF TransferInv, CacheStreamInv, CacheStream, TypeOK
  <2>2. q[1] = Len(written) + 1
    <3>1. CASE Consecutive(q, Len(written))
      BY <2>1, <3>1 DEF Consecutive
    <3>2. CASE q[Len(q)] = Err /\ \A i \in 1..Len(q) - 1 : q[i] = Len(written) + i
      BY <1>1, <2>1, <3>2, BeforeError
    <3> QED BY <2>1, <3>1, <3>2 DEF InStep
  <2>3. q[1] <= length
    <3>1. 1 \in DOMAIN q
      BY <1>1
    <3> QED BY <3>1 DEF TransferInv, InFile, Dests
  <2>4. length \in Nat
    BY DEF TransferInv, CacheStreamInv, TypeOK
  <2>5. Len(written) < length /\ Head(q) = Len(written) + 1
    BY <1>1, <2>1, <2>2, <2>3, <2>4
  <2>6. CopyOutcome' = CopyOutcome
    BY <1>3 DEF CopyOutcome
  <2> QED BY <1>1, <1>2, <1>3, <2>5, <2>6 DEF Promise!Next, Promise!Store
<1>4. CASE WriterFails /\ UNCHANGED written
  <2>1. CopyOutcome' = "dropped"
    BY <1>4 DEF WriterFails, CopyOutcome
  <2> QED BY <1>1, <1>2, <1>4, <2>1 DEF Promise!Next, Promise!Close
<1> QED BY <1>3, <1>4 DEF WriteChunk

(* The writer ends: it keeps the whole file, or none. *)
LEMMA WriterEndRefines ==
    ASSUME TransferInv, TransferInv', WriterGivesUp \/ WriterAborts \/ EndOfCache
    PROVE  [Promise!Next]_(Promise!vars)
<1>1. /\ UNCHANGED <<kind, length, reply, received, consumer, written>>
      /\ writer \in {"waiting", "reading"} /\ writer' \in {"kept", "dropped"}
  BY DEF WriterGivesUp, WriterAborts, EndOfCache, WriterFails, request, consumerVars
<1>2. /\ SinkOutcome' = SinkOutcome /\ CopyOutcome = "open" /\ CopyOutcome' = writer'
  BY <1>1 DEF SinkOutcome, CopyOutcome
<1>3. writer' = "kept" => Len(written) = length
  BY <1>1 DEF TransferInv, CacheStreamInv, CacheStream
<1> QED BY <1>1, <1>2, <1>3 DEF Promise!Next, Promise!Close

(* Every step of a transfer is one of Transfer, or is not seen there.      *)
LEMMA StepRefines ==
    TransferInv /\ TransferInv' /\ [Next]_vars => [Promise!Next]_(Promise!vars)
<1> SUFFICES ASSUME TransferInv, TransferInv', [Next]_vars
             PROVE  [Promise!Next]_(Promise!vars)
  OBVIOUS
<1> USE DEF request, channels, producerVars, consumerVars, writerVars
<1>1. CASE Open \/ PollMain \/ PollCache \/ PollNone \/ ReadChunk \/ EndOfSource
           \/ SourceFails \/ SendToMain \/ SendToCache \/ SendErrorToMain
           \/ SendErrorToCache \/ CloseChannels \/ UNCHANGED vars
  BY <1>1, StepUnseen
  DEF Open, PollMain, PollCache, PollNone, ReadChunk, EndOfSource, SourceFails, SendToMain,
      SendToCache, SendErrorToMain, SendErrorToCache, CloseChannels, vars
<1>2. CASE EndAfterMainError \/ EndAfterReturn
  BY <1>2, RedirectionRefines
<1>3. CASE TakeMessage
  <2>1. CASE Head(queue["main"]) # Err
    <3>1. /\ UNCHANGED <<kind, length, received, reply, written, writer>>
          /\ consumer = "recv" /\ consumer' = "send"
      BY <1>3, <2>1 DEF TakeMessage
    <3>2. SinkOutcome' = SinkOutcome /\ CopyOutcome' = CopyOutcome
      BY <3>1 DEF SinkOutcome, CopyOutcome
    <3> QED BY <3>1, <3>2 DEF Promise!vars
  <2>2. CASE Head(queue["main"]) = Err
    BY <1>3, <2>2, ConsumerRefines DEF TakeMessage, Receiving
  <2> QED BY <2>1, <2>2
<1>4. CASE SinkTakesChunk
  BY <1>4, SinkTakesRefines
<1>5. CASE SinkFails
  BY <1>5, ConsumerRefines DEF SinkFails, Receiving
<1>6. CASE EndOfMain
  BY <1>6, ConsumerRefines DEF EndOfMain, Receiving
<1>7. CASE WriterStarts
  <2>1. UNCHANGED <<kind, length, received, consumer, reply, written>> /\ CopyOutcome' = CopyOutcome
    BY <1>7 DEF WriterStarts, CopyOutcome
  <2> QED BY <2>1 DEF Promise!vars, SinkOutcome
<1>8. CASE WriteChunk
  BY <1>8, WriteRefines
<1>9. CASE WriterGivesUp \/ WriterAborts \/ EndOfCache
  BY <1>9, WriterEndRefines
<1> QED
  BY <1>1, <1>2, <1>3, <1>4, <1>5, <1>6, <1>7, <1>8, <1>9
  DEF Next, ProducerStep, ConsumerStep, WriterStep

(* The start of a transfer is one of Transfer. *)
LEMMA InitRefines == Init => Promise!Init
BY DEF Init, Promise!Init, SinkOutcome, CopyOutcome

(* Whatever goroutines, channels and errors a transfer is made of, it      *)
(* keeps the promise of Transfer: the sink and the cache never take a part *)
(* of the file for the whole, and the handler's answer is the outcome at   *)
(* the sink.                                                               *)
THEOREM TransferImplemented == Spec => ImplementsTransfer
BY InitRefines, StepRefines, TransferInvAlways, PTL
DEF Spec, ImplementsTransfer, Promise!Spec
=============================================================================
