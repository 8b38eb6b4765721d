-------------------------- MODULE AvatarStream_proofs --------------------------
(***************************************************************************)
(* The safety properties of the streaming adapter, for any number of       *)
(* producers and clients and for queues of any size.                       *)
(***************************************************************************)
EXTENDS AvatarStream, VideoSink_proofs

-----------------------------------------------------------------------------
(* The type invariant, and that nobody waits for what is there.            *)

Places == {"none", "loop", "getting", "infer", "frames", "transition"}

Busy == {"infer", "frames", "transition"}

Consumers ==
    [at : Places, chunk : Chunk \cup {None}, left : 0..(BatchSize + TransitionFrames),
     cancelled : BOOLEAN]

Shown == [epoch : 0..MaxEpoch, kind : Kinds]

PcmTyped ==
    /\ pcm \in Queues(Chunk, {"consumer"}, Pushers)
    /\ Served(pcm, QueueCapacity)
    /\ ~pcm.closed
    /\ \A h \in pcm.handed : h.item \in Chunk

PushersTyped ==
    /\ pushers \in [Pushers -> [at : {"idle", "putting", "blocked"}, chunk : Chunk \cup {None}]]
    /\ \A p \in Pushers : pushers[p].at # "idle" => pushers[p].chunk \in Chunk

ConsumerTyped ==
    /\ consumer \in Consumers
    /\ consumer.at \in Busy => consumer.chunk \in Chunk
    /\ consumer.at = "transition" => consumer.left > 0

RestTyped ==
    /\ phase \in {"new", "running", "stopped"}
    /\ epoch \in 0..MaxEpoch
    /\ errors \in 0..DegradeAfter
    /\ degraded \in BOOLEAN
    /\ shown = None \/ shown \in Shown

StreamTyped == PcmTyped /\ PushersTyped /\ ConsumerTyped /\ RestTyped

LEMMA StreamBounds ==
    /\ MaxEpoch \in Nat
    /\ QueueCapacity \in Nat \ {0}
    /\ MaxBatches \in Nat \ {0}
    /\ BatchSize \in Nat \ {0}
    /\ TransitionFrames \in Nat
    /\ DegradeAfter \in Nat \ {0}
BY SinkAssumption, StreamAssumption

LEMMA StreamTypeInit == StreamInit => StreamTyped
<1> SUFFICES ASSUME StreamInit PROVE StreamTyped
  OBVIOUS
<1>1. PcmTyped
  <2>1. pcm = NewQueue
    BY DEF StreamInit
  <2>2. NewQueue \in Queues(Chunk, {"consumer"}, Pushers) /\ Served(NewQueue, QueueCapacity)
    BY NewQueueServed, StreamBounds
  <2> QED
    BY <2>1, <2>2 DEF NewQueue, PcmTyped
<1>2. PushersTyped
  BY DEF StreamInit, PushersTyped, IdlePusher
<1>3. ConsumerTyped
  BY StreamBounds DEF StreamInit, ConsumerTyped, Consumers, Places, Busy, At
<1>4. RestTyped
  <2>1. 0 \in 0..MaxEpoch /\ 0 \in 0..DegradeAfter
    BY StreamBounds
  <2>2. degraded \in BOOLEAN
    BY DEF StreamInit
  <2> QED
    BY <2>1, <2>2 DEF StreamInit, RestTyped
<1> QED
  BY <1>1, <1>2, <1>3, <1>4 DEF StreamTyped

(* A sentinel is a chunk.                                                  *)
LEMMA SentinelChunk == \A e \in 0..MaxEpoch : Sentinel(e) \in Chunk
BY StreamBounds DEF Sentinel, Chunk

(* The queue after each of the adapter's operations on it.                 *)
LEMMA PcmTypedStep ==
    StreamTyped /\ [StreamNext]_streamVars => PcmTyped'
<1> SUFFICES ASSUME StreamTyped, [StreamNext]_streamVars PROVE PcmTyped'
  OBVIOUS
<1> DEFINE Good(q) == /\ q \in Queues(Chunk, {"consumer"}, Pushers)
                      /\ Served(q, QueueCapacity)
                      /\ ~q.closed
                      /\ \A h \in q.handed : h.item \in Chunk
<1>0. Good(pcm) /\ QueueCapacity \in Nat \ {0}
  BY StreamBounds DEF StreamTyped, PcmTyped
<1>1. CASE UNCHANGED pcm
  BY <1>0, <1>1 DEF PcmTyped
<1>2. CASE Stop
  <2>1. pcm' = GetterGone(pcm, "consumer")
    BY <1>2 DEF Stop
  <2>2. pcm'.closed = pcm.closed /\ pcm'.handed \subseteq pcm.handed
    BY <1>0, <2>1 DEF GetterGone, Queues
  <2> QED
    BY <1>0, <2>1, <2>2, GetterGoneServed DEF PcmTyped
<1>3. ASSUME NEW p \in Pushers, PushPuts(p) PROVE PcmTyped'
  <2>1. pcm' = Put(pcm, pushers[p].chunk, p, QueueCapacity) /\ pushers[p].chunk \in Chunk
    BY <1>3 DEF PushPuts, StreamTyped, PushersTyped
  <2>2. pcm' \in Queues(Chunk, {"consumer"}, Pushers) /\ Served(pcm', QueueCapacity)
    BY <1>0, <2>1, PutServed
  <2>3. ~pcm'.closed /\ \A h \in pcm'.handed : h.item \in Chunk
    BY <1>0, <2>1 DEF Put, HandedOff, Queues
  <2> QED
    BY <2>2, <2>3 DEF PcmTyped
<1>4. ASSUME NEW p \in Pushers, PushEnds(p) PROVE PcmTyped'
  <2>1. pcm' = PutterGone(pcm, p)
    BY <1>4 DEF PushEnds
  <2>2. pcm'.closed = pcm.closed /\ pcm'.handed = pcm.handed
    BY <1>0, <2>1 DEF PutterGone, Queues
  <2> QED
    BY <1>0, <2>1, <2>2, PutterGoneServed DEF PcmTyped
<1>5. ASSUME NEW e \in 0..MaxEpoch, CancelEpoch(e) PROVE PcmTyped'
  <2> DEFINE q == Drained(pcm)
  <2>1. Good(q)
    BY <1>0, DrainedServed DEF Drained, Queues
  <2>2. pcm' = q \/ pcm' = Offered(q, Sentinel(e), QueueCapacity)
    BY <1>5 DEF CancelEpoch, Interrupted
  <2> HIDE DEF q
  <2> DEFINE r == Offered(q, Sentinel(e), QueueCapacity)
  <2>3. Sentinel(e) \in Chunk
    BY SentinelChunk
  <2>4. r \in Queues(Chunk, {"consumer"}, Pushers) /\ Served(r, QueueCapacity)
    BY <1>0, <2>1, <2>3, OfferedServed
  <2>5. ~r.closed /\ \A h \in r.handed : h.item \in Chunk
    BY <1>0, <2>1, <2>3 DEF Offered, HandedOff, Queues
  <2> HIDE DEF r
  <2> QED
    BY <2>1, <2>2, <2>4, <2>5 DEF r, PcmTyped
<1>6. CASE ConsumerGets
  <2>1. CASE pcm.items # <<>>
    <3>1. pcm' = Taken(pcm)
      BY <1>6, <2>1 DEF ConsumerGets
    <3> QED
      BY <1>0, <2>1, <3>1, TakenServed DEF PcmTyped, Taken, Queues
  <2>2. CASE pcm.items = <<>>
    <3>1. pcm' = Waiting(pcm, "consumer")
      BY <1>6, <2>2 DEF ConsumerGets
    <3> QED
      BY <1>0, <2>2, <3>1, WaitingServed DEF PcmTyped, Waiting, Queues
  <2> QED
    BY <2>1, <2>2
<1>7. CASE ConsumerReceives
  <2>1. pcm' = Delivered(pcm, "consumer")
    BY <1>7 DEF ConsumerReceives
  <2> QED
    BY <1>0, <2>1, DeliveredServed DEF PcmTyped, Delivered, Queues
<1> QED
  BY <1>1, <1>2, <1>3, <1>4, <1>5, <1>6, <1>7
  DEF StreamNext, streamVars, adapterVars, Start, StopSink, PushChecks, ConsumerStep,
      TransitionFrame, InferReturns, SpeechFrame, BatchEnds, TransitionCrashes, ChunkFails

LEMMA PushersTypedStep ==
    StreamTyped /\ [StreamNext]_streamVars => PushersTyped'
<1> SUFFICES ASSUME StreamTyped, [StreamNext]_streamVars PROVE PushersTyped'
  OBVIOUS
<1>0. PushersTyped /\ epoch \in 0..MaxEpoch
  BY DEF StreamTyped, RestTyped
<1>1. CASE UNCHANGED pushers
  BY <1>0, <1>1 DEF PushersTyped
<1>2. ASSUME NEW p \in Pushers, PushChecks(p) PROVE PushersTyped'
  <2>1. PICK n \in 1..MaxBatches :
          pushers' = [pushers EXCEPT ![p] =
                        [at |-> "putting",
                         chunk |-> [epoch |-> epoch, transition |-> FALSE, batches |-> n]]]
    BY <1>2 DEF PushChecks
  <2>2. [epoch |-> epoch, transition |-> FALSE, batches |-> n] \in Chunk
    BY <1>0, StreamBounds DEF Chunk
  <2> QED
    BY <1>0, <2>1, <2>2 DEF PushersTyped
<1>3. ASSUME NEW p \in Pushers, PushPuts(p) PROVE PushersTyped'
  BY <1>0, <1>3 DEF PushPuts, PushersTyped, IdlePusher
<1>4. ASSUME NEW p \in Pushers, PushEnds(p) PROVE PushersTyped'
  BY <1>0, <1>4 DEF PushEnds, PushersTyped, IdlePusher
<1> QED
  BY <1>1, <1>2, <1>3, <1>4
  DEF StreamNext, streamVars, adapterVars, Start, Stop, StopSink, CancelEpoch, ConsumerStep,
      ConsumerGets, ConsumerReceives, TransitionFrame, InferReturns, SpeechFrame, BatchEnds,
      TransitionCrashes, ChunkFails

(* Whatever chunk the consumer gets, it starts on it or drops it.          *)
LEMMA BeginsTyped ==
    ASSUME NEW ch \in Chunk, Begins(ch)
    PROVE  ConsumerTyped'
<1>1. CASE consumer' = At("loop")
  BY <1>1, StreamBounds DEF At, ConsumerTyped, Consumers, Places, Busy
<1>2. CASE \E n \in 1..TransitionFrames : consumer' = Working("transition", ch, n)
  BY <1>2, StreamBounds DEF Working, ConsumerTyped, Consumers, Places, Busy
<1>3. CASE consumer' = Working("infer", ch, 0)
  BY <1>3, StreamBounds DEF Working, ConsumerTyped, Consumers, Places, Busy
<1> QED
  <2>1. \A n \in 0..TransitionFrames : n = 0 \/ n \in 1..TransitionFrames
    BY StreamBounds
  <2> QED
    BY <1>1, <1>2, <1>3, <2>1 DEF Begins

LEMMA ConsumerTypedStep ==
    StreamTyped /\ [StreamNext]_streamVars => ConsumerTyped'
<1> SUFFICES ASSUME StreamTyped, [StreamNext]_streamVars PROVE ConsumerTyped'
  OBVIOUS
<1>0. /\ consumer \in Consumers
      /\ consumer.at \in Busy => consumer.chunk \in Chunk
      /\ consumer.at = "transition" => consumer.left > 0
  BY DEF StreamTyped, ConsumerTyped
<1>1. CASE UNCHANGED consumer
  BY <1>0, <1>1 DEF ConsumerTyped
<1>2. CASE \E place \in {"none", "loop", "getting"} : consumer' = At(place)
  BY <1>2, StreamBounds DEF At, ConsumerTyped, Consumers, Places, Busy
<1>3. ASSUME NEW e \in 0..MaxEpoch, CancelEpoch(e) PROVE ConsumerTyped'
  <2> DEFINE b == consumer.at \in {"infer", "frames"}
  <2>1. consumer' = [consumer EXCEPT !.cancelled = b] /\ b \in BOOLEAN
    BY <1>3 DEF CancelEpoch
  <2> HIDE DEF b
  <2>2. /\ consumer' \in Consumers
        /\ consumer'.at = consumer.at /\ consumer'.chunk = consumer.chunk
        /\ consumer'.left = consumer.left
    BY <1>0, <2>1 DEF Consumers
  <2> QED
    BY <1>0, <2>2 DEF ConsumerTyped
<1>4. CASE ConsumerGets /\ pcm.items # <<>>
  <2>1. Head(pcm.items) \in Chunk
    <3>1. pcm.items \in Seq(Chunk)
      BY DEF StreamTyped, PcmTyped, Queues
    <3> QED
      BY <1>4, <3>1
  <2>2. Begins(Head(pcm.items))
    BY <1>4 DEF ConsumerGets
  <2> QED
    BY <2>1, <2>2, BeginsTyped
<1>5. CASE ConsumerReceives
  <2>1. PICK h \in pcm.handed : Begins(h.item)
    BY <1>5 DEF ConsumerReceives, HandedTo
  <2>2. h.item \in Chunk
    BY DEF StreamTyped, PcmTyped
  <2> QED
    BY <2>1, <2>2, BeginsTyped
<1>6. CASE /\ consumer.at \in {"frames", "transition"} /\ consumer.left > 0
           /\ consumer.at = "transition" => consumer.left # 1
           /\ consumer' = [consumer EXCEPT !.left = @ - 1]
  <2>1. consumer.left - 1 \in 0..(BatchSize + TransitionFrames)
    BY <1>0, <1>6, StreamBounds DEF Consumers
  <2>2. consumer.at = "transition" => consumer.left - 1 > 0
    BY <1>0, <1>6, StreamBounds DEF Consumers
  <2> QED
    BY <1>0, <1>6, <2>1, <2>2 DEF ConsumerTyped, Consumers
<1>7. CASE consumer.at = "infer" /\ consumer' = [consumer EXCEPT !.at = "frames", !.left = BatchSize]
  <2>1. BatchSize \in 0..(BatchSize + TransitionFrames)
    BY StreamBounds
  <2> QED
    BY <1>0, <1>7, <2>1 DEF ConsumerTyped, Consumers, Places, Busy
<1>8. CASE /\ consumer.at = "frames" /\ consumer.chunk.batches > 1
           /\ consumer' = [consumer EXCEPT !.at = "infer", !.chunk.batches = @ - 1]
  <2> DEFINE ch == [consumer.chunk EXCEPT !.batches = @ - 1]
  <2>1. consumer.chunk \in Chunk
    BY <1>0, <1>8 DEF Busy
  <2>2. ch \in Chunk
    BY <1>8, <2>1, StreamBounds DEF Chunk
  <2>3. consumer' = [consumer EXCEPT !.at = "infer", !.chunk = ch]
    BY <1>0, <1>8 DEF Consumers
  <2> HIDE DEF ch
  <2> QED
    BY <1>0, <2>2, <2>3 DEF ConsumerTyped, Consumers, Places, Busy
<1>9. CASE Start
  BY <1>2, <1>9 DEF Start
<1>10. CASE Stop
  BY <1>2, <1>10 DEF Stop
<1>11. ASSUME NEW p \in Pushers, PushChecks(p) PROVE ConsumerTyped'
  BY <1>1, <1>2, <1>11 DEF PushChecks
<1>12. CASE ConsumerGets /\ pcm.items = <<>>
  BY <1>2, <1>12 DEF ConsumerGets
<1>13. CASE TransitionFrame
  BY <1>0, <1>2, <1>6, <1>13 DEF TransitionFrame
<1>14. CASE InferReturns
  BY <1>2, <1>7, <1>14 DEF InferReturns, ChunkDone
<1>15. CASE SpeechFrame
  BY <1>2, <1>6, <1>15 DEF SpeechFrame, ChunkDone
<1>16. CASE BatchEnds
  BY <1>2, <1>8, <1>16 DEF BatchEnds, ChunkDone
<1>17. CASE TransitionCrashes \/ ChunkFails
  BY <1>2, <1>17 DEF TransitionCrashes, ChunkFails
<1> QED
  BY <1>1, <1>3, <1>4, <1>5, <1>9, <1>10, <1>11, <1>12, <1>13, <1>14, <1>15, <1>16, <1>17
  DEF StreamNext, streamVars, adapterVars, StopSink, PushPuts, PushEnds, ConsumerStep

(* The frame that is published is one of the consumer's chunk.             *)
LEMMA PublishesShown ==
    ASSUME StreamTyped, consumer.at \in Busy, NEW kind \in Kinds, Publishes(kind)
    PROVE  /\ shown' = [epoch |-> consumer.chunk.epoch, kind |-> kind]
           /\ shown' \in Shown
<1>1. consumer.chunk \in Chunk /\ epoch \in 0..MaxEpoch
  BY DEF StreamTyped, ConsumerTyped, RestTyped
<1> QED
  BY <1>1 DEF Publishes, Chunk, Shown

LEMMA RestTypedStep ==
    StreamTyped /\ [StreamNext]_streamVars => RestTyped'
<1> SUFFICES ASSUME StreamTyped, [StreamNext]_streamVars PROVE RestTyped'
  OBVIOUS
<1>0. RestTyped
  BY DEF StreamTyped
<1>1. phase' \in {"new", "running", "stopped"}
  BY <1>0 DEF RestTyped, StreamNext, streamVars, adapterVars, Start, Stop, StopSink,
      PushChecks, PushPuts, PushEnds, CancelEpoch, ConsumerStep, ConsumerGets,
      ConsumerReceives, TransitionFrame, InferReturns, SpeechFrame, BatchEnds,
      TransitionCrashes, ChunkFails
<1>2. epoch' \in 0..MaxEpoch
  BY <1>0 DEF RestTyped, StreamNext, streamVars, adapterVars, Start, Stop, StopSink,
      PushChecks, PushPuts, PushEnds, CancelEpoch, ConsumerStep, ConsumerGets,
      ConsumerReceives, TransitionFrame, InferReturns, SpeechFrame, BatchEnds,
      TransitionCrashes, ChunkFails
<1>3. errors' \in 0..DegradeAfter
  <2>1. 0 \in 0..DegradeAfter /\ Capped(errors + 1) \in 0..DegradeAfter
    BY <1>0, StreamBounds DEF RestTyped, Capped
  <2> HIDE DEF Capped
  <2> QED
    BY <1>0, <2>1 DEF RestTyped, StreamNext, streamVars, adapterVars, Start, Stop, StopSink,
        PushChecks, PushPuts, PushEnds, CancelEpoch, ConsumerStep, ConsumerGets,
        ConsumerReceives, TransitionFrame, InferReturns, SpeechFrame, BatchEnds,
        TransitionCrashes, ChunkFails, ChunkDone
<1>4. degraded' \in BOOLEAN
  <2>1. \/ degraded' = FALSE
        \/ degraded' = degraded
        \/ degraded' = (degraded \/ (HasFallback /\ errors + 1 >= DegradeAfter))
    BY DEF StreamNext, streamVars, adapterVars, Start, Stop, StopSink,
        PushChecks, PushPuts, PushEnds, CancelEpoch, ConsumerStep, ConsumerGets,
        ConsumerReceives, TransitionFrame, InferReturns, SpeechFrame, BatchEnds,
        TransitionCrashes, ChunkFails
  <2> QED
    BY <1>0, <2>1 DEF RestTyped
<1>5. (shown = None \/ shown \in Shown)'
  <2>1. CASE UNCHANGED shown
    BY <1>0, <2>1 DEF RestTyped
  <2>2. CASE TransitionFrame
    BY <1>0, <2>1, <2>2, PublishesShown DEF TransitionFrame, Kinds, Busy
  <2>3. CASE SpeechFrame
    BY <1>0, <2>1, <2>3, PublishesShown DEF SpeechFrame, Kinds, Busy
  <2> QED
    BY <2>1, <2>2, <2>3
    DEF StreamNext, streamVars, adapterVars, Start, Stop, StopSink,
        PushChecks, PushPuts, PushEnds, CancelEpoch, ConsumerStep, ConsumerGets,
        ConsumerReceives, InferReturns, BatchEnds, TransitionCrashes, ChunkFails
<1> QED
  BY <1>1, <1>2, <1>3, <1>4, <1>5 DEF RestTyped

LEMMA StreamTypeStep == StreamTyped /\ [StreamNext]_streamVars => StreamTyped'
BY PcmTypedStep, PushersTypedStep, ConsumerTypedStep, RestTypedStep DEF StreamTyped

LEMMA StreamAlwaysTyped == StreamSpec => []StreamTyped
BY StreamTypeInit, StreamTypeStep, PTL DEF StreamSpec

(* Every variable keeps its type and the queue its capacity (adapter.py).  *)
THEOREM StreamTypeCorrect == StreamSpec => []StreamTypeOK
<1>1. StreamTyped => StreamTypeOK
  <2> SUFFICES ASSUME StreamTyped PROVE StreamTypeOK
    OBVIOUS
  <2>1. pcm.items \in Seq(Chunk) /\ Len(pcm.items) <= QueueCapacity
    BY DEF StreamTyped, PcmTyped, Queues, Served
  <2> QED
    BY <2>1 DEF StreamTyped, PushersTyped, ConsumerTyped, Consumers, Places, RestTyped, StreamTypeOK
<1> QED
  BY <1>1, StreamAlwaysTyped, PTL

(* Neither the consumer nor a producer waits for what is there, through    *)
(* hand-offs, timeouts, cancellations and drains (loopqueue.py:145-162).   *)
THEOREM NobodyIsStuck == StreamSpec => []NobodyStuck
<1>1. StreamTyped => NobodyStuck
  BY DEF StreamTyped, PcmTyped, Served, NobodyStuck
<1> QED
  BY <1>1, StreamAlwaysTyped, PTL

-----------------------------------------------------------------------------
(* Interrupted speech is not worked on.                                    *)

(* The chunk in hand is of the current epoch until its token is cancelled. *)
TokenTells == consumer.at \in {"infer", "frames"} /\ ~consumer.cancelled => ~Stale(consumer.chunk)

(* The next batch of a chunk is of its epoch, and keeps its token.         *)
LEMMA NextBatch ==
    ASSUME consumer \in Consumers, consumer.chunk \in Chunk, epoch' = epoch,
           consumer' = [consumer EXCEPT !.at = "infer", !.chunk.batches = @ - 1]
    PROVE  /\ Stale(consumer'.chunk) <=> Stale(consumer.chunk)
           /\ consumer'.cancelled = consumer.cancelled
<1> DEFINE ch == [consumer.chunk EXCEPT !.batches = @ - 1]
<1>1. consumer' = [[consumer EXCEPT !.at = "infer"] EXCEPT !.chunk = ch]
  BY DEF Consumers
<1>2. ch.epoch = consumer.chunk.epoch
  BY DEF Chunk
<1> HIDE DEF ch
<1>3. consumer'.chunk = ch /\ consumer'.cancelled = consumer.cancelled
  BY <1>1 DEF Consumers
<1> QED
  BY <1>2, <1>3 DEF Stale

LEMMA TokenStep == StreamTyped /\ TokenTells /\ [StreamNext]_streamVars => TokenTells'
<1> SUFFICES ASSUME StreamTyped, TokenTells, [StreamNext]_streamVars PROVE TokenTells'
  OBVIOUS
<1>1. consumer \in Consumers /\ (consumer.at \in Busy => consumer.chunk \in Chunk)
  BY DEF StreamTyped, ConsumerTyped
<1>2. ASSUME NEW ch, Begins(ch), epoch' = epoch PROVE TokenTells'
  BY <1>2 DEF Begins, At, Working, TokenTells, Stale
<1>3. CASE UNCHANGED <<consumer, epoch>>
  BY <1>3 DEF TokenTells, Stale
<1>4. CASE epoch' = epoch /\ consumer'.at \notin {"infer", "frames"}
  BY <1>4 DEF TokenTells
<1>5. ASSUME NEW e \in 0..MaxEpoch, CancelEpoch(e) PROVE TokenTells'
  BY <1>1, <1>5 DEF CancelEpoch, Consumers, TokenTells
<1>6. CASE ConsumerGets
  BY <1>2, <1>4, <1>6 DEF ConsumerGets, At
<1>7. CASE ConsumerReceives
  BY <1>2, <1>7 DEF ConsumerReceives
<1>8. CASE TransitionFrame
  BY <1>1, <1>4, <1>8 DEF TransitionFrame, At, Consumers
<1>9. CASE InferReturns
  <2>1. CASE consumer.cancelled
    BY <1>4, <1>9, <2>1 DEF InferReturns, ChunkDone, At
  <2>2. CASE ~consumer.cancelled
    BY <1>1, <1>9, <2>2 DEF InferReturns, Consumers, TokenTells, Stale
  <2> QED
    BY <2>1, <2>2
<1>10. CASE SpeechFrame
  <2>1. CASE consumer.cancelled \/ Stale(consumer.chunk)
    BY <1>4, <1>10, <2>1 DEF SpeechFrame, ChunkDone, At
  <2>2. CASE ~(consumer.cancelled \/ Stale(consumer.chunk))
    BY <1>1, <1>10, <2>2 DEF SpeechFrame, Consumers, TokenTells, Stale
  <2> QED
    BY <2>1, <2>2
<1>11. CASE BatchEnds
  <2>1. CASE consumer.chunk.batches > 1 /\ ~consumer.cancelled
    <3>1. consumer.at = "frames" /\ consumer.chunk \in Chunk
      BY <1>1, <1>11 DEF BatchEnds, Busy
    <3>2. ~Stale(consumer'.chunk)
      BY <1>1, <1>11, <2>1, <3>1, NextBatch DEF BatchEnds, TokenTells
    <3>3. epoch' = epoch
      BY <1>11 DEF BatchEnds
    <3> QED
      BY <3>2, <3>3 DEF TokenTells, Stale
  <2>2. CASE ~(consumer.chunk.batches > 1 /\ ~consumer.cancelled)
    BY <1>4, <1>11, <2>2 DEF BatchEnds, ChunkDone, At
  <2> QED
    BY <2>1, <2>2
<1>12. ASSUME NEW p \in Pushers, PushChecks(p) PROVE TokenTells'
  BY <1>3, <1>4, <1>12 DEF PushChecks, At
<1>13. CASE Start \/ Stop \/ TransitionCrashes \/ ChunkFails
  BY <1>4, <1>13 DEF Start, Stop, TransitionCrashes, ChunkFails, At
<1> QED
  BY <1>3, <1>5, <1>6, <1>7, <1>8, <1>9, <1>10, <1>11, <1>12, <1>13
  DEF StreamNext, streamVars, adapterVars, StopSink, PushPuts, PushEnds, ConsumerStep

(* After cancel_epoch has returned no batch of an older epoch is started,  *)
(* whatever was queued, handed over, waiting for a slot or in the thread   *)
(* (adapter.py:297-299, 344-346).                                          *)
THEOREM StaleIsNotInferred == StreamSpec => NoWorkForStale
<1> DEFINE Current == consumer.at # "infer" /\ consumer'.at = "infer" => ~Stale(consumer'.chunk)
<1>1. StreamInit => TokenTells
  BY DEF StreamInit, TokenTells, At
<1>2. StreamTyped /\ TokenTells /\ [StreamNext]_streamVars => [Current]_streamVars
  <2> SUFFICES ASSUME StreamTyped, TokenTells, [StreamNext]_streamVars,
                      consumer.at # "infer", consumer'.at = "infer"
               PROVE  ~Stale(consumer'.chunk)
    OBVIOUS
  <2>1. consumer \in Consumers /\ (consumer.at \in Busy => consumer.chunk \in Chunk)
    BY DEF StreamTyped, ConsumerTyped
  <2>2. ASSUME NEW ch, Begins(ch) PROVE ~Stale(consumer'.chunk)
    BY <2>2 DEF Begins, At, Working, Stale
  <2>3. CASE ConsumerGets
    BY <2>2, <2>3 DEF ConsumerGets, At
  <2>4. CASE ConsumerReceives
    BY <2>2, <2>4 DEF ConsumerReceives
  <2>5. CASE BatchEnds
    <3>1. consumer.at = "frames" /\ consumer.chunk \in Chunk /\ epoch' = epoch
      BY <2>1, <2>5 DEF BatchEnds, Busy
    <3>2. CASE consumer.chunk.batches > 1 /\ ~consumer.cancelled
      BY <2>1, <2>5, <3>1, <3>2, NextBatch DEF BatchEnds, TokenTells
    <3>3. CASE ~(consumer.chunk.batches > 1 /\ ~consumer.cancelled)
      BY <2>5, <3>3 DEF BatchEnds, ChunkDone, At
    <3> QED
      BY <3>2, <3>3
  <2>6. CASE TransitionFrame \/ InferReturns \/ SpeechFrame
    BY <2>1, <2>6 DEF TransitionFrame, InferReturns, SpeechFrame, ChunkDone, At, Consumers
  <2>7. ~(\E e \in 0..MaxEpoch : CancelEpoch(e))
    BY <2>1 DEF CancelEpoch, Consumers
  <2>8. CASE UNCHANGED consumer
    BY <2>8
  <2> QED
    BY <2>3, <2>4, <2>5, <2>6, <2>7, <2>8
    DEF StreamNext, streamVars, adapterVars, Start, Stop, StopSink, PushChecks, PushPuts, PushEnds,
        ConsumerStep, TransitionCrashes, ChunkFails, At
<1> HIDE DEF Current
<1>3. StreamSpec => [][Current]_streamVars
  BY <1>1, <1>2, TokenStep, StreamAlwaysTyped, PTL DEF StreamSpec
<1> QED
  BY <1>3 DEF Current, NoWorkForStale

-----------------------------------------------------------------------------
(* The transition of an epoch leads its speech.  A sentinel enters a queue *)
(* that has just been emptied, so it is its head; and nothing of its epoch *)
(* is older than it.                                                       *)

(* No speech of epoch e has been shown.                                    *)
Silent(e) == shown # None /\ shown.epoch = e => shown.kind = "transition"

(* Neither is there any under way that is ahead of the queue.              *)
Fresh(e) ==
    /\ Silent(e)
    /\ consumer.at \in {"infer", "frames"} => consumer.chunk.epoch < e
    /\ \A h \in pcm.handed : ~h.item.transition => h.item.epoch < e

(* Nothing is of an epoch to come.                                         *)
NothingAhead ==
    /\ \A i \in 1..Len(pcm.items) : pcm.items[i].epoch <= epoch
    /\ \A h \in pcm.handed : h.item.epoch <= epoch
    /\ \A i \in 1..Len(pcm.putters) : pcm.putters[i].item.epoch <= epoch
    /\ \A p \in Pushers : pushers[p].at # "idle" => pushers[p].chunk.epoch <= epoch
    /\ consumer.at \in Busy => consumer.chunk.epoch <= epoch
    /\ shown # None => shown.epoch <= epoch

(* Producers push speech.                                                  *)
OnlySpeech ==
    /\ \A i \in 1..Len(pcm.putters) : ~pcm.putters[i].item.transition
    /\ \A p \in Pushers : pushers[p].at # "idle" => ~pushers[p].chunk.transition

(* Only the consumer that waits is in the queue's books.                   *)
OneConsumer ==
    /\ pcm.getters = <<>> \/ pcm.getters = <<"consumer">>
    /\ pcm.getters # <<>> \/ pcm.handed # {} => consumer.at = "getting"
    /\ pcm.handed # {} => pcm.getters = <<>>
    /\ phase = "new" => consumer.at = "none"

SentinelsLead ==
    /\ \A i \in 1..Len(pcm.items) : pcm.items[i].transition => i = 1 /\ Fresh(pcm.items[i].epoch)
    /\ \A h \in pcm.handed : h.item.transition => Silent(h.item.epoch)
    /\ consumer.at = "transition" => Silent(consumer.chunk.epoch)

OrderInv == NothingAhead /\ OnlySpeech /\ OneConsumer /\ SentinelsLead

LEMMA OrderInit == StreamInit => OrderInv
BY DEF StreamInit, OrderInv, NothingAhead, OnlySpeech, OneConsumer, SentinelsLead, NewQueue,
       At, Busy, IdlePusher

(* The consumer gives up its chunk or goes on with it.                     *)
LEMMA WorkOrder ==
    ASSUME StreamTyped, OrderInv,
           consumer.at \in Busy,
           UNCHANGED <<phase, epoch, pcm, pushers, shown>>,
           \/ consumer' = At("loop") \/ consumer' = At("none")
           \/ /\ consumer.at \in {"infer", "frames"} /\ consumer'.at \in {"infer", "frames"}
              /\ consumer'.chunk.epoch = consumer.chunk.epoch
    PROVE  OrderInv'
<1>1. NothingAhead'
  BY DEF OrderInv, NothingAhead, At, Busy
<1>2. OnlySpeech'
  BY DEF OrderInv, OnlySpeech
<1>3. OneConsumer'
  BY DEF OrderInv, OneConsumer, At, Busy
<1>4. SentinelsLead'
  BY DEF OrderInv, SentinelsLead, Fresh, Silent, At
<1> QED
  BY <1>1, <1>2, <1>3, <1>4 DEF OrderInv

(* A frame is shown.                                                       *)
LEMMA ShownOrder ==
    ASSUME StreamTyped, OrderInv,
           UNCHANGED <<phase, epoch, pcm, pushers>>,
           \/ consumer.at = "transition" /\ Publishes("transition")
           \/ consumer.at = "frames" /\ Publishes("speech"),
           \/ consumer.at = "transition" /\ consumer' = At("loop")
           \/ consumer'.at = consumer.at /\ consumer'.chunk = consumer.chunk
    PROVE  OrderInv'
<1>1. /\ consumer.at \in Busy /\ consumer.chunk \in Chunk
      /\ shown' # None => shown'.epoch = consumer.chunk.epoch
      /\ shown'.kind = IF consumer.at = "transition" THEN "transition" ELSE "speech"
  BY PublishesShown DEF StreamTyped, ConsumerTyped, Busy, Kinds
<1>2. NothingAhead'
  BY <1>1 DEF OrderInv, NothingAhead, At, Busy
<1>3. OnlySpeech'
  BY DEF OrderInv, OnlySpeech
<1>4. OneConsumer'
  BY <1>1 DEF OrderInv, OneConsumer, At, Busy
<1>5. pcm.handed = {}
  BY <1>1 DEF OrderInv, OneConsumer, Busy
<1>6. SentinelsLead'
  <2>1. CASE consumer.at = "transition"
    BY <1>1, <1>5, <2>1 DEF OrderInv, SentinelsLead, Fresh, Silent, At
  <2>2. CASE consumer.at # "transition"
    <3>1. \A i \in 1..Len(pcm.items) : pcm.items[i].transition =>
             i = 1 /\ consumer.chunk.epoch < pcm.items[i].epoch
      BY <1>1, <2>2 DEF OrderInv, SentinelsLead, Fresh, Busy
    <3>2. pcm.items \in Seq(Chunk) /\ consumer.chunk.epoch \in Int
      BY <1>1 DEF StreamTyped, PcmTyped, Queues, Chunk
    <3>3. \A i \in 1..Len(pcm.items) : pcm.items[i].epoch \in Int
      <4>1. \A i \in 1..Len(pcm.items) : pcm.items[i] \in Chunk
        BY <3>2
      <4>2. \A ch \in Chunk : ch.epoch \in Int
        BY DEF Chunk
      <4> QED
        BY <4>1, <4>2
    <3> QED
      BY <1>1, <1>5, <2>2, <3>1, <3>2, <3>3 DEF OrderInv, SentinelsLead, Fresh, Silent, At
  <2> QED
    BY <2>1, <2>2
<1> QED
  BY <1>2, <1>3, <1>4, <1>6 DEF OrderInv

LEMMA ConsumerOrder ==
    ASSUME StreamTyped, OrderInv,
           TransitionFrame \/ InferReturns \/ SpeechFrame \/ BatchEnds \/ TransitionCrashes \/ ChunkFails
    PROVE  OrderInv'
<1>0. consumer \in Consumers /\ (consumer.at \in Busy => consumer.chunk \in Chunk)
  BY DEF StreamTyped, ConsumerTyped
<1>1. CASE TransitionFrame
  <2>1. CASE Stale(consumer.chunk)
    BY <1>1, <2>1, WorkOrder DEF TransitionFrame, Busy
  <2>2. CASE ~Stale(consumer.chunk)
    <3>1. \/ consumer' = At("loop")
          \/ consumer'.at = consumer.at /\ consumer'.chunk = consumer.chunk
      BY <1>0, <1>1, <2>2 DEF TransitionFrame, Consumers
    <3> QED
      BY <1>1, <2>2, <3>1, ShownOrder DEF TransitionFrame
  <2> QED
    BY <2>1, <2>2
<1>2. CASE InferReturns
  <2>1. \/ consumer' = At("loop")
        \/ consumer'.at = "frames" /\ consumer'.chunk = consumer.chunk
    BY <1>0, <1>2 DEF InferReturns, ChunkDone, Consumers
  <2> QED
    BY <1>2, <2>1, WorkOrder DEF InferReturns, Busy
<1>3. CASE SpeechFrame
  <2>1. CASE consumer.cancelled \/ Stale(consumer.chunk)
    BY <1>3, <2>1, WorkOrder DEF SpeechFrame, ChunkDone, Busy
  <2>2. CASE ~(consumer.cancelled \/ Stale(consumer.chunk))
    <3>1. consumer'.at = consumer.at /\ consumer'.chunk = consumer.chunk
      BY <1>0, <1>3, <2>2 DEF SpeechFrame, Consumers
    <3> QED
      BY <1>3, <2>2, <3>1, ShownOrder DEF SpeechFrame
  <2> QED
    BY <2>1, <2>2
<1>4. CASE BatchEnds
  <2>1. \/ consumer' = At("loop")
        \/ consumer'.at = "infer" /\ consumer'.chunk.epoch = consumer.chunk.epoch
    <3>1. CASE consumer' = [consumer EXCEPT !.at = "infer", !.chunk.batches = @ - 1]
      <4>1. consumer'.at = "infer"
            /\ consumer'.chunk = [consumer.chunk EXCEPT !.batches = consumer.chunk.batches - 1]
        BY <1>0, <3>1 DEF Consumers
      <4>2. consumer.chunk \in Chunk
        BY <1>0, <1>4 DEF BatchEnds, Busy
      <4> QED
        BY <4>1, <4>2 DEF Chunk
    <3> QED
      BY <1>4, <3>1 DEF BatchEnds, ChunkDone
  <2> QED
    BY <1>4, <2>1, WorkOrder DEF BatchEnds, Busy
<1>5. CASE TransitionCrashes \/ ChunkFails
  BY <1>5, WorkOrder DEF TransitionCrashes, ChunkFails, Busy
<1> QED
  BY <1>1, <1>2, <1>3, <1>4, <1>5

(* start, stop and the checks of push_pcm: the consumer has or gets nothing.*)
LEMMA StartStopOrder ==
    ASSUME StreamTyped, OrderInv, Start \/ Stop
    PROVE  OrderInv'
<1>1. CASE Start
  BY <1>1 DEF Start, OrderInv, NothingAhead, OnlySpeech, OneConsumer, SentinelsLead, Fresh, Silent,
     At, Busy
<1>2. CASE Stop
  <2>1. /\ pcm'.getters = Without(pcm.getters, {i \in DOMAIN pcm.getters : pcm.getters[i] = "consumer"})
        /\ pcm'.handed = {}
        /\ pcm'.items = pcm.items /\ pcm'.putters = pcm.putters
    BY <1>2 DEF Stop, GetterGone, HandedTo, StreamTyped, PcmTyped, Queues
  <2>2. pcm'.getters = <<>>
    <3>1. CASE pcm.getters = <<>>
      <4>1. pcm.getters \in Seq({"consumer"})
        BY DEF StreamTyped, PcmTyped, Queues
      <4> DEFINE mine == {i \in DOMAIN pcm.getters : pcm.getters[i] = "consumer"}
      <4>2. mine \in SUBSET DOMAIN pcm.getters
        OBVIOUS
      <4> HIDE DEF mine
      <4>3. Without(pcm.getters, mine) = <<>>
        BY <3>1, <4>1, <4>2, WithoutType
      <4> QED
        BY <2>1, <4>3 DEF mine
    <3>2. CASE pcm.getters = <<"consumer">>
      <4>1. {i \in DOMAIN pcm.getters : pcm.getters[i] = "consumer"} = {1}
        BY <3>2
      <4> QED
        BY <2>1, <3>2, <4>1, WithoutLast
    <3> QED
      BY <3>1, <3>2 DEF OrderInv, OneConsumer
  <2>3. /\ consumer' = At("none") /\ phase' = "stopped"
        /\ UNCHANGED <<epoch, pushers, shown>>
    BY <1>2 DEF Stop
  <2> QED
    BY <2>1, <2>2, <2>3 DEF OrderInv, NothingAhead, OnlySpeech, OneConsumer, SentinelsLead, Fresh,
       Silent, At, Busy
<1> QED
  BY <1>1, <1>2

LEMMA PushChecksOrder ==
    ASSUME StreamTyped, OrderInv, NEW p \in Pushers, PushChecks(p)
    PROVE  OrderInv'
<1>1. /\ phase = "running"
      /\ UNCHANGED <<phase, epoch, pcm, shown>>
      /\ consumer' = consumer \/ (consumer.at = "none" /\ consumer' = At("loop"))
  BY DEF PushChecks
<1>2. PICK n \in 1..MaxBatches :
        pushers' = [pushers EXCEPT ![p] =
                      [at |-> "putting",
                       chunk |-> [epoch |-> epoch, transition |-> FALSE, batches |-> n]]]
  BY DEF PushChecks
<1>3. \A r \in Pushers : IF r = p
                         THEN pushers'[r].chunk.epoch = epoch /\ ~pushers'[r].chunk.transition
                         ELSE pushers'[r] = pushers[r]
  BY <1>2 DEF StreamTyped, PushersTyped
<1>4. NothingAhead'
  <2>1. epoch <= epoch
    BY StreamBounds DEF StreamTyped, RestTyped
  <2> QED
    BY <1>1, <1>3, <2>1 DEF OrderInv, NothingAhead, At, Busy
<1>5. OnlySpeech'
  BY <1>1, <1>3 DEF OrderInv, OnlySpeech
<1>6. OneConsumer'
  BY <1>1 DEF OrderInv, OneConsumer, At
<1>7. SentinelsLead'
  BY <1>1 DEF OrderInv, SentinelsLead, Fresh, Silent, At
<1> QED
  BY <1>4, <1>5, <1>6, <1>7 DEF OrderInv

LEMMA PushPutsOrder ==
    ASSUME StreamTyped, OrderInv, NEW p \in Pushers, PushPuts(p)
    PROVE  OrderInv'
<1> DEFINE ch == pushers[p].chunk
<1>1. /\ ch \in Chunk /\ ch.epoch <= epoch /\ ~ch.transition
      /\ pcm' = Put(pcm, ch, p, QueueCapacity)
      /\ UNCHANGED <<phase, epoch, consumer, shown>>
  BY DEF PushPuts, StreamTyped, PushersTyped, OrderInv, NothingAhead, OnlySpeech
<1>2. \A r \in Pushers : pushers'[r].at # "idle" =>
         pushers[r].at # "idle" /\ pushers'[r].chunk = pushers[r].chunk
  BY DEF PushPuts, StreamTyped, PushersTyped, IdlePusher
<1>3. /\ pcm.items \in Seq(Chunk) /\ pcm.putters \in Seq([by : Pushers, item : Chunk])
      /\ pcm.getters \in Seq({"consumer"})
  BY DEF StreamTyped, PcmTyped, Queues
<1> HIDE DEF ch
<1>4. CASE pcm.getters # <<>>
  <2>1. /\ pcm'.items = pcm.items /\ pcm'.putters = pcm.putters /\ pcm'.getters = <<>>
        /\ pcm'.handed = pcm.handed \cup {[to |-> "consumer", item |-> ch]}
    <3>1. pcm.getters = <<"consumer">>
      BY <1>4 DEF OrderInv, OneConsumer
    <3>2. Tail(<<"consumer">>) = <<>> /\ Head(<<"consumer">>) = "consumer"
      OBVIOUS
    <3> QED
      BY <1>1, <1>4, <3>1, <3>2 DEF Put, HandedOff, StreamTyped, PcmTyped, Queues
  <2>2. consumer.at = "getting" /\ pcm.items = <<>>
    BY <1>4 DEF OrderInv, OneConsumer, StreamTyped, PcmTyped, Served, NobodyWaitsInVain
  <2>3. \A h \in pcm'.handed : h \in pcm.handed \/ h.item = ch
    BY <2>1
  <2>4. NothingAhead' /\ OnlySpeech'
    BY <1>1, <1>2, <2>1, <2>2, <2>3 DEF OrderInv, NothingAhead, OnlySpeech, Busy
  <2>5. OneConsumer' /\ SentinelsLead'
    BY <1>1, <2>1, <2>2, <2>3 DEF OrderInv, OneConsumer, SentinelsLead, Fresh, Silent
  <2> QED
    BY <2>4, <2>5 DEF OrderInv
<1>5. CASE pcm.getters = <<>> /\ Len(pcm.items) < QueueCapacity
  <2>1. pcm' = [pcm EXCEPT !.items = Append(pcm.items, ch)]
    BY <1>1, <1>5 DEF Put
  <2>2. /\ pcm'.items = Append(pcm.items, ch) /\ pcm'.putters = pcm.putters
        /\ pcm'.getters = pcm.getters /\ pcm'.handed = pcm.handed
    BY <2>1 DEF StreamTyped, PcmTyped, Queues
  <2>3. \A i \in 1..Len(pcm'.items) :
           IF i \in 1..Len(pcm.items) THEN pcm'.items[i] = pcm.items[i] ELSE pcm'.items[i] = ch
    BY <1>1, <1>3, <2>2
  <2>4. NothingAhead' /\ OnlySpeech'
    BY <1>1, <1>2, <2>2, <2>3 DEF OrderInv, NothingAhead, OnlySpeech, Busy
  <2>5. OneConsumer' /\ SentinelsLead'
    BY <1>1, <2>2, <2>3 DEF OrderInv, OneConsumer, SentinelsLead, Fresh, Silent
  <2> QED
    BY <2>4, <2>5 DEF OrderInv
<1>6. CASE pcm.getters = <<>> /\ ~(Len(pcm.items) < QueueCapacity)
  <2> DEFINE x == [by |-> p, item |-> ch]
  <2>1. pcm' = [pcm EXCEPT !.putters = Append(pcm.putters, x)]
    BY <1>1, <1>6 DEF Put
  <2>2. /\ pcm'.putters = Append(pcm.putters, x) /\ pcm'.items = pcm.items
        /\ pcm'.getters = pcm.getters /\ pcm'.handed = pcm.handed
    BY <2>1 DEF StreamTyped, PcmTyped, Queues
  <2>3. \A i \in 1..Len(pcm'.putters) :
           IF i \in 1..Len(pcm.putters) THEN pcm'.putters[i] = pcm.putters[i]
                                        ELSE pcm'.putters[i].item = ch
    <3>1. x \in [by : Pushers, item : Chunk] /\ x.item = ch
      BY <1>1
    <3> HIDE DEF x
    <3> QED
      BY <1>3, <2>2, <3>1
  <2>4. NothingAhead' /\ OnlySpeech'
    BY <1>1, <1>2, <2>2, <2>3 DEF OrderInv, NothingAhead, OnlySpeech, Busy
  <2>5. OneConsumer' /\ SentinelsLead'
    BY <1>1, <2>2 DEF OrderInv, OneConsumer, SentinelsLead, Fresh, Silent
  <2> QED
    BY <2>4, <2>5 DEF OrderInv
<1> QED
  BY <1>4, <1>5, <1>6

LEMMA PushEndsOrder ==
    ASSUME StreamTyped, OrderInv, NEW p \in Pushers, PushEnds(p)
    PROVE  OrderInv'
<1> DEFINE mine == {i \in DOMAIN pcm.putters : pcm.putters[i].by = p}
<1>1. /\ pcm'.putters = Without(pcm.putters, mine)
      /\ pcm'.items = pcm.items /\ pcm'.getters = pcm.getters /\ pcm'.handed = pcm.handed
      /\ UNCHANGED <<phase, epoch, consumer, shown>>
  BY DEF PushEnds, PutterGone, StreamTyped, PcmTyped, Queues
<1>2. \A r \in Pushers : pushers'[r].at # "idle" =>
         pushers[r].at # "idle" /\ pushers'[r].chunk = pushers[r].chunk
  BY DEF PushEnds, StreamTyped, PushersTyped, IdlePusher
<1>3. mine \in SUBSET DOMAIN pcm.putters /\ pcm.putters \in Seq([by : Pushers, item : Chunk])
  BY DEF StreamTyped, PcmTyped, Queues
<1> HIDE DEF mine
<1>4. \A k \in 1..Len(pcm'.putters) : \E j \in 1..Len(pcm.putters) :
         pcm'.putters[k] = pcm.putters[j]
  BY <1>1, <1>3, WithoutElements
<1>5. \A k \in 1..Len(pcm'.putters) :
         pcm'.putters[k].item.epoch <= epoch /\ ~pcm'.putters[k].item.transition
  BY <1>4 DEF OrderInv, NothingAhead, OnlySpeech
<1>6. NothingAhead' /\ OnlySpeech'
  BY <1>1, <1>2, <1>5 DEF OrderInv, NothingAhead, OnlySpeech
<1>7. OneConsumer' /\ SentinelsLead'
  BY <1>1 DEF OrderInv, OneConsumer, SentinelsLead, Fresh, Silent
<1> QED
  BY <1>6, <1>7 DEF OrderInv

LEMMA CancelOrder ==
    ASSUME StreamTyped, OrderInv, NEW e \in 0..MaxEpoch, CancelEpoch(e)
    PROVE  OrderInv'
<1>1. /\ e > epoch /\ epoch' = e /\ UNCHANGED <<phase, pushers, shown>>
      /\ consumer'.at = consumer.at /\ consumer'.chunk = consumer.chunk
  BY DEF CancelEpoch, StreamTyped, ConsumerTyped, Consumers
<1> DEFINE q == Drained(pcm)
<1>2. /\ q.items = <<>> /\ q.putters = <<>> /\ q.getters = pcm.getters
      /\ q.handed = pcm.handed /\ ~q.closed
      /\ q \in Queues(Chunk, {"consumer"}, Pushers)
  BY DrainedServed, StreamBounds DEF Drained, StreamTyped, PcmTyped, Queues
<1>3. pcm' = q \/ pcm' = Offered(q, Sentinel(e), QueueCapacity)
  BY DEF CancelEpoch, Interrupted
<1> HIDE DEF q
<1>4. Sentinel(e).epoch = e /\ Sentinel(e).transition
  BY DEF Sentinel
<1>5. /\ epoch \in Int /\ e \in Int
      /\ consumer.at \in Busy => consumer.chunk.epoch \in Int
      /\ shown # None => shown.epoch \in Int
      /\ \A h \in pcm.handed : h.item.epoch \in Int
      /\ \A r \in Pushers : pushers[r].at # "idle" => pushers[r].chunk.epoch \in Int
  BY StreamBounds DEF StreamTyped, PcmTyped, PushersTyped, ConsumerTyped, RestTyped, Chunk, Shown
<1>6. /\ consumer.at \in Busy => consumer.chunk.epoch < e
      /\ shown # None => shown.epoch < e
      /\ \A h \in pcm.handed : h.item.epoch < e
      /\ \A r \in Pushers : pushers[r].at # "idle" => pushers[r].chunk.epoch < e
  BY <1>1, <1>5 DEF OrderInv, NothingAhead
<1>7. /\ pcm'.putters = <<>>
      /\ \/ /\ pcm'.items = <<>> /\ pcm'.getters = pcm.getters /\ pcm'.handed = pcm.handed
         \/ /\ pcm'.items = <<Sentinel(e)>> /\ pcm'.getters = pcm.getters
            /\ pcm'.handed = pcm.handed
         \/ /\ pcm'.items = <<>> /\ pcm'.getters = <<>> /\ consumer.at = "getting"
            /\ pcm'.handed = pcm.handed \cup {[to |-> "consumer", item |-> Sentinel(e)]}
  <2>1. CASE pcm' = q
    BY <1>2, <2>1
  <2>2. CASE pcm' = Offered(q, Sentinel(e), QueueCapacity) /\ q.getters = <<>>
    <3>1. Len(q.items) < QueueCapacity /\ Append(q.items, Sentinel(e)) = <<Sentinel(e)>>
      BY <1>2, StreamBounds
    <3> QED
      BY <1>2, <2>2, <3>1 DEF Offered, Queues
  <2>3. CASE pcm' = Offered(q, Sentinel(e), QueueCapacity) /\ q.getters # <<>>
    <3>1. q.getters = <<"consumer">> /\ consumer.at = "getting"
      BY <1>2, <2>3 DEF OrderInv, OneConsumer
    <3>2. Tail(<<"consumer">>) = <<>> /\ Head(<<"consumer">>) = "consumer"
      OBVIOUS
    <3> QED
      BY <1>2, <2>3, <3>1, <3>2 DEF Offered, HandedOff, Queues
  <2> QED
    BY <1>3, <2>1, <2>2, <2>3
<1>8. \A h \in pcm'.handed : h \in pcm.handed \/ h.item = Sentinel(e)
  BY <1>7
<1>9. \A i \in 1..Len(pcm'.items) : i = 1 /\ pcm'.items[i] = Sentinel(e)
  <2> DEFINE x == Sentinel(e)
  <2>1. pcm'.items = <<>> \/ pcm'.items = <<x>>
    BY <1>7
  <2> HIDE DEF x
  <2>2. \A i \in 1..Len(pcm'.items) : i = 1 /\ pcm'.items[i] = x
    BY <2>1
  <2> QED
    BY <2>2 DEF x
<1>10. pcm'.putters = <<>> /\ Len(pcm'.putters) = 0
  BY <1>7
<1>11. NothingAhead' /\ OnlySpeech'
  BY <1>1, <1>4, <1>5, <1>6, <1>8, <1>9, <1>10 DEF OrderInv, NothingAhead, OnlySpeech
<1>12. OneConsumer'
  BY <1>1, <1>7 DEF OrderInv, OneConsumer
<1>13. SentinelsLead'
  BY <1>1, <1>4, <1>5, <1>6, <1>8, <1>9 DEF OrderInv, SentinelsLead, Fresh, Silent, Busy
<1> QED
  BY <1>11, <1>12, <1>13 DEF OrderInv

(* The consumer starts on a chunk that nothing of the chunk's epoch        *)
(* precedes but what is shown.                                             *)
LEMMA BeginsOrder ==
    ASSUME StreamTyped, OrderInv, NEW ch \in Chunk, Begins(ch),
           UNCHANGED <<phase, epoch, pushers, shown>>, phase # "new",
           pcm'.getters = <<>>, pcm'.handed = {},
           \A i \in 1..Len(pcm'.items) :
              /\ pcm'.items[i].epoch <= epoch
              /\ pcm'.items[i].transition =>
                    /\ i = 1
                    /\ Silent(pcm'.items[i].epoch)
                    /\ ~ch.transition => ch.epoch < pcm'.items[i].epoch,
           \A i \in 1..Len(pcm'.putters) :
              pcm'.putters[i].item.epoch <= epoch /\ ~pcm'.putters[i].item.transition,
           ch.epoch <= epoch,
           ch.transition => Silent(ch.epoch)
    PROVE  OrderInv'
<1>1. \/ consumer' = At("loop")
      \/ /\ consumer'.chunk = ch
         /\ consumer'.at = IF ch.transition THEN "transition" ELSE "infer"
  BY DEF Begins, Working
<1>2. NothingAhead' /\ OnlySpeech'
  BY <1>1 DEF OrderInv, NothingAhead, OnlySpeech, At, Busy
<1>3. OneConsumer'
  BY DEF OneConsumer
<1>4. SentinelsLead'
  BY <1>1 DEF SentinelsLead, Fresh, Silent, At
<1> QED
  BY <1>2, <1>3, <1>4 DEF OrderInv

LEMMA GetsOrder ==
    ASSUME StreamTyped, OrderInv, ConsumerGets
    PROVE  OrderInv'
<1>1. consumer.at = "loop" /\ UNCHANGED <<phase, epoch, pushers, shown>>
  BY DEF ConsumerGets
<1>2. pcm.getters = <<>> /\ pcm.handed = {} /\ phase # "new"
  BY <1>1 DEF OrderInv, OneConsumer
<1>3. pcm.items \in Seq(Chunk) /\ pcm.putters \in Seq([by : Pushers, item : Chunk])
  BY DEF StreamTyped, PcmTyped, Queues
<1>4. CASE pcm.items = <<>>
  <2>1. pcm' = Waiting(pcm, "consumer") /\ consumer' = At("getting")
    BY <1>4 DEF ConsumerGets
  <2>2. /\ pcm'.getters = <<"consumer">> /\ pcm'.handed = {}
        /\ pcm'.items = <<>> /\ pcm'.putters = pcm.putters
    <3>1. Append(<<>>, "consumer") = <<"consumer">>
      OBVIOUS
    <3> QED
      BY <1>2, <1>4, <2>1, <3>1 DEF Waiting, StreamTyped, PcmTyped, Queues
  <2> QED
    BY <1>1, <1>2, <2>1, <2>2 DEF OrderInv, NothingAhead, OnlySpeech, OneConsumer, SentinelsLead,
       At, Busy
<1>5. CASE pcm.items # <<>>
  <2> DEFINE ch == Head(pcm.items)
  <2>1. Begins(ch) /\ pcm' = Taken(pcm)
    BY <1>5 DEF ConsumerGets
  <2>2. ch = pcm.items[1] /\ 1 \in 1..Len(pcm.items) /\ ch \in Chunk
    BY <1>3, <1>5
  <2> HIDE DEF ch
  <2>3. /\ ch.epoch <= epoch
        /\ ch.transition => Silent(ch.epoch)
    BY <2>2 DEF OrderInv, NothingAhead, SentinelsLead, Fresh
  <2>4. \A i \in 1..Len(Tail(pcm.items)) :
           Tail(pcm.items)[i].epoch <= epoch /\ ~Tail(pcm.items)[i].transition
    <3>1. \A i \in 1..Len(Tail(pcm.items)) : /\ i + 1 \in 1..Len(pcm.items) /\ i + 1 # 1
                                             /\ Tail(pcm.items)[i] = pcm.items[i + 1]
      BY <1>3, <1>5
    <3> QED
      BY <3>1 DEF OrderInv, NothingAhead, SentinelsLead
  <2>5. /\ pcm'.getters = <<>> /\ pcm'.handed = {}
        /\ \A i \in 1..Len(pcm'.items) : pcm'.items[i].epoch <= epoch /\ ~pcm'.items[i].transition
        /\ \A i \in 1..Len(pcm'.putters) :
              pcm'.putters[i].item.epoch <= epoch /\ ~pcm'.putters[i].item.transition
    <3>1. CASE pcm.putters = <<>>
      <4>1. /\ pcm'.items = Tail(pcm.items) /\ pcm'.putters = pcm.putters
            /\ pcm'.getters = pcm.getters /\ pcm'.handed = pcm.handed
        BY <2>1, <3>1 DEF Taken, StreamTyped, PcmTyped, Queues
      <4> QED
        BY <1>2, <2>4, <3>1, <4>1
    <3>2. CASE pcm.putters # <<>>
      <4> DEFINE x == Head(pcm.putters).item
      <4>1. /\ pcm'.items = Append(Tail(pcm.items), x) /\ pcm'.putters = Tail(pcm.putters)
            /\ pcm'.getters = pcm.getters /\ pcm'.handed = pcm.handed
        BY <2>1, <3>2 DEF Taken, StreamTyped, PcmTyped, Queues
      <4>2. Head(pcm.putters) = pcm.putters[1] /\ 1 \in 1..Len(pcm.putters)
        BY <1>3, <3>2
      <4>3. pcm.putters[1] \in [by : Pushers, item : Chunk]
        <5>1. \A S : \A t \in Seq(S) : \A i \in 1..Len(t) : t[i] \in S
          OBVIOUS
        <5> QED
          BY <1>3, <4>2, <5>1
      <4>4. x \in Chunk /\ x.epoch <= epoch /\ ~x.transition
        BY <4>2, <4>3 DEF OrderInv, NothingAhead, OnlySpeech
      <4> HIDE DEF x
      <4>5. Tail(pcm.items) \in Seq(Chunk)
        BY <1>3, <1>5
      <4>6. \A i \in 1..Len(pcm'.items) :
               \/ i \in 1..Len(Tail(pcm.items)) /\ pcm'.items[i] = Tail(pcm.items)[i]
               \/ pcm'.items[i] = x
        BY <4>1, <4>4, <4>5
      <4>7. \A i \in 1..Len(pcm'.putters) : /\ i + 1 \in 1..Len(pcm.putters)
                                            /\ pcm'.putters[i] = pcm.putters[i + 1]
        BY <1>3, <3>2, <4>1
      <4>8. \A i \in 1..Len(pcm'.putters) :
               pcm'.putters[i].item.epoch <= epoch /\ ~pcm'.putters[i].item.transition
        BY <4>7 DEF OrderInv, NothingAhead, OnlySpeech
      <4> QED
        BY <1>2, <2>4, <4>1, <4>4, <4>6, <4>8
    <3> QED
      BY <3>1, <3>2
  <2> QED
    BY <1>1, <1>2, <2>1, <2>2, <2>3, <2>5, BeginsOrder
<1> QED
  BY <1>4, <1>5

LEMMA ReceivesOrder ==
    ASSUME StreamTyped, OrderInv, ConsumerReceives
    PROVE  OrderInv'
<1>1. PICK h \in pcm.handed : Begins(h.item)
  BY DEF ConsumerReceives, HandedTo
<1>2. /\ h.item \in Chunk
      /\ phase # "new"
      /\ UNCHANGED <<phase, epoch, pushers, shown>>
  BY DEF ConsumerReceives, StreamTyped, PcmTyped, OrderInv, OneConsumer
<1>3. /\ pcm'.handed = {} /\ pcm'.items = pcm.items
      /\ pcm'.getters = pcm.getters /\ pcm'.putters = pcm.putters
  BY DEF ConsumerReceives, Delivered, HandedTo, StreamTyped, PcmTyped, Queues
<1>4. /\ h.item.epoch <= epoch
      /\ h.item.transition => Silent(h.item.epoch)
      /\ \A i \in 1..Len(pcm'.items) :
            /\ pcm'.items[i].epoch <= epoch
            /\ pcm'.items[i].transition =>
                  /\ i = 1
                  /\ Silent(pcm'.items[i].epoch)
                  /\ ~h.item.transition => h.item.epoch < pcm'.items[i].epoch
      /\ \A i \in 1..Len(pcm'.putters) :
            pcm'.putters[i].item.epoch <= epoch /\ ~pcm'.putters[i].item.transition
  BY <1>3 DEF OrderInv, NothingAhead, OnlySpeech, SentinelsLead, Fresh
<1>5. pcm'.getters = <<>>
  BY <1>1, <1>3 DEF OrderInv, OneConsumer
<1> QED
  BY <1>1, <1>2, <1>3, <1>4, <1>5, BeginsOrder

LEMMA OrderStep == StreamTyped /\ OrderInv /\ [StreamNext]_streamVars => OrderInv'
<1> SUFFICES ASSUME StreamTyped, OrderInv, [StreamNext]_streamVars PROVE OrderInv'
  OBVIOUS
<1>1. CASE UNCHANGED adapterVars
  BY <1>1 DEF adapterVars, OrderInv, NothingAhead, OnlySpeech, OneConsumer, SentinelsLead, Fresh,
     Silent
<1> QED
  BY <1>1, StartStopOrder, PushChecksOrder, PushPutsOrder, PushEndsOrder, CancelOrder, GetsOrder,
     ReceivesOrder, ConsumerOrder
  DEF StreamNext, streamVars, StopSink, ConsumerStep

(* The mouth is closed before the avatar speaks again: no transition frame *)
(* of an epoch follows a speech frame of it (adapter.py:379-381).          *)
THEOREM TransitionsLead == StreamSpec => TransitionLeads
<1> DEFINE Leads == shown # None /\ shown'.kind = "transition" /\ shown'.epoch = shown.epoch
                       => shown.kind = "transition"
<1>1. StreamTyped /\ OrderInv /\ [StreamNext]_streamVars => [Leads]_streamVars
  <2> SUFFICES ASSUME StreamTyped, OrderInv, [StreamNext]_streamVars PROVE Leads
    OBVIOUS
  <2>1. CASE UNCHANGED shown
    BY <2>1
  <2>2. CASE TransitionFrame
    BY <2>1, <2>2, PublishesShown
    DEF TransitionFrame, Kinds, Busy, OrderInv, SentinelsLead, Silent
  <2>3. CASE SpeechFrame
    BY <2>1, <2>3, PublishesShown DEF SpeechFrame, Kinds, Busy
  <2> HIDE DEF Leads
  <2> QED
    BY <2>1, <2>2, <2>3
    DEF StreamNext, streamVars, adapterVars, Start, Stop, StopSink,
        PushChecks, PushPuts, PushEnds, CancelEpoch, ConsumerStep, ConsumerGets,
        ConsumerReceives, InferReturns, BatchEnds, TransitionCrashes, ChunkFails
<1> HIDE DEF Leads
<1>2. StreamSpec => [][Leads]_streamVars
  BY <1>1, OrderInit, OrderStep, StreamAlwaysTyped, PTL DEF StreamSpec
<1> QED
  BY <1>2 DEF Leads, TransitionLeads

-----------------------------------------------------------------------------
(* The clients of the sink: what holds of the order in which the consumer  *)
(* shows its frames holds of every client's, whatever its queue loses.     *)

LEMMA StreamSinkMoves == StreamTyped /\ [StreamNext]_streamVars => SinkMoves
<1> SUFFICES ASSUME StreamTyped, [StreamNext]_streamVars PROVE SinkMoves
  OBVIOUS
<1>1. ASSUME NEW kind \in Kinds, Publishes(kind), consumer.at \in Busy PROVE SinkMoves
  BY <1>1 DEF Publishes, SinkMoves, StreamTyped, ConsumerTyped, Chunk
<1>2. CASE TransitionFrame
  BY <1>1, <1>2 DEF TransitionFrame, Kinds, Busy, SinkMoves
<1>3. CASE SpeechFrame
  BY <1>1, <1>3 DEF SpeechFrame, Kinds, Busy, SinkMoves
<1> QED
  BY <1>2, <1>3
  DEF StreamNext, streamVars, Start, Stop, StopSink, PushChecks, PushPuts, PushEnds, CancelEpoch,
      ConsumerStep, ConsumerGets, ConsumerReceives, InferReturns, BatchEnds, TransitionCrashes,
      ChunkFails, SinkMoves

LEMMA StreamAlwaysSink == StreamSpec => []SinkInv
<1>1. StreamInit => SinkInv
  BY SinkInvInit DEF StreamInit
<1>2. StreamTyped /\ SinkInv /\ [StreamNext]_streamVars => SinkInv'
  BY StreamSinkMoves, SinkInvStep
<1> QED
  BY <1>1, <1>2, StreamAlwaysTyped, PTL DEF StreamSpec

(* The frames of a session reach its clients in the order of their epochs, *)
(* from whichever chunk and thread they come (ws_sink.py, adapter.py).     *)
THEOREM StreamEpochsAscend == StreamSpec => []EpochsAscend
BY SinkInvAscends, StreamAlwaysSink, PTL

MouthOrder ==
    {x \in Frame \X Frame :
        x[1].epoch = x[2].epoch /\ x[2].kind = "transition" => x[1].kind = "transition"}

(* The clients' frames are in that order, and none is ahead of the frame   *)
(* that was shown last.                                                    *)
MouthInv ==
    \A c \in Clients :
        /\ Lined(clients[c], MouthOrder)
        /\ \A f \in FramesOf(clients[c]) :
              /\ shown # None
              /\ f.epoch <= shown.epoch
              /\ f.epoch = shown.epoch /\ shown.kind = "transition" => f.kind = "transition"

LEMMA MouthInit == StreamInit => MouthInv
BY SinkStarts DEF StreamInit, MouthInv

(* The consumer shows a frame.                                             *)
LEMMA MouthPublishes ==
    ASSUME StreamTyped, OrderInv, SinkInv, MouthInv, consumer.at \in Busy,
           ~Stale(consumer.chunk),
           NEW kind \in Kinds, Publishes(kind),
           kind = "transition" => Silent(consumer.chunk.epoch)
    PROVE  MouthInv'
<1> DEFINE e == consumer.chunk.epoch
<1>1. e \in 0..MaxEpoch /\ epoch \in 0..MaxEpoch /\ epoch <= e
  <2>1. consumer.chunk \in Chunk /\ epoch \in 0..MaxEpoch
    BY DEF StreamTyped, ConsumerTyped, RestTyped
  <2> QED
    BY <2>1, StreamBounds DEF Stale, Chunk
<1>2. /\ shown' = [epoch |-> e, kind |-> kind] /\ shown' \in Shown
      /\ PublishFrame(e, kind)
  BY PublishesShown DEF Publishes
<1>3. shown' # None
  BY <1>2, StreamAssumption DEF Shown
<1> HIDE DEF e
<1>4. shown # None => shown.epoch \in Int /\ shown.epoch <= epoch
  BY StreamBounds DEF StreamTyped, RestTyped, Shown, OrderInv, NothingAhead
<1>5. ASSUME NEW c \in Clients, NEW f \in FramesOf(clients[c])
      PROVE  /\ f \in Frame /\ f.epoch <= e
             /\ f.epoch = e /\ kind = "transition" => f.kind = "transition"
  <2>1. f \in Frame /\ f.epoch \in Int
    BY <1>5, FramesTyped, StreamBounds DEF SinkInv, Frame
  <2>2. /\ shown # None
        /\ f.epoch <= shown.epoch
        /\ f.epoch = shown.epoch /\ shown.kind = "transition" => f.kind = "transition"
    BY <1>5 DEF MouthInv
  <2>3. e \in Int /\ epoch \in Int
    BY <1>1, StreamBounds
  <2>4. f.epoch = e => shown.epoch = e
    BY <1>1, <1>4, <2>1, <2>2, <2>3
  <2>5. f.epoch <= e
    BY <1>1, <1>4, <2>1, <2>2, <2>3
  <2>6. kind = "transition" /\ shown.epoch = e => shown.kind = "transition"
    BY <2>2 DEF Silent, e
  <2> QED
    BY <2>1, <2>2, <2>4, <2>5, <2>6
<1>6. ASSUME NEW N, Offers(N), \A f \in N : f \in Frame /\ f.epoch = e /\ f.kind = kind
      PROVE  MouthInv'
  <2> SUFFICES ASSUME NEW c \in Clients
               PROVE  /\ Lined(clients'[c], MouthOrder)
                      /\ \A f \in FramesOf(clients'[c]) :
                            /\ f.epoch <= e
                            /\ f.epoch = e /\ kind = "transition" => f.kind = "transition"
    BY <1>2, <1>3 DEF MouthInv
  <2>1. FramesOf(clients[c]) \X N \subseteq MouthOrder
    BY <1>5, <1>6 DEF MouthOrder
  <2>2. Lined(clients'[c], MouthOrder)
    BY <1>6, <2>1, OffersLined DEF MouthInv
  <2>3. FramesOf(clients'[c]) \subseteq FramesOf(clients[c]) \cup N
    BY <1>6, OffersFrames
  <2>4. e <= e
    BY <1>1, StreamBounds
  <2> QED
    BY <1>5, <1>6, <2>2, <2>3, <2>4
<1>7. CASE UNCHANGED clients
  <2>1. Offers({})
    BY <1>7, NothingOffered DEF SinkInv
  <2> QED
    BY <1>6, <2>1
<1>8. ASSUME NEW f \in Frame, Stamped(f, e, kind), Offers({f}) PROVE MouthInv'
  BY <1>6, <1>8 DEF Stamped
<1> QED
  BY <1>1, <1>2, <1>7, <1>8, PublishOffers DEF SinkInv, sinkVars

LEMMA MouthStep ==
    StreamTyped /\ OrderInv /\ SinkInv /\ MouthInv /\ [StreamNext]_streamVars => MouthInv'
<1> SUFFICES ASSUME StreamTyped, OrderInv, SinkInv, MouthInv, [StreamNext]_streamVars
             PROVE  MouthInv'
  OBVIOUS
<1>1. CASE Offers({}) /\ UNCHANGED shown
  <2> SUFFICES ASSUME NEW c \in Clients
               PROVE  /\ Lined(clients'[c], MouthOrder)
                      /\ \A f \in FramesOf(clients'[c]) :
                            /\ shown # None
                            /\ f.epoch <= shown.epoch
                            /\ f.epoch = shown.epoch /\ shown.kind = "transition"
                                  => f.kind = "transition"
    BY <1>1 DEF MouthInv
  <2>1. Lined(clients'[c], MouthOrder)
    BY <1>1, OffersLined DEF MouthInv
  <2>2. FramesOf(clients'[c]) \subseteq FramesOf(clients[c])
    BY <1>1, OffersFrames
  <2> QED
    BY <2>1, <2>2 DEF MouthInv
<1>2. CASE TransitionFrame /\ ~Stale(consumer.chunk)
  BY <1>2, MouthPublishes DEF TransitionFrame, Busy, Kinds, OrderInv, SentinelsLead
<1>3. CASE SpeechFrame /\ ~(consumer.cancelled \/ Stale(consumer.chunk))
  BY <1>3, MouthPublishes DEF SpeechFrame, Busy, Kinds
<1>4. CASE \/ UNCHANGED sinkVars
           \/ \E e \in 0..MaxEpoch : SinkCancelEpoch(e)
           \/ SinkStop
           \/ ApplyFeedback
           \/ \E c \in Clients : ClientStep(c)
  <2>1. Offers({})
    BY <1>4, QuietOffers DEF SinkInv
  <2>2. UNCHANGED shown \/ TransitionFrame \/ SpeechFrame
    BY DEF StreamNext, streamVars, adapterVars, Start, Stop, StopSink, PushChecks, PushPuts,
       PushEnds, CancelEpoch, ConsumerStep, ConsumerGets, ConsumerReceives, InferReturns,
       BatchEnds, TransitionCrashes, ChunkFails
  <2>3. CASE TransitionFrame
    BY <1>1, <1>2, <2>1, <2>3 DEF TransitionFrame
  <2>4. CASE SpeechFrame
    BY <1>1, <1>3, <2>1, <2>4 DEF SpeechFrame
  <2> QED
    BY <1>1, <2>1, <2>2, <2>3, <2>4
<1>5. CASE TransitionFrame
  BY <1>2, <1>4, <1>5 DEF TransitionFrame
<1>6. CASE SpeechFrame
  BY <1>3, <1>4, <1>6 DEF SpeechFrame
<1> QED
  BY <1>4, <1>5, <1>6
  DEF StreamNext, streamVars, Start, Stop, StopSink, PushChecks, PushPuts, PushEnds, CancelEpoch,
      ConsumerStep, ConsumerGets, ConsumerReceives, InferReturns, BatchEnds, TransitionCrashes,
      ChunkFails

(* The mouth a client sees is closed before it opens again: no transition  *)
(* frame of an epoch follows a speech frame of it, although interruptions, *)
(* the consumer, the sink and the socket all run on their own              *)
(* (adapter.py:379-381, ws_sink.py).                                       *)
THEOREM MouthClosesFirst == StreamSpec => []ClosesMouthFirst
<1>1. SinkInv /\ MouthInv => ClosesMouthFirst
  <2> SUFFICES ASSUME SinkInv, MouthInv, NEW c \in Clients,
                      NEW j \in 1..Len(OnItsWay(c)), NEW i \in 1..j,
                      OnItsWay(c)[i].epoch = OnItsWay(c)[j].epoch,
                      OnItsWay(c)[j].kind = "transition"
               PROVE  OnItsWay(c)[i].kind = "transition"
    BY DEF ClosesMouthFirst
  <2> DEFINE s == OnItsWay(c)
  <2>1. /\ s \in Seq(Frame)
        /\ \A m, n \in 1..Len(s) : m < n => <<s[m], s[n]>> \in MouthOrder
    BY OnItsWayLined DEF SinkInv, MouthInv
  <2> HIDE DEF s
  <2>2. i \in 1..Len(s) /\ j \in 1..Len(s) /\ (i = j \/ i < j)
    BY <2>1 DEF s
  <2>3. i < j => <<s[i], s[j]>> \in MouthOrder
    BY <2>1, <2>2
  <2> QED
    BY <2>2, <2>3 DEF s, MouthOrder
<1>2. StreamSpec => []OrderInv
  BY OrderInit, OrderStep, StreamAlwaysTyped, PTL DEF StreamSpec
<1> QED
  BY <1>1, <1>2, MouthInit, MouthStep, StreamAlwaysTyped, StreamAlwaysSink, PTL DEF StreamSpec
===============================================================================
