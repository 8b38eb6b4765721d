----------------------------- MODULE AvatarStream -----------------------------
(***************************************************************************)
(* The streaming adapter of a session (adapter.py) with its video sink: a  *)
(* bounded queue of PCM chunks filled by push_pcm, a consumer task that    *)
(* turns chunks into frames, and cancel_epoch, which interrupts both.      *)
(*                                                                         *)
(* Every await of the adapter counts as a point where other tasks may run, *)
(* whatever the publisher behind it.  The lease of the worker is the       *)
(* pool's business (WorkerPool).  A chunk is its epoch and the number of   *)
(* inference batches it takes.                                             *)
(***************************************************************************)
EXTENDS VideoSink

CONSTANTS
    Pushers,           \* tasks that may be in push_pcm
    QueueCapacity,     \* queue_capacity
    MaxBatches,        \* bound: the batches of a chunk
    BatchSize,         \* worker.batch_size, the frames of a batch
    TransitionFrames,  \* transition_frames, 0 = disabled
    DegradeAfter,      \* degrade_after_errors
    HasFallback,       \* whether there is a fallback worker
    MayRaise           \* whether inference, and the publisher, may raise

ASSUME StreamAssumption ==
    /\ QueueCapacity \in Nat \ {0} /\ MaxBatches \in Nat \ {0} /\ BatchSize \in Nat \ {0}
    /\ TransitionFrames \in 0..4 /\ DegradeAfter \in Nat \ {0}
    /\ {HasFallback, MayRaise} \subseteq BOOLEAN
    /\ None \notin [epoch : 0..MaxEpoch, kind : Kinds]

VARIABLES
    phase,       \* "new" | "running" | "stopped" (_stopped)
    epoch,       \* _current_epoch, the worker's epoch as well
    pcm,         \* _queue
    pushers,     \* what each task in push_pcm is doing
    consumer,    \* the consumer task
    errors,      \* stats.consecutive_errors
    degraded,    \* stats.degraded
    shown        \* history: the frame handed to the publisher last

adapterVars == <<phase, epoch, pcm, pushers, consumer, errors, degraded, shown>>

streamVars == <<adapterVars, sinkVars>>

Chunk == [epoch : 0..MaxEpoch, transition : BOOLEAN, batches : 0..MaxBatches]

Sentinel(e) == [epoch |-> e, transition |-> TRUE, batches |-> 0]

(***************************************************************************)
(* The consumer.  none: no task.  loop: about to get a chunk.  getting:    *)
(* waiting for one.  infer: a batch is being inferred in a thread.         *)
(* frames: `left' frames of the batch are still to be published.           *)
(* transition: the same for the transition frames.  `cancelled' is the     *)
(* CancelToken the chunk was started with.                                 *)
(***************************************************************************)
At(place) == [at |-> place, chunk |-> None, left |-> 0, cancelled |-> FALSE]

Working(place, ch, n) == [at |-> place, chunk |-> ch, left |-> n, cancelled |-> FALSE]

Stale(ch) == ch.epoch < epoch

-----------------------------------------------------------------------------
(* start and stop.                                                         *)

Start ==
    /\ phase = "new"
    /\ phase' = "running"
    /\ consumer' = At("loop")
    /\ UNCHANGED <<epoch, pcm, pushers, errors, degraded, shown, sinkVars>>

(* The consumer is cancelled where it is; a chunk on its way to it is lost.*)
Stop ==
    /\ phase = "running"
    /\ phase' = "stopped"
    /\ consumer' = At("none")
    /\ pcm' = GetterGone(pcm, "consumer")
    /\ UNCHANGED <<epoch, pushers, errors, degraded, shown, sinkVars>>

(* The session stops its sink after its adapter.                           *)
StopSink ==
    /\ phase = "stopped"
    /\ SinkStop
    /\ UNCHANGED adapterVars

-----------------------------------------------------------------------------
(* push_pcm, by task p, whose chunk is of the current epoch: a producer    *)
(* keeps the epoch it started with, and an older one is refused.           *)

(* The checks; a consumer that has died is replaced.                       *)
PushChecks(p) ==
    /\ phase = "running"
    /\ pushers[p].at = "idle"
    /\ \E n \in 1..MaxBatches :
          pushers' = [pushers EXCEPT ![p] =
                        [at |-> "putting",
                         chunk |-> [epoch |-> epoch, transition |-> FALSE, batches |-> n]]]
    /\ consumer' = IF consumer.at = "none" THEN At("loop") ELSE consumer
    /\ UNCHANGED <<phase, epoch, pcm, errors, degraded, shown, sinkVars>>

IdlePusher == [at |-> "idle", chunk |-> None]

(* wait_for starts put, before Python 3.12 in a task of its own.           *)
PushPuts(p) ==
    /\ pushers[p].at = "putting"
    /\ pcm' = Put(pcm, pushers[p].chunk, p, QueueCapacity)
    /\ pushers' = [pushers EXCEPT ![p] = IF pcm'.putters # pcm.putters
                                         THEN [@ EXCEPT !.at = "blocked"]
                                         ELSE IdlePusher]
    /\ UNCHANGED <<phase, epoch, consumer, errors, degraded, shown, sinkVars>>

(* The put is done, the push timeout fires, or the producer is cancelled.  *)
PushEnds(p) ==
    /\ pushers[p].at # "idle"
    /\ pcm' = PutterGone(pcm, p)
    /\ pushers' = [pushers EXCEPT ![p] = IdlePusher]
    /\ UNCHANGED <<phase, epoch, consumer, errors, degraded, shown, sinkVars>>

-----------------------------------------------------------------------------
(* cancel_epoch: the epoch, the token, the sink, the queue, the transition *)
(* sentinel and the degradation flag, in one step.                         *)

Interrupted(q, e) ==
    IF TransitionFrames > 0 /\ phase # "stopped"
    THEN Offered(Drained(q), Sentinel(e), QueueCapacity)
    ELSE Drained(q)

\* Mutant: the token of the chunk in hand is replaced and not cancelled.
CancelEpoch_KeepsToken(e) ==
    /\ phase # "new"
    /\ e > epoch
    /\ epoch' = e
    /\ SinkCancelEpoch(e)
    /\ pcm' = Interrupted(pcm, e)
    /\ degraded' = FALSE
    /\ errors' = IF degraded THEN 0 ELSE errors
    /\ UNCHANGED <<phase, pushers, consumer, shown>>

CancelEpoch(e) ==
    /\ phase # "new"
    /\ e > epoch
    /\ epoch' = e
    /\ consumer' = [consumer EXCEPT !.cancelled = consumer.at \in {"infer", "frames"}]
    /\ SinkCancelEpoch(e)
    /\ pcm' = Interrupted(pcm, e)
    /\ degraded' = FALSE
    /\ errors' = IF degraded THEN 0 ELSE errors
    /\ UNCHANGED <<phase, pushers, shown>>

-----------------------------------------------------------------------------
(* The consumer task.                                                      *)

(* What the consumer does with a chunk it has got: nothing when it is      *)
(* stale; the worker renders up to TransitionFrames frames, or none.       *)
Begins(ch) ==
    \/ /\ Stale(ch)
       /\ consumer' = At("loop")
    \/ /\ ~Stale(ch) /\ ch.transition
       /\ \E n \in 0..TransitionFrames :
             consumer' = IF n = 0 THEN At("loop") ELSE Working("transition", ch, n)
    \/ /\ ~Stale(ch) /\ ~ch.transition
       /\ consumer' = Working("infer", ch, 0)

ConsumerGets ==
    /\ consumer.at = "loop"
    /\ IF pcm.items # <<>>
       THEN Begins(Head(pcm.items)) /\ pcm' = Taken(pcm)
       ELSE consumer' = At("getting") /\ pcm' = Waiting(pcm, "consumer")
    /\ UNCHANGED <<phase, epoch, pushers, errors, degraded, shown, sinkVars>>

ConsumerReceives ==
    /\ consumer.at = "getting"
    /\ \E h \in HandedTo(pcm, "consumer") : Begins(h.item)
    /\ pcm' = Delivered(pcm, "consumer")
    /\ UNCHANGED <<phase, epoch, pushers, errors, degraded, shown, sinkVars>>

Publishes(kind) ==
    /\ PublishFrame(consumer.chunk.epoch, kind)
    /\ shown' = [epoch |-> consumer.chunk.epoch, kind |-> kind]

\* Mutant: a newer interruption ends the consumer and not only the transition.
TransitionFrame_Ends ==
    /\ consumer.at = "transition"
    /\ IF Stale(consumer.chunk)
       THEN consumer' = At("none") /\ UNCHANGED <<shown, sinkVars>>
       ELSE /\ Publishes("transition")
            /\ consumer' = IF consumer.left = 1
                           THEN At("loop")
                           ELSE [consumer EXCEPT !.left = @ - 1]
    /\ UNCHANGED <<phase, epoch, pcm, pushers, errors, degraded>>

(* One transition frame; a newer interruption stops the rest.              *)
TransitionFrame ==
    /\ consumer.at = "transition"
    /\ IF Stale(consumer.chunk)
       THEN consumer' = At("loop") /\ UNCHANGED <<shown, sinkVars>>
       ELSE /\ Publishes("transition")
            /\ consumer' = IF consumer.left = 1
                           THEN At("loop")
                           ELSE [consumer EXCEPT !.left = @ - 1]
    /\ UNCHANGED <<phase, epoch, pcm, pushers, errors, degraded>>

(* The publisher raises, which only _process_chunk catches: the consumer   *)
(* task ends.                                                              *)
TransitionCrashes ==
    /\ MayRaise
    /\ consumer.at = "transition"
    /\ ~Stale(consumer.chunk)
    /\ consumer' = At("none")
    /\ UNCHANGED <<phase, epoch, pcm, pushers, errors, degraded, shown, sinkVars>>

(* The chunk is done and the error streak over, also when it was cancelled:*)
(* under a cancelled token the remaining batches yield nothing.            *)
ChunkDone ==
    /\ consumer' = At("loop")
    /\ errors' = 0

(* The thread returns; the token is looked at before the first frame.      *)
InferReturns ==
    /\ consumer.at = "infer"
    /\ IF consumer.cancelled
       THEN ChunkDone
       ELSE /\ consumer' = [consumer EXCEPT !.at = "frames", !.left = BatchSize]
            /\ UNCHANGED errors
    /\ UNCHANGED <<phase, epoch, pcm, pushers, degraded, shown, sinkVars>>

(* One frame of the batch, or the end of the batch.  The token and the     *)
(* epoch are looked at before every frame.                                 *)
SpeechFrame ==
    /\ consumer.at = "frames"
    /\ consumer.left > 0
    /\ IF consumer.cancelled \/ Stale(consumer.chunk)
       THEN ChunkDone /\ UNCHANGED <<shown, sinkVars>>
       ELSE /\ Publishes("speech")
            /\ consumer' = [consumer EXCEPT !.left = @ - 1]
            /\ UNCHANGED errors
    /\ UNCHANGED <<phase, epoch, pcm, pushers, degraded>>

BatchEnds ==
    /\ consumer.at = "frames"
    /\ consumer.left = 0
    /\ IF consumer.chunk.batches > 1 /\ ~consumer.cancelled
       THEN /\ consumer' = [consumer EXCEPT !.at = "infer", !.chunk.batches = @ - 1]
            /\ UNCHANGED errors
       ELSE ChunkDone
    /\ UNCHANGED <<phase, epoch, pcm, pushers, degraded, shown, sinkVars>>

Capped(n) == IF n > DegradeAfter THEN DegradeAfter ELSE n

(* Inference, or the publisher, raises: the chunk is given up.             *)
ChunkFails ==
    /\ MayRaise
    /\ consumer.at \in {"infer", "frames"}
    /\ consumer' = At("loop")
    /\ errors' = Capped(errors + 1)
    /\ degraded' = (degraded \/ (HasFallback /\ errors + 1 >= DegradeAfter))
    /\ UNCHANGED <<phase, epoch, pcm, pushers, shown, sinkVars>>

-----------------------------------------------------------------------------

StreamInit ==
    /\ SinkInit
    /\ phase = "new"
    /\ epoch = 0
    /\ pcm = NewQueue
    /\ pushers = [p \in Pushers |-> IdlePusher]
    /\ consumer = At("none")
    /\ errors = 0
    /\ degraded = FALSE
    /\ shown = None

ConsumerStep ==
    \/ ConsumerGets
    \/ ConsumerReceives
    \/ TransitionFrame
    \/ InferReturns
    \/ SpeechFrame
    \/ BatchEnds

StreamNext ==
    \/ Start
    \/ Stop
    \/ StopSink
    \/ \E p \in Pushers : PushChecks(p) \/ PushPuts(p) \/ PushEnds(p)
    \/ \E e \in 0..MaxEpoch : CancelEpoch(e)
    \/ ConsumerStep
    \/ TransitionCrashes
    \/ ChunkFails
    \/ \E c \in Clients : ClientStep(c) /\ UNCHANGED adapterVars
    \/ ApplyFeedback /\ UNCHANGED adapterVars

StreamSpec == StreamInit /\ [][StreamNext]_streamVars

(* The consumer's task runs and inference returns.                         *)
StreamFairSpec == StreamSpec /\ WF_streamVars(ConsumerStep) /\ SinkFairness

-----------------------------------------------------------------------------
(* Properties.                                                             *)

(* Type invariant of the adapter.                                          *)
StreamTypeOK ==
    /\ phase \in {"new", "running", "stopped"}
    /\ epoch \in 0..MaxEpoch
    /\ pcm.items \in Seq(Chunk) /\ Len(pcm.items) <= QueueCapacity
    /\ pushers \in [Pushers -> [at : {"idle", "putting", "blocked"}, chunk : Chunk \cup {None}]]
    /\ consumer \in [at : {"none", "loop", "getting", "infer", "frames", "transition"},
                     chunk : Chunk \cup {None},
                     left : 0..(BatchSize + TransitionFrames),
                     cancelled : BOOLEAN]
    /\ errors \in 0..DegradeAfter
    /\ degraded \in BOOLEAN

(* Interrupted speech costs the GPU the batch in hand and no other         *)
(* (adapter.py:297-299, 344-346): once cancel_epoch has returned, no batch *)
(* of an older epoch is started, neither of a chunk that was queued, handed*)
(* over or still waiting for its slot, nor the next one of a chunk whose   *)
(* thread was running, which looks at its token and not at the epoch.      *)
NoWorkForStale ==
    [][consumer.at # "infer" /\ consumer'.at = "infer" => ~Stale(consumer'.chunk)]_streamVars

(* The transition frames of an epoch come before its first speech frame:   *)
(* the sentinel is ahead of every chunk of its epoch (adapter.py:379-381). *)
TransitionLeads ==
    [][shown # None /\ shown'.kind = "transition" /\ shown'.epoch = shown.epoch
          => shown.kind = "transition"]_streamVars

(* The consumer waits only while the queue is empty, a producer only while *)
(* it is full, through hand-offs, timeouts and drains.                     *)
NobodyStuck == NobodyWaitsInVain(pcm, QueueCapacity)

(* A client sees it the same way, whatever its queue has lost: after a     *)
(* speech frame of an epoch no transition frame of that epoch, although    *)
(* the interruption, the consumer, the sink and the socket all run on      *)
(* their own.                                                              *)
ClosesMouthFirst ==
    \A c \in Clients :
        LET s == OnItsWay(c)
        IN  \A j \in 1..Len(s) : \A i \in 1..j :
                s[i].epoch = s[j].epoch /\ s[j].kind = "transition" => s[i].kind = "transition"

(* The transition of an interruption is played or superseded: its sentinel *)
(* does not stay in the queue of a running adapter, however many           *)
(* interruptions come in a row.                                            *)
SentinelConsumed ==
    (\E i \in 1..Len(pcm.items) : pcm.items[i].transition)
        ~> ~(\E i \in 1..Len(pcm.items) : pcm.items[i].transition) \/ phase = "stopped"
=============================================================================
