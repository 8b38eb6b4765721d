---------------------------- MODULE DuplexSession ----------------------------
(***************************************************************************)
(* A full-duplex session (duplex.py) with the audio sockets that serve it  *)
(* (publish/ws_routes.py): microphone frames in, and out of the worker's   *)
(* output queue, through the drain task, the downlink queue and the sender *)
(* task of a socket, audio and events.  The session has started; leases    *)
(* and renewals belong to SessionLifecycle.                                *)
(***************************************************************************)
EXTENDS RealtimeWorker

CONSTANTS
    Sockets,           \* audio sockets that may be connected
    DownlinkCapacity,  \* capacity of out_queue
    MaySend            \* whether a socket may send cancel or epoch

ASSUME DuplexAssumption ==
    /\ DownlinkCapacity \in Nat \ {0}
    /\ MaySend \in BOOLEAN
    /\ "drain" \notin Sockets

VARIABLES
    session,           \* "open" | "stopping" | "stopped"
    drain,             \* _drain_task: "on", "off", or "dead" of an exception
    downlink,          \* out_queue
    sender,            \* the sender task of each socket
    spoken,            \* history: the audio the drain has taken last
    flushed            \* history: the epoch of the last flush it has taken, though
                       \* a full downlink may have lost it

duplexVars == <<workerVars, session, drain, downlink, sender, spoken, flushed>>

-----------------------------------------------------------------------------
(* The drain task.                                                         *)

DrainWaits ==
    /\ drain = "on"
    /\ output.items = <<>>
    /\ "drain" \notin output.waiting \cup output.woken
    /\ output' = Suspended(output, "drain")
    /\ UNCHANGED <<epoch, running, turns, history, speech, ready, lock, threads, token, input,
                   control, loop, session, drain, downlink, sender, spoken, flushed>>

(* What a socket sends is not told apart.                                  *)
Passed == [stamp |-> 0]

(* An event is passed on; a full downlink loses it.  An empty deque raises *)
(* IndexError, which nobody catches.                                       *)
DrainPasses ==
    /\ drain = "on"
    /\ MayPass(output, "drain")
    /\ IF PopsNothing(output, "drain")
       THEN /\ drain' = "dead"
            /\ output' = ConsumerGone(output, "drain")
            /\ UNCHANGED <<downlink, spoken, flushed>>
       ELSE LET x == Head(output.items)
            IN  /\ output' = PoppedBy(output, "drain")
                /\ downlink' = Enqueued(downlink, Passed, 0, DownlinkCapacity)
                /\ spoken' = IF x.kind = "pcm" THEN x ELSE spoken
                /\ flushed' = IF x.kind = "flush" THEN x.epoch ELSE flushed
                /\ UNCHANGED drain
    /\ UNCHANGED <<epoch, running, turns, history, speech, ready, lock, threads, token, input,
                   control, loop, session, sender>>

DrainStep == DrainWaits \/ DrainPasses

-----------------------------------------------------------------------------
(* stop, in two steps: the drain task is cancelled, then the worker is     *)
(* stopped.  The exception of a dead drain task surfaces where stop awaits *)
(* it, and ends stop.                                                      *)

StopBegins(left) ==
    /\ session = "open"
    /\ session' = "stopping"
    /\ drain' = IF drain = "on" THEN "off" ELSE drain
    /\ output' = ConsumerGone(output, "drain")
    /\ sender' = [k \in Sockets |-> IF k \in left THEN "away" ELSE sender[k]]
    /\ downlink' = [downlink EXCEPT !.waiting = @ \ left, !.woken = @ \ left]
    /\ UNCHANGED <<epoch, running, turns, history, speech, ready, lock, threads, token, input,
                   control, loop, spoken, flushed>>

StopEnds ==
    /\ session = "stopping"
    /\ drain = "off"
    /\ session' = "stopped"
    /\ StopWorker
    /\ UNCHANGED <<drain, downlink, sender, spoken, flushed>>

-----------------------------------------------------------------------------
(* The audio socket k.                                                     *)

Connects(k) ==
    /\ session = "open"
    /\ sender[k] = "away"
    /\ sender' = [sender EXCEPT ![k] = "idle"]
    /\ UNCHANGED <<workerVars, session, drain, downlink, spoken, flushed>>

SenderWaits(k) ==
    /\ sender[k] = "idle"
    /\ downlink.items = <<>>
    /\ k \notin downlink.waiting \cup downlink.woken
    /\ downlink' = Suspended(downlink, k)
    /\ UNCHANGED <<workerVars, session, drain, sender, spoken, flushed>>

(* With two sockets the second may find the deque empty: its sender ends,  *)
(* as it does when the send raises.  How long a send takes is the time to  *)
(* the sender's next step.                                                 *)
SenderTakes(k) ==
    /\ sender[k] = "idle"
    /\ MayPass(downlink, k)
    /\ IF PopsNothing(downlink, k)
       THEN /\ sender' = [sender EXCEPT ![k] = "dead"]
            /\ downlink' = ConsumerGone(downlink, k)
       ELSE /\ sender' \in {sender, [sender EXCEPT ![k] = "dead"]}
            /\ downlink' = PoppedBy(downlink, k)
    /\ UNCHANGED <<workerVars, session, drain, spoken, flushed>>

(* What is still sent to a session that stops has no effect any more, nor  *)
(* have frames with nothing left to recognise.                             *)
Mic(k) ==
    /\ session = "open" /\ sender[k] # "away"
    /\ \E t \in Turns : turns[t].at = "none"
    /\ PushFrame
    /\ UNCHANGED <<session, drain, downlink, sender, spoken, flushed>>

(* cancel or epoch: no flush event, and the downlink is not purged.        *)
BargeIn(k) ==
    /\ MaySend
    /\ session = "open" /\ sender[k] # "away"
    /\ Interruptions < MaxEpoch
    /\ AdvanceEpoch(FALSE)
    /\ UNCHANGED <<control, loop, session, drain, downlink, sender, spoken, flushed>>

(* stop or a disconnect: the session stops with its first socket.          *)
Leaves(k) ==
    /\ sender[k] # "away"
    /\ IF session = "open"
       THEN StopBegins({k})
       ELSE /\ sender' = [sender EXCEPT ![k] = "away"]
            /\ downlink' = ConsumerGone(downlink, k)
            /\ UNCHANGED <<workerVars, session, drain, spoken, flushed>>

SenderStep(k) == SenderWaits(k) \/ SenderTakes(k)

SocketStep(k) == Connects(k) \/ SenderStep(k) \/ Mic(k) \/ BargeIn(k) \/ Leaves(k)

-----------------------------------------------------------------------------
DuplexInit ==
    /\ WorkerInit
    /\ session = "open"
    /\ drain = "on"
    /\ downlink = NewBounded
    /\ sender = [k \in Sockets |-> "away"]
    /\ spoken = None
    /\ flushed = 0

rest == <<session, drain, downlink, sender, spoken, flushed>>

DuplexNext ==
    \/ \E t \in Turns : TurnStep(t) /\ UNCHANGED <<input, control, loop, rest>>
    \/ \E s \in Sentences : SpeechStep(s) /\ UNCHANGED <<input, control, loop, rest>>
    \/ RunStep /\ UNCHANGED rest
    \/ \E i \in Intents : session = "open" /\ PushControl(i) /\ UNCHANGED rest
    \/ DrainStep
    \/ \E k \in Sockets : SocketStep(k)
    \/ StopBegins({})
    \/ StopEnds

DuplexSpec == DuplexInit /\ [][DuplexNext]_duplexVars

(* Tasks run, threads return, generators are finalized.  Nothing is assumed*)
(* of clients, of the network, or that a model ever ends its answer.       *)
DuplexFairness ==
    /\ \A s \in Sentences :
          WF_duplexVars(SpeechStep(s) /\ UNCHANGED <<input, control, loop, rest>>)
    /\ WF_duplexVars(RunStep /\ UNCHANGED rest)
    /\ WF_duplexVars(DrainStep)
    /\ WF_duplexVars(StopEnds)

DuplexFairSpec == DuplexSpec /\ DuplexFairness

-----------------------------------------------------------------------------
(* Properties.                                                             *)

Event == [stamp : {0}, kind : {"pcm", "flush", "notice"}, epoch : 0..MaxEpoch,
          of : Sentences \cup {None}, chunk : Nat]

QueueOf(items, consumers) ==
    [items : Seq(items), epoch : 0..MaxEpoch,
     waiting : SUBSET consumers, woken : SUBSET consumers]

(* Type invariant.                                                         *)
DuplexTypeOK ==
    /\ epoch \in 0..MaxEpoch
    /\ running \in BOOLEAN
    /\ output \in QueueOf(Event, {"drain"}) /\ Len(output.items) <= OutputCapacity
    /\ turns \in [Turns -> [at : {"none", "streaming", "over"}, epoch : 0..MaxEpoch,
                            next : Nat]]
    /\ history \in Seq([role : {"user", "assistant"}, turn : Turns])
    /\ speech \in [Sentences -> [at : Places, epoch : 0..MaxEpoch, chunk : Nat,
                                 tracked : BOOLEAN, cut : BOOLEAN]]
    /\ ready \in Seq(Sentences)
    /\ lock \in [holder : Sentences \cup {None}, queue : Seq(Sentences)]
    /\ threads \subseteq Sentences
    /\ token \in Sentences \cup {None}
    /\ input \in QueueOf([stamp : 0..MaxEpoch], {})
    /\ control \in QueueOf([stamp : {0}, intent : Intents], {})
    /\ loop \in {"top", "frame", "off"}
    /\ session \in {"open", "stopping", "stopped"}
    /\ drain \in {"on", "off", "dead"}
    /\ downlink \in QueueOf({Passed}, Sockets) /\ Len(downlink.items) <= DownlinkCapacity
    /\ sender \in [Sockets -> {"away", "idle", "dead"}]
    /\ spoken \in Event \cup {None}
    /\ flushed \in 0..MaxEpoch

(* The lock is held exactly by the synthesis that is neither waiting nor   *)
(* over, whatever was cancelled, swallowed or left suspended; nobody else  *)
(* drives the engine (voice/worker.py:17).                                 *)
LockMatchesSynthesis ==
    \A s \in Sentences :
        lock.holder = s <=> speech[s].at \in {"thread", "pushing", "doomed", "closing"}

(* One chunk is computed at a time: GPT-SoVITS is not thread-safe          *)
(* (voice/worker.py:17-19).                                                *)
ExclusiveInference == Cardinality(threads) <= 1

(* A session that is open passes on what its worker says: an interruption  *)
(* by a control message never ends the drain task, whose exception would   *)
(* also keep stop from its end (duplex.py:208, runtime/queues.py:58).      *)
DrainAlive == drain # "dead"

(* What is remembered of the dialogue is whole exchanges: every answer     *)
(* stands behind its question (llm_turn.py:43-44).                         *)
HistoryInPairs ==
    \A i \in DOMAIN history :
        history[i].role = "assistant" => i > 1 /\ history[i - 1] = Message("user", history[i].turn)

(* Once the drain has taken the flush of an interruption, it passes on no  *)
(* audio of an older epoch, though a swallowed cancellation, a thread or a *)
(* queued event may still carry some (README.md:47).                       *)
NothingAfterFlush ==
    [][spoken' # spoken => spoken'.epoch >= flushed]_duplexVars

(* The sentences of a reply are passed on in their order, the chunks of a  *)
(* sentence in theirs, though every sentence has a task of its own.        *)
SentencesInOrder ==
    [][spoken' # spoken /\ spoken # None /\ spoken'.epoch = spoken.epoch
          /\ spoken'.of[1] = spoken.of[1]
       => \/ spoken.of[2] < spoken'.of[2]
          \/ spoken.of = spoken'.of /\ spoken.chunk < spoken'.chunk]_duplexVars

(* Every sentence is spoken or given up, and its lock returned.            *)
EverySentenceEnds ==
    \A s \in Sentences : speech[s].at = "starting" ~> speech[s].at = "over"

(* The flush of every interruption is taken by the drain: it is put in the *)
(* step that purges the queue, and is neither purged nor refused.  It says *)
(* nothing of the client: the drain does not look at the answer of the     *)
(* downlink (duplex.py:325), which loses the flush when it is full.        *)
FlushTaken ==
    \A e \in 1..MaxEpoch : epoch = e ~> (flushed >= e \/ session # "open")
=============================================================================
