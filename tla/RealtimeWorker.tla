---------------------------- MODULE RealtimeWorker ----------------------------
(***************************************************************************)
(* The session worker (runtime/worker.py, runtime/ingest.py): its loop     *)
(* over control messages and microphone frames, and advance_epoch, the one *)
(* place where the epoch changes.  What the detectors make of a frame is a *)
(* choice.  Settings, metrics, echo cancellation and the valley cut are    *)
(* left out.                                                               *)
(***************************************************************************)
EXTENDS SpeechTasks

CONSTANTS
    InputCapacity,     \* capacity of input_queue and control_queue
    Chatty,            \* whether frames may yield errors and other events than
                       \* final results
    Intents            \* the control messages the embedding program may push

ASSUME WorkerAssumption ==
    /\ InputCapacity \in Nat \ {0} /\ Chatty \in BOOLEAN
    /\ Intents \subseteq {"cancel_and_flush", "duck", "playback_ack", "close"}

VARIABLES
    input,             \* input_queue
    control,           \* control_queue
    loop               \* where _run is: "top" of its loop, about to look for a
                       \* "frame", or "off"

workerVars == <<speechVars, input, control, loop>>

-----------------------------------------------------------------------------
(* advance_epoch.                                                          *)

Flush(e) == [stamp |-> 0, kind |-> "flush", epoch |-> e, of |-> None, chunk |-> 0]

\* Mutant: the flush is put before the queue is purged.
OutputAfter_FlushFirst(flushes) ==
    Purged(IF flushes THEN Enqueued(output, Flush(epoch + 1), epoch + 1, OutputCapacity)
                      ELSE output, epoch + 1)

\* Mutant: no flush event.
OutputAfter_Unflushed(flushes) == Purged(output, epoch + 1)

(* The output queue after the epoch has advanced, and after the flush event*)
(* that a confirmed interruption adds in the same step.                    *)
OutputAfter(flushes) ==
    LET q == Purged(output, epoch + 1)
    IN  IF flushes THEN Enqueued(q, Flush(epoch + 1), epoch + 1, OutputCapacity) ELSE q

AdvanceEpoch(flushes) ==
    /\ epoch' = epoch + 1
    /\ input' = Purged(input, epoch + 1)
    /\ output' = OutputAfter(flushes)
    /\ CancelTtsTasks([s \in Sentences |-> CutToken(s)])
    /\ UNCHANGED <<running, history, threads, token>>

-----------------------------------------------------------------------------
(* push_frame, with the epoch of the moment, and push_control.  What is    *)
(* pushed once _running is FALSE is not read any more, and left out.       *)

PushFrame ==
    /\ running
    /\ input' = Enqueued(input, [stamp |-> epoch], epoch, InputCapacity)
    /\ UNCHANGED <<speechVars, control, loop>>

(* The interruptions that have been asked for: epoch' may not exceed       *)
(* MaxEpoch.                                                               *)
Interruptions ==
    epoch + Cardinality({i \in DOMAIN control.items :
                            control.items[i].intent = "cancel_and_flush"})

PushControl(intent) ==
    /\ running
    /\ intent = "cancel_and_flush" => Interruptions < MaxEpoch
    /\ control' = Enqueued(control, [stamp |-> 0, intent |-> intent], 0, InputCapacity)
    /\ UNCHANGED <<speechVars, input, loop>>

-----------------------------------------------------------------------------
(* _run.                                                                   *)

HandleControl ==
    /\ loop = "top" /\ running
    /\ control.items # <<>>
    /\ loop' = "frame"
    /\ control' = PoppedBy(control, "worker")
    /\ LET intent == Head(control.items).intent
       IN  \/ /\ intent = "cancel_and_flush"
              /\ AdvanceEpoch(TRUE)
           \/ /\ intent \in {"duck", "playback_ack"}
              /\ output' = Emitted(Notice)
              /\ UNCHANGED <<epoch, running, turns, history, speech, ready, lock, threads,
                             token, input>>
           \/ /\ intent = "close"
              /\ running' = FALSE
              /\ UNCHANGED <<epoch, output, turns, history, speech, ready, lock, threads,
                             token, input>>

(* A final result starts the turn, or is spoken as it is.                  *)
Recognised(t) ==
    /\ turns[t].at = "none"
    /\ \A u \in Turns : u < t => turns[u].at # "none"
    /\ output' = Emitted(Notice)
    /\ IF HasLlm
       THEN StartTurn(t) /\ UNCHANGED <<speech, ready>>
       ELSE /\ turns' = [turns EXCEPT ![t].at = "over"]
            /\ DispatchTts(<<t, 1>>, epoch)
    /\ UNCHANGED <<epoch, running, history, lock, threads, token>>

Noticed ==
    /\ output' = Emitted(Notice)
    /\ UNCHANGED <<epoch, running, turns, history, speech, ready, lock, threads, token>>

(* A control message goes first.  Without a frame the loop waits for one,  *)
(* at most 50 ms.  A frame yields nothing, an event of a detector, a final *)
(* result, or an error.                                                    *)
HandleFrame ==
    /\ loop = "frame" \/ (loop = "top" /\ running /\ control.items = <<>>)
    /\ loop' = "top"
    /\ IF input.items = <<>>
       THEN UNCHANGED <<speechVars, input>>
       ELSE /\ input' = PoppedBy(input, "worker")
            /\ IF Head(input.items).stamp < epoch
               THEN UNCHANGED speechVars
               ELSE \/ UNCHANGED speechVars
                    \/ Chatty /\ Noticed
                    \/ \E t \in Turns : Recognised(t)
    /\ UNCHANGED control

LoopEnds ==
    /\ loop = "top"
    /\ ~running
    /\ loop' = "off"
    /\ UNCHANGED <<speechVars, input, control>>

RunStep == HandleControl \/ HandleFrame \/ LoopEnds

(* stop: the speech tasks and the loop are cancelled.                      *)
StopWorker ==
    /\ running' = FALSE
    /\ CancelTtsTasks(speech)
    /\ loop' = "off"
    /\ UNCHANGED <<epoch, output, history, threads, token, input, control>>

WorkerInit ==
    /\ SpeechInit
    /\ input = NewBounded
    /\ control = NewBounded
    /\ loop = "top"
=============================================================================
