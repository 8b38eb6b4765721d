----------------------------- MODULE SpeechTasks -----------------------------
(***************************************************************************)
(* From a recognised utterance to audio events: the language model turn    *)
(* (runtime/llm_turn.py), one speech task for every sentence of the reply, *)
(* the text-to-speech adapter (tts.py) and the voice worker                *)
(* (voice/worker.py), whose engine runs in threads, one synthesis at a     *)
(* time under a FIFO lock.  Text and audio are left out: a sentence is the *)
(* turn it answers and its place in the reply, a chunk its number.         *)
(***************************************************************************)
EXTENDS BoundedQueue, Integers, FiniteSets

CONSTANTS
    Turns,             \* utterances that may be recognised
    Pieces,            \* bound: the sentences of the reply of each turn
    Chunks,            \* bound: the audio chunks of a sentence of each turn
    OutputCapacity,    \* capacity of output_queue
    HistoryLimit,      \* history_limit, in messages
    HasLlm,            \* text_source: a language model, or an echo
    HasAvatar,         \* avatar_adapter
    MaySwallow,        \* wait_for before Python 3.12: it drops a cancellation
                       \* that meets a finished operation
    Failing,           \* which of "model" and "engine" may raise
    MaxEpoch,          \* bound: the highest epoch
    None

ASSUME SpeechAssumption ==
    /\ Turns \subseteq Nat \ {0}
    /\ Pieces \in [Turns -> Nat \ {0}]
    /\ Chunks \in [Turns -> Nat \ {0}]
    /\ OutputCapacity \in Nat \ {0}
    /\ HistoryLimit \in Nat /\ HistoryLimit >= 2 /\ MaxEpoch \in Nat
    /\ None \notin UNION {{t} \X (1..Pieces[t]) : t \in Turns}
    /\ {HasLlm, HasAvatar, MaySwallow} \subseteq BOOLEAN
    /\ Failing \subseteq {"model", "engine"}

VARIABLES
    epoch,             \* worker.epoch, and _current_epoch of the adapter
    running,           \* worker._running
    output,            \* worker.output_queue
    turns,             \* the tasks in _run_llm_turn
    history,           \* _history
    speech,            \* the tasks in _run_tts_stream, and their generators
    ready,             \* the speech tasks the loop has still to start, in order
    lock,              \* _infer_lock of the voice worker
    threads,           \* syntheses whose next chunk a thread is computing
    token              \* the sentence that owns the adapter's _cancel_token

speechVars == <<epoch, running, output, turns, history, speech, ready, lock, threads, token>>

Sentences == UNION {{t} \X (1..Pieces[t]) : t \in Turns}

(***************************************************************************)
(* A speech task.  starting: created.  queued: waits for the lock.         *)
(* thread: awaits a chunk.  pushing: awaits the avatar.  doomed: the same, *)
(* with a cancellation on its way.  closing: the task is over, and its     *)
(* generators, still suspended under the lock, wait for the loop to close  *)
(* them.  `tracked': in _tts_tasks.  `cut': its cancel token is cancelled. *)
(***************************************************************************)
Places == {"none", "starting", "queued", "thread", "pushing", "doomed", "closing", "over"}

NoSpeech == [at |-> "none", epoch |-> 0, chunk |-> 0, tracked |-> FALSE, cut |-> FALSE]

NoTurn == [at |-> "none", epoch |-> 0, next |-> 1]

Unlocked == [lock EXCEPT !.holder = None]

\* Mutant: the epoch of a task is not looked at.
Superseded_Never(task) == FALSE

(* The epoch has advanced since the task was created.                      *)
Superseded(task) == task.epoch < epoch

-----------------------------------------------------------------------------
(* Events.                                                                 *)

(* Events of detectors, duck, acknowledgements and errors are one to what  *)
(* is said here.                                                           *)
Notice == [stamp |-> 0, kind |-> "notice", epoch |-> 0, of |-> None, chunk |-> 0]

Audio(s, n) == [stamp |-> 0, kind |-> "pcm", epoch |-> speech[s].epoch, of |-> s, chunk |-> n]

(* _make_envelope and enqueue; a full queue loses the event.               *)
Emitted(x) == Enqueued(output, x, epoch, OutputCapacity)

-----------------------------------------------------------------------------
(* _dispatch_tts and _cancel_tts_tasks.                                    *)

(* The loop starts the tasks in the order in which they were created.      *)
DispatchTts(s, e) ==
    /\ speech' = [speech EXCEPT ![s] = [NoSpeech EXCEPT !.at = "starting", !.epoch = e,
                                                        !.tracked = TRUE]]
    /\ ready' = Append(ready, s)

(* What a cancellation does to a task; a thread it waited for runs on.     *)
CancelledTask(k) ==
    [k EXCEPT !.tracked = FALSE,
              !.at = CASE @ = "pushing"                         -> "doomed"
                       [] @ \in {"starting", "queued", "thread"} -> "over"
                       [] OTHER                                 -> @]

(* tts.cancel_epoch reaches the stream that started last.                  *)
CutToken(s) == [speech[s] EXCEPT !.cut = @ \/ token = s]

\* Mutant: the cancelled task keeps the lock it held.
LockAfterCancel_Keeps == [lock EXCEPT !.queue = <<>>]

(* A cancelled synthesis leaves the lock, or its place in the queue; every *)
(* task that waits, to start or for the lock, is in _tts_tasks.            *)
LockAfterCancel ==
    [holder |-> IF lock.holder # None /\ speech[lock.holder].tracked
                                      /\ speech[lock.holder].at = "thread"
                THEN None ELSE lock.holder,
     queue  |-> <<>>]

CancelTurns == turns' = [t \in Turns |-> IF turns[t].at = "streaming"
                                         THEN [turns[t] EXCEPT !.at = "over"]
                                         ELSE turns[t]]

CancelTtsTasks(known) ==
    /\ CancelTurns
    /\ lock' = LockAfterCancel
    /\ ready' = <<>>
    /\ speech' = [s \in Sentences |-> IF known[s].tracked THEN CancelledTask(known[s])
                                                          ELSE known[s]]

-----------------------------------------------------------------------------
(* The turn: _run_llm_turn.  Its cancellation ends it at once.             *)

StartTurn(t) == turns' = [turns EXCEPT ![t] = [at |-> "streaming", epoch |-> epoch, next |-> 1]]

TurnOver(t) == turns' = [turns EXCEPT ![t].at = "over"]

(* A sentence of the reply is complete: its speech task is created.        *)
PieceArrives(t) ==
    /\ turns[t].at = "streaming"
    /\ turns[t].next <= Pieces[t]
    /\ IF Superseded(turns[t]) \/ ~running
       THEN TurnOver(t) /\ UNCHANGED <<speech, ready>>
       ELSE /\ DispatchTts(<<t, turns[t].next>>, turns[t].epoch)
            /\ turns' = [turns EXCEPT ![t].next = @ + 1]
    /\ UNCHANGED <<epoch, running, output, history, lock, threads, token>>

Message(role, t) == [role |-> role, turn |-> t]

\* Mutant: one message more than the excess is forgotten.
Trimmed_OneMore(h) ==
    IF Len(h) > HistoryLimit THEN SubSeq(h, Len(h) - HistoryLimit + 2, Len(h)) ELSE h

(* The oldest messages beyond the limit are forgotten.                     *)
Trimmed(h) ==
    IF Len(h) > HistoryLimit THEN SubSeq(h, Len(h) - HistoryLimit + 1, Len(h)) ELSE h

(* The model has said all; what was dispatched is remembered as said.      *)
StreamEnds(t) ==
    /\ turns[t].at = "streaming"
    /\ TurnOver(t)
    /\ history' = IF turns[t].next = 1
                  THEN history
                  ELSE Trimmed(history \o <<Message("user", t), Message("assistant", t)>>)
    /\ UNCHANGED <<epoch, running, output, speech, ready, lock, threads, token>>

StreamFails(t) ==
    /\ "model" \in Failing
    /\ turns[t].at = "streaming"
    /\ TurnOver(t)
    /\ output' = Emitted(Notice)
    /\ UNCHANGED <<epoch, running, history, speech, ready, lock, threads, token>>

TurnStep(t) == PieceArrives(t) \/ StreamEnds(t) \/ StreamFails(t)

-----------------------------------------------------------------------------
(* The speech task s: _run_tts_stream and the generators it drives.        *)

Moved(s, place) == [speech EXCEPT ![s].at = place]

(* The generators end, and with them the lock.                             *)
EndsUnlocked(s) ==
    /\ speech' = [speech EXCEPT ![s].at = "over", ![s].tracked = FALSE]
    /\ lock' = Unlocked

(* The loop of the voice worker: the token, then a thread.                 *)
NextChunk(s, k) ==
    IF k.cut
    THEN EndsUnlocked(s) /\ UNCHANGED threads
    ELSE /\ speech' = [speech EXCEPT ![s] = [k EXCEPT !.at = "thread"]]
         /\ lock' = [lock EXCEPT !.holder = s]
         /\ threads' = threads \cup {s}

\* Mutant: a newcomer takes the free lock past those that wait.
LockFree_Barging == lock.holder = None

(* asyncio.Lock: nobody holds it and nobody waits for it.                  *)
LockFree == lock.holder = None /\ lock.queue = <<>>

(* The first step: a token of its own, and the lock.                       *)
SpeechStarts(s) ==
    /\ ready # <<>> /\ Head(ready) = s
    /\ ready' = Tail(ready)
    /\ IF Superseded(speech[s])
       THEN /\ speech' = [speech EXCEPT ![s].at = "over", ![s].tracked = FALSE]
            /\ UNCHANGED <<lock, threads, token>>
       ELSE /\ token' = s
            /\ IF LockFree
               THEN NextChunk(s, speech[s])
               ELSE /\ speech' = Moved(s, "queued")
                    /\ lock' = [lock EXCEPT !.queue = Append(@, s)]
                    /\ UNCHANGED threads
    /\ UNCHANGED <<epoch, running, output, turns, history>>

LockGranted(s) ==
    /\ lock.holder = None
    /\ lock.queue # <<>> /\ Head(lock.queue) = s
    /\ IF speech[s].cut
       THEN /\ speech' = [speech EXCEPT ![s].at = "over", ![s].tracked = FALSE]
            /\ lock' = [lock EXCEPT !.queue = Tail(@)]
            /\ UNCHANGED threads
       ELSE /\ speech' = Moved(s, "thread")
            /\ lock' = [holder |-> s, queue |-> Tail(lock.queue)]
            /\ threads' = threads \cup {s}
    /\ UNCHANGED <<epoch, running, output, turns, history, ready, token>>

(* The thread returns to the task that waits for it: the engine is done,   *)
(* it has failed, or there is a chunk.  A chunk is dropped when the token  *)
(* is cancelled; of an old epoch, it makes the adapter leave the           *)
(* generators suspended; otherwise it is emitted.                          *)
ChunkArrives(s) ==
    /\ speech[s].at = "thread"
    /\ \/ /\ threads' = threads \ {s}
          /\ EndsUnlocked(s)
          /\ UNCHANGED output
       \/ /\ "engine" \in Failing
          /\ threads' = threads \ {s}
          /\ EndsUnlocked(s)
          /\ output' = Emitted(Notice)
       \/ /\ speech[s].chunk < Chunks[s[1]]
          /\ ~speech[s].cut
          /\ LET k == [speech[s] EXCEPT !.chunk = @ + 1]
             IN  IF Superseded(k)
                 THEN /\ speech' = Moved(s, "closing")
                      /\ threads' = threads \ {s}
                      /\ UNCHANGED <<lock, output>>
                 ELSE /\ output' = Emitted(Audio(s, k.chunk))
                      /\ IF HasAvatar
                         THEN /\ speech' = [speech EXCEPT ![s] = [k EXCEPT !.at = "pushing"]]
                              /\ threads' = threads \ {s}
                              /\ UNCHANGED lock
                         ELSE NextChunk(s, k)
    /\ UNCHANGED <<epoch, running, turns, history, ready, token>>

(* push_pcm of the avatar returns or raises; a task doomed meanwhile goes  *)
(* on if wait_for swallowed its cancellation.                              *)
PushReturns(s) ==
    /\ speech[s].at = "pushing" \/ (MaySwallow /\ speech[s].at = "doomed")
    /\ NextChunk(s, speech[s])
    /\ UNCHANGED <<epoch, running, output, turns, history, ready, token>>

DoomedEnds(s) ==
    /\ speech[s].at = "doomed"
    /\ speech' = Moved(s, "closing")
    /\ UNCHANGED <<epoch, running, output, turns, history, ready, lock, threads, token>>

\* Mutant: the generators of a cancelled task are never closed.
GeneratorsClose_Never(s) ==
    /\ FALSE
    /\ EndsUnlocked(s)
    /\ UNCHANGED <<epoch, running, output, turns, history, ready, threads, token>>

(* The loop finalizes the suspended generators.                            *)
GeneratorsClose(s) ==
    /\ speech[s].at = "closing"
    /\ EndsUnlocked(s)
    /\ UNCHANGED <<epoch, running, output, turns, history, ready, threads, token>>

(* A thread whose task was cancelled returns to nobody.                    *)
ThreadReturns(s) ==
    /\ s \in threads
    /\ speech[s].at # "thread"
    /\ threads' = threads \ {s}
    /\ UNCHANGED <<epoch, running, output, turns, history, speech, ready, lock, token>>

TaskStep(s) ==
    \/ SpeechStarts(s)
    \/ LockGranted(s)
    \/ ChunkArrives(s)
    \/ PushReturns(s)
    \/ DoomedEnds(s)
    \/ GeneratorsClose(s)

SpeechStep(s) == TaskStep(s) \/ ThreadReturns(s)

SpeechInit ==
    /\ epoch = 0
    /\ running = TRUE
    /\ output = NewBounded
    /\ turns = [t \in Turns |-> NoTurn]
    /\ history = <<>>
    /\ speech = [s \in Sentences |-> NoSpeech]
    /\ ready = <<>>
    /\ lock = [holder |-> None, queue |-> <<>>]
    /\ threads = {}
    /\ token = None
=============================================================================
