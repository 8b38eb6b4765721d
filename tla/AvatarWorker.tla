------------------------------ MODULE AvatarWorker ------------------------------
(***************************************************************************)
(* One avatar worker (worker.py, musetalk_worker.py) under the sessions    *)
(* that use it: one after the other, or at once where a lease has expired. *)
(* A call runs a thread inside _infer_lock and then yields its frames to   *)
(* the session, which publishes them.  A session that is stopped abandons  *)
(* a thread, which runs on, or a generator, which is finalized later.  Of  *)
(* a picture only the reference frames are kept that its face and its body *)
(* were taken from; the adapter pads each chunk to one batch.              *)
(***************************************************************************)
EXTENDS Integers, Sequences, SequencesExt

CONSTANTS
    Sessions,          \* those that use the worker
    Length,            \* _avatar_length: the reference frames
    Batch              \* batch_size

ASSUME WorkerAssumption == Length \in Nat \ {0} /\ Batch \in Nat \ {0}

VARIABLES
    frameIndex,        \* _frame_index, of which 2 * Length values differ
    holder,            \* the set of sessions that are inside _infer_lock
    waiters,           \* the sessions that wait for it, in order
    call,              \* where each session is
    thread,            \* the thread of each session
    frames,            \* what its thread has computed and is not yet published
    cut,               \* whether the token of its chunk is cancelled
    shown,             \* history: the frame of its last picture, or NoPicture
    skipped,           \* history: how many pictures were cut away since then
    moved              \* history: the sessions for which another one has moved
                       \* the index since they last read it

avatarVars == <<frameIndex, holder, waiters, call, thread, frames, cut, shown, skipped, moved>>

NoPicture == -1
NoThread == [at |-> "none", speaks |-> FALSE, face |-> -1, body |-> -1, shaken |-> FALSE]

(* _mirror_index: forth and back over the reference frames.                *)
MirrorIndex(size, index) ==
    IF (index \div size) % 2 = 0 THEN index % size ELSE size - (index % size) - 1

Pictures(t) ==
    [i \in 1..Batch |-> [face |-> MirrorIndex(Length, t.face + i - 1),
                         body |-> MirrorIndex(Length, t.body + i - 1),
                         shaken |-> t.shaken]]

-----------------------------------------------------------------------------
(* synthesize_video_stream, with the loop of the adapter around it.        *)

(* The next batch of a chunk whose token may be cancelled, or of a new one.*)
Calls(s) ==
    /\ call[s] = "idle"
    /\ call' = [call EXCEPT ![s] = "waiting"]
    /\ waiters' = Append(waiters, s)
    /\ \E same \in BOOLEAN : cut' = [cut EXCEPT ![s] = @ /\ same]
    /\ UNCHANGED <<frameIndex, holder, thread, frames, shown, skipped, moved>>

(* The lock is there; a token that is cancelled ends the call.             *)
Granted(s) ==
    /\ holder = {} /\ waiters # <<>> /\ Head(waiters) = s
    /\ waiters' = Tail(waiters)
    /\ IF cut[s]
       THEN call' = [call EXCEPT ![s] = "idle"] /\ UNCHANGED <<holder, thread>>
       ELSE /\ holder' = {s}
            /\ call' = [call EXCEPT ![s] = "inside"]
            /\ \E speaks \in BOOLEAN :
                  thread' = [thread EXCEPT ![s] =
                                [NoThread EXCEPT !.at = "gathering", !.speaks = speaks]]
    /\ UNCHANGED <<frameIndex, frames, cut, shown, skipped, moved>>

(* The thread has returned, or raised.                                     *)
Resumes(s) ==
    /\ call[s] = "inside" /\ thread[s].at \in {"done", "raised"}
    /\ thread' = [thread EXCEPT ![s] = NoThread]
    /\ IF thread[s].at = "done"
       THEN /\ call' = [call EXCEPT ![s] = "yielding"]
            /\ frames' = [frames EXCEPT ![s] = Pictures(thread[s])]
            /\ UNCHANGED holder
       ELSE call' = [call EXCEPT ![s] = "idle"] /\ holder' = {} /\ UNCHANGED frames
    /\ UNCHANGED <<frameIndex, waiters, cut, shown, skipped, moved>>

Publishes(s) ==
    /\ call[s] = "yielding" /\ ~cut[s] /\ frames[s] # <<>>
    /\ shown' = [shown EXCEPT ![s] = Head(frames[s]).body]
    /\ frames' = [frames EXCEPT ![s] = Tail(@)]
    /\ skipped' = [skipped EXCEPT ![s] = 0]
    /\ UNCHANGED <<frameIndex, holder, waiters, call, thread, cut, moved>>

(* The frames of a batch that are left are cut away.  Two frames of the    *)
(* reference are at most Length - 1 apart: Length - 2 stands for all that  *)
(* is more, and for a batch that was shaken.                               *)
CutAway(n, left) ==
    IF left = <<>> THEN n
    ELSE IF Head(left).shaken \/ n + Len(left) > Length - 2 THEN Length - 2
    ELSE n + Len(left)

CallEnds(s) ==
    /\ call[s] = "yielding" /\ (cut[s] \/ frames[s] = <<>>)
    /\ call' = [call EXCEPT ![s] = "idle"]
    /\ frames' = [frames EXCEPT ![s] = <<>>]
    /\ holder' = {}
    /\ skipped' = [skipped EXCEPT ![s] = CutAway(@, frames[s])]
    /\ UNCHANGED <<frameIndex, waiters, thread, cut, shown, moved>>

-----------------------------------------------------------------------------
(* _infer_batch in its thread.                                             *)

(* The latents of a batch that speaks are gathered from the index.         *)
Gathers(s) ==
    /\ thread[s].at = "gathering" /\ thread[s].speaks
    /\ thread' = [thread EXCEPT ![s].at = "pasting", ![s].face = frameIndex]
    /\ UNCHANGED <<frameIndex, holder, waiters, call, frames, cut, shown, skipped, moved>>

(* The frames are taken from the index as it is now: a silent batch has no *)
(* face of its own.                                                        *)
Pastes(s) ==
    /\ thread[s].at = IF thread[s].speaks THEN "pasting" ELSE "gathering"
    /\ thread' = [thread EXCEPT ![s].at = "advancing", ![s].body = frameIndex,
                                ![s].face = IF thread[s].speaks THEN @ ELSE frameIndex,
                                ![s].shaken = s \in moved]
    /\ moved' = moved \ {s}
    /\ UNCHANGED <<frameIndex, holder, waiters, call, frames, cut, shown, skipped>>

\* Mutant: a silent batch is counted in its branch and after it.
Advanced_TwiceInSilence(speaks) == frameIndex + IF speaks THEN Batch ELSE 2 * Batch

Advanced(speaks) == frameIndex + Batch

Advances(s) ==
    /\ thread[s].at = "advancing"
    /\ thread' = [thread EXCEPT ![s].at = "done"]
    /\ frameIndex' = Advanced(thread[s].speaks) % (2 * Length)
    /\ moved' = moved \union {r \in Sessions \ {s} : call[r] # "stopped"}
    /\ UNCHANGED <<holder, waiters, call, frames, cut, shown, skipped>>

(* The model fails.                                                        *)
Raises(s) ==
    /\ thread[s].at = "pasting"
    /\ thread' = [thread EXCEPT ![s].at = "raised"]
    /\ UNCHANGED <<frameIndex, holder, waiters, call, frames, cut, shown, skipped, moved>>

ThreadStep(s) == Gathers(s) \/ Pastes(s) \/ Advances(s) \/ Raises(s)

-----------------------------------------------------------------------------
(* cancel_epoch: what was shown stays what was shown.                      *)
Interrupts(s) ==
    /\ call[s] # "stopped"
    /\ cut' = [cut EXCEPT ![s] = TRUE]
    /\ UNCHANGED <<frameIndex, holder, waiters, call, thread, frames, shown, skipped, moved>>

(* stop: the token and the consumer are cancelled, where it is.  While its *)
(* thread runs the lock is free at once; while it publishes its generator  *)
(* keeps the lock.                                                         *)
Stops(s) ==
    /\ call[s] # "stopped"
    /\ call' = [call EXCEPT ![s] = "stopped"] /\ cut' = [cut EXCEPT ![s] = TRUE]
    /\ waiters' = RemoveFirst(waiters, s)
    /\ holder' = IF call[s] = "inside" THEN {} ELSE holder
    /\ frames' = [frames EXCEPT ![s] = <<>>]
    /\ shown' = [shown EXCEPT ![s] = NoPicture] /\ skipped' = [skipped EXCEPT ![s] = 0]
    /\ moved' = moved \ {s}
    /\ UNCHANGED <<frameIndex, thread>>

\* Mutant: the generator is kept by somebody.
Finalized_Never(s) == FALSE /\ UNCHANGED avatarVars

(* The event loop closes a generator that nobody uses.                     *)
Finalized(s) ==
    /\ call[s] = "stopped" /\ s \in holder
    /\ holder' = {}
    /\ UNCHANGED <<frameIndex, waiters, call, thread, frames, cut, shown, skipped, moved>>

-----------------------------------------------------------------------------
AvatarInit ==
    /\ frameIndex = 0 /\ holder = {} /\ waiters = <<>>
    /\ call = [s \in Sessions |-> "idle"]
    /\ thread = [s \in Sessions |-> NoThread]
    /\ frames = [s \in Sessions |-> <<>>]
    /\ cut = [s \in Sessions |-> FALSE]
    /\ shown = [s \in Sessions |-> NoPicture]
    /\ skipped = [s \in Sessions |-> 0]
    /\ moved = {}

CallStep(s) == Granted(s) \/ Resumes(s) \/ Publishes(s) \/ CallEnds(s) \/ Finalized(s)

AvatarNext ==
    \E s \in Sessions : Calls(s) \/ CallStep(s) \/ ThreadStep(s) \/ Interrupts(s) \/ Stops(s)

(* Threads return, tasks go on, generators are finalized.                  *)
AvatarFairness ==
    \A s \in Sessions : WF_avatarVars(CallStep(s)) /\ WF_avatarVars(ThreadStep(s))

AvatarSpec == AvatarInit /\ [][AvatarNext]_avatarVars /\ AvatarFairness

-----------------------------------------------------------------------------
(* Properties.                                                             *)

(* The mouth is drawn on the frame it was computed for, and a picture is   *)
(* as far from the one shown before as the pictures of the session since   *)
(* then allow: next to it, or one frame further for every picture that an  *)
(* interruption has cut away, for which the index has gone on all the same *)
(* (musetalk_worker.py:41-52, 363-402), over batches that speak, are silent*)
(* or fail, and though the thread of a session that is gone runs on.  It   *)
(* says nothing of a batch that is shaken, during which or before which the*)
(* thread of another session has moved the index, nor of transition frames,*)
(* which are drawn on the neutral frame (:453) and are not among these.    *)
SmoothMotion ==
    [][\A s \in Sessions :
          LET picture == Head(frames[s])
              reach == 1 + skipped[s]
          IN  Publishes(s) /\ ~picture.shaken
              => /\ picture.face = picture.body
                 /\ shown[s] # NoPicture => picture.body - shown[s] \in -reach..reach]_avatarVars

(* A session that waits for the engine gets it, whoever was cancelled or   *)
(* stopped inside it, in whatever place (worker.py:163-209).               *)
EngineComesFree ==
    \A s \in Sessions : call[s] = "waiting" ~> call[s] # "waiting"
=============================================================================
