------------------------- MODULE DuplexSession_proofs -------------------------
(***************************************************************************)
(* Theorems about DuplexSession, for any numbers of turns, sentences and   *)
(* chunks, queues of any capacity and any number of sockets.               *)
(***************************************************************************)
EXTENDS DuplexSession, FiniteSetTheorems, TLAPS

-----------------------------------------------------------------------------
(* What is needed of the types.  That epochs stay below MaxEpoch, a bound  *)
(* of the runs, is not.                                                    *)

Task == [at : Places, epoch : Nat, chunk : Nat, tracked : BOOLEAN, cut : BOOLEAN]

TurnTask == [at : {"none", "streaming", "over"}, epoch : Nat, next : Nat \ {0}]

SpeechTyped ==
    /\ epoch \in Nat
    /\ turns \in [Turns -> TurnTask]
    /\ speech \in [Sentences -> Task]
    /\ ready \in Seq(Sentences)
    /\ lock \in [holder : Sentences \cup {None}, queue : Seq(Sentences)]

LEMMA NoneIsNoSentence == None \notin Sentences
BY SpeechAssumption DEF Sentences

LEMMA SentenceOfTurn ==
    ASSUME NEW t \in Turns, NEW n \in 1..Pieces[t]
    PROVE  <<t, n>> \in Sentences
BY DEF Sentences

-----------------------------------------------------------------------------
(* The lock of the engine.                                                 *)

(* The tasks the loop has still to start have not moved, and each is there *)
(* once.                                                                   *)
ReadyStarting ==
    /\ \A i \in 1..Len(ready) : speech[ready[i]].at = "starting"
    /\ \A i, j \in 1..Len(ready) : ready[i] = ready[j] => i = j

(* So it is with those in the queue of the lock.                           *)
QueueWaiting ==
    /\ \A i \in 1..Len(lock.queue) : speech[lock.queue[i]].at = "queued"
    /\ \A i, j \in 1..Len(lock.queue) : lock.queue[i] = lock.queue[j] => i = j

(* A sentence that is yet to come has no task.                             *)
YetToCome ==
    \A t \in Turns, n \in Nat :
        <<t, n>> \in Sentences /\ speech[<<t, n>>].at # "none"
            => /\ turns[t].at # "none"
               /\ turns[t].at = "streaming" => n < turns[t].next

LockInv == SpeechTyped /\ LockMatchesSynthesis /\ ReadyStarting /\ QueueWaiting /\ YetToCome

LEMMA LockInvInit == DuplexInit => LockInv
BY NoneIsNoSentence, SpeechAssumption
DEF DuplexInit, WorkerInit, SpeechInit, LockInv, SpeechTyped, LockMatchesSynthesis,
    ReadyStarting, QueueWaiting, YetToCome, NoTurn, NoSpeech, Places, Task, TurnTask

lockVars == <<epoch, turns, speech, ready, lock>>

LEMMA LockInvStutter == LockInv /\ UNCHANGED lockVars => LockInv'
BY DEF LockInv, SpeechTyped, LockMatchesSynthesis, ReadyStarting, QueueWaiting, YetToCome,
       lockVars

(* One more speech task, of a sentence that has none.                      *)
LEMMA DispatchKeeps ==
    ASSUME LockInv, NEW s \in Sentences, NEW e \in Nat, speech[s].at = "none",
           DispatchTts(s, e), UNCHANGED <<epoch, lock>>,
           turns' \in [Turns -> TurnTask],
           YetToCome'
    PROVE  LockInv'
<1>1. speech' \in [Sentences -> Task] /\ speech'[s].at = "starting"
      /\ \A u \in Sentences \ {s} : speech'[u] = speech[u]
  BY DEF LockInv, SpeechTyped, DispatchTts, NoSpeech, Task, Places
<1>2. /\ ready' \in Seq(Sentences) /\ Len(ready') = Len(ready) + 1
      /\ ready'[Len(ready) + 1] = s
      /\ \A i \in 1..Len(ready) : ready'[i] = ready[i] /\ ready[i] \in Sentences
  BY DEF LockInv, SpeechTyped, DispatchTts
<1>3. SpeechTyped'
  BY <1>1, <1>2 DEF LockInv, SpeechTyped
<1>4. LockMatchesSynthesis'
  BY <1>1 DEF LockInv, LockMatchesSynthesis
<1>5. ReadyStarting'
  <2>1. \A i \in 1..Len(ready) : ready[i] # s
    BY DEF LockInv, ReadyStarting
  <2>2. \A i \in 1..Len(ready) : ready'[i] = ready[i] /\ speech'[ready[i]].at = "starting"
    BY <1>1, <1>2, <2>1 DEF LockInv, ReadyStarting
  <2>3. Len(ready) \in Nat
    BY DEF LockInv, SpeechTyped
  <2>4. \A i \in 1..Len(ready') : i = Len(ready) + 1 \/ i \in 1..Len(ready)
    BY <1>2, <2>3
  <2>5. \A i \in 1..Len(ready') : speech'[ready'[i]].at = "starting"
    BY <1>1, <1>2, <2>2, <2>4
  <2>6. \A i, j \in 1..Len(ready') : ready'[i] = ready'[j] => i = j
    BY <1>2, <2>1, <2>2, <2>4 DEF LockInv, ReadyStarting
  <2> QED
    BY <2>5, <2>6 DEF ReadyStarting
<1>6. QueueWaiting'
  <2>1. \A i \in 1..Len(lock.queue) : lock.queue[i] \in Sentences \ {s}
    BY DEF LockInv, QueueWaiting, SpeechTyped
  <2> QED
    BY <1>1, <2>1 DEF LockInv, QueueWaiting
<1> QED
  BY <1>3, <1>4, <1>5, <1>6 DEF LockInv

InLock == {"thread", "pushing", "doomed", "closing"}

(* The task that holds the lock moves on, or ends and returns it.          *)
LEMMA HolderMoves ==
    ASSUME LockInv, NEW s \in Sentences, NEW k \in Task,
           speech[s].at \in InLock, k.at \in InLock \cup {"over"},
           speech' = [speech EXCEPT ![s] = k],
           lock' = [lock EXCEPT !.holder = IF k.at = "over" THEN None ELSE s],
           UNCHANGED <<epoch, turns, ready>>
    PROVE  LockInv'
<1>1. speech' \in [Sentences -> Task] /\ speech'[s] = k
      /\ \A u \in Sentences \ {s} : speech'[u] = speech[u]
  BY DEF LockInv, SpeechTyped
<1>2. /\ lock' \in [holder : Sentences \cup {None}, queue : Seq(Sentences)]
      /\ lock'.holder = (IF k.at = "over" THEN None ELSE s)
      /\ lock'.queue = lock.queue
  BY DEF LockInv, SpeechTyped
<1>3. lock.holder = s
  BY DEF LockInv, LockMatchesSynthesis, InLock
<1>4. SpeechTyped'
  BY <1>1, <1>2 DEF LockInv, SpeechTyped
<1>5. LockMatchesSynthesis'
  BY <1>1, <1>2, <1>3, NoneIsNoSentence DEF LockInv, LockMatchesSynthesis, InLock
<1>6. ReadyStarting'
  <2>1. \A i \in 1..Len(ready) : ready[i] \in Sentences \ {s}
    BY DEF LockInv, SpeechTyped, ReadyStarting, InLock
  <2> QED
    BY <1>1, <2>1 DEF LockInv, ReadyStarting
<1>7. QueueWaiting'
  <2>1. \A i \in 1..Len(lock.queue) : lock.queue[i] \in Sentences \ {s}
    BY DEF LockInv, SpeechTyped, QueueWaiting, InLock
  <2> QED
    BY <1>1, <1>2, <2>1 DEF LockInv, QueueWaiting
<1>8. YetToCome'
  BY <1>1 DEF LockInv, YetToCome, InLock
<1> QED
  BY <1>4, <1>5, <1>6, <1>7, <1>8 DEF LockInv

(* The first of the ready tasks goes to a place k, with the lock or its    *)
(* queue, or nowhere.                                                      *)
LEMMA FirstReadyMoves ==
    ASSUME LockInv, NEW s \in Sentences, NEW k \in Task,
           ready # <<>>, Head(ready) = s, ready' = Tail(ready),
           speech' = [speech EXCEPT ![s] = k],
           UNCHANGED <<epoch, turns>>,
           \/ k.at = "over" /\ UNCHANGED lock
           \/ k.at = "queued" /\ lock' = [lock EXCEPT !.queue = Append(@, s)]
           \/ k.at = "thread" /\ lock.holder = None /\ lock' = [lock EXCEPT !.holder = s]
    PROVE  LockInv'
<1>1. speech' \in [Sentences -> Task] /\ speech'[s] = k
      /\ \A u \in Sentences \ {s} : speech'[u] = speech[u]
  BY DEF LockInv, SpeechTyped
<1>2. /\ ready' \in Seq(Sentences) /\ Len(ready') = Len(ready) - 1
      /\ \A i \in 1..Len(ready') : ready'[i] = ready[i + 1]
      /\ ready[1] = s /\ Len(ready) \in Nat \ {0}
  BY DEF LockInv, SpeechTyped
<1>3. speech[s].at = "starting"
  BY <1>2 DEF LockInv, ReadyStarting
<1>4. lock' \in [holder : Sentences \cup {None}, queue : Seq(Sentences)]
  <2> DEFINE Locks == [holder : Sentences \cup {None}, queue : Seq(Sentences)]
  <2>1. lock \in Locks /\ Append(lock.queue, s) \in Seq(Sentences)
    BY DEF LockInv, SpeechTyped
  <2>2. \A q \in Seq(Sentences) : [lock EXCEPT !.queue = q] \in Locks
    BY <2>1
  <2>3. [lock EXCEPT !.holder = s] \in Locks
    BY <2>1
  <2> QED
    BY <2>1, <2>2, <2>3
<1>5. SpeechTyped'
  BY <1>1, <1>2, <1>4 DEF LockInv, SpeechTyped
<1>6. LockMatchesSynthesis'
  BY <1>1, <1>3, NoneIsNoSentence DEF LockInv, LockMatchesSynthesis, SpeechTyped
<1>7. ReadyStarting'
  <2>1. \A i \in 1..Len(ready') :
           i + 1 \in 1..Len(ready) /\ i + 1 # 1 /\ ready[i + 1] \in Sentences \ {s}
    <3>1. \A i \in 1..Len(ready) : ready[i] \in Sentences /\ (ready[i] = s => i = 1)
      BY <1>2 DEF LockInv, ReadyStarting, SpeechTyped
    <3> QED
      BY <1>2, <3>1
  <2>2. \A i \in 1..Len(ready') : speech'[ready'[i]].at = "starting"
    BY <1>1, <1>2, <2>1 DEF LockInv, ReadyStarting
  <2>3. \A i, j \in 1..Len(ready') : ready'[i] = ready'[j] => i = j
    BY <1>2, <2>1 DEF LockInv, ReadyStarting
  <2> QED
    BY <2>2, <2>3 DEF ReadyStarting
<1>8. QueueWaiting'
  <2>1. \A i \in 1..Len(lock.queue) :
           lock.queue[i] \in Sentences \ {s} /\ speech'[lock.queue[i]].at = "queued"
    BY <1>1, <1>3 DEF LockInv, SpeechTyped, QueueWaiting
  <2>2. CASE lock'.queue = lock.queue
    BY <2>1, <2>2 DEF LockInv, QueueWaiting
  <2>3. CASE k.at = "queued" /\ lock'.queue = Append(lock.queue, s)
    <3>1. /\ Len(lock'.queue) = Len(lock.queue) + 1 /\ Len(lock.queue) \in Nat
          /\ lock'.queue[Len(lock.queue) + 1] = s
          /\ \A i \in 1..Len(lock.queue) : lock'.queue[i] = lock.queue[i]
      BY <2>3 DEF LockInv, SpeechTyped
    <3>2. \A i \in 1..Len(lock'.queue) : i = Len(lock.queue) + 1 \/ i \in 1..Len(lock.queue)
      BY <3>1
    <3>3. \A i \in 1..Len(lock'.queue) : speech'[lock'.queue[i]].at = "queued"
      BY <1>1, <2>1, <2>3, <3>1, <3>2
    <3>4. \A i, j \in 1..Len(lock'.queue) : lock'.queue[i] = lock'.queue[j] => i = j
      BY <2>1, <3>1, <3>2 DEF LockInv, QueueWaiting
    <3> QED
      BY <3>3, <3>4 DEF QueueWaiting
  <2> QED
    BY <2>2, <2>3 DEF LockInv, SpeechTyped
<1>9. YetToCome'
  BY <1>1, <1>3 DEF LockInv, YetToCome
<1> QED
  BY <1>5, <1>6, <1>7, <1>8, <1>9 DEF LockInv

(* The first of those that wait for the lock gets it, or ends.             *)
LEMMA FirstWaiterMoves ==
    ASSUME LockInv, NEW s \in Sentences, NEW k \in Task, NEW h \in {None, s},
           lock.holder = None, lock.queue # <<>>, Head(lock.queue) = s,
           k.at = (IF h = s THEN "thread" ELSE "over"),
           speech' = [speech EXCEPT ![s] = k],
           lock' = [holder |-> h, queue |-> Tail(lock.queue)],
           UNCHANGED <<epoch, turns, ready>>
    PROVE  LockInv'
<1>1. speech' \in [Sentences -> Task] /\ speech'[s] = k
      /\ \A u \in Sentences \ {s} : speech'[u] = speech[u]
  BY DEF LockInv, SpeechTyped
<1>2. /\ lock'.holder = h /\ lock'.queue \in Seq(Sentences)
      /\ Len(lock'.queue) = Len(lock.queue) - 1
      /\ \A i \in 1..Len(lock'.queue) : lock'.queue[i] = lock.queue[i + 1]
      /\ lock.queue[1] = s /\ Len(lock.queue) \in Nat \ {0}
  BY DEF LockInv, SpeechTyped
<1>3. speech[s].at = "queued"
  BY <1>2 DEF LockInv, QueueWaiting
<1>4. SpeechTyped'
  BY <1>1, <1>2 DEF LockInv, SpeechTyped
<1>5. LockMatchesSynthesis'
  BY <1>1, <1>2, <1>3, NoneIsNoSentence DEF LockInv, LockMatchesSynthesis
<1>6. ReadyStarting'
  <2>1. \A i \in 1..Len(ready) : ready[i] \in Sentences \ {s}
    BY <1>3 DEF LockInv, SpeechTyped, ReadyStarting
  <2> QED
    BY <1>1, <2>1 DEF LockInv, ReadyStarting
<1>7. QueueWaiting'
  <2>1. \A i \in 1..Len(lock'.queue) :
           i + 1 \in 1..Len(lock.queue) /\ i + 1 # 1 /\ lock.queue[i + 1] \in Sentences \ {s}
    BY <1>2 DEF LockInv, QueueWaiting, SpeechTyped
  <2>2. \A i \in 1..Len(lock'.queue) : speech'[lock'.queue[i]].at = "queued"
    BY <1>1, <1>2, <2>1 DEF LockInv, QueueWaiting
  <2>3. \A i, j \in 1..Len(lock'.queue) : lock'.queue[i] = lock'.queue[j] => i = j
    BY <1>2, <2>1 DEF LockInv, QueueWaiting
  <2> QED
    BY <2>2, <2>3 DEF QueueWaiting
<1>8. YetToCome'
  BY <1>1, <1>3 DEF LockInv, YetToCome
<1> QED
  BY <1>4, <1>5, <1>6, <1>7, <1>8 DEF LockInv

(* Every tracked task is cancelled; known are the tasks with their tokens. *)
LEMMA CancelKeeps ==
    ASSUME LockInv, NEW known \in [Sentences -> Task],
           \A s \in Sentences :
               known[s].at = speech[s].at /\ known[s].tracked = speech[s].tracked,
           CancelTtsTasks(known), epoch' \in Nat
    PROVE  LockInv'
<1>1. \A s \in Sentences :
          speech'[s] = IF known[s].tracked THEN CancelledTask(known[s]) ELSE known[s]
  BY DEF CancelTtsTasks
<1>2. \A k \in Task : CancelledTask(k) \in Task
  BY DEF CancelledTask, Task, Places
<1>3. speech' \in [Sentences -> Task]
  BY <1>2 DEF CancelTtsTasks
<1>4. lock' = LockAfterCancel /\ ready' = <<>>
  BY DEF CancelTtsTasks
<1>5. /\ turns' \in [Turns -> TurnTask]
      /\ \A t \in Turns : turns'[t].at = "none" <=> turns[t].at = "none"
      /\ \A t \in Turns : turns'[t].at # "streaming"
  BY DEF CancelTtsTasks, CancelTurns, LockInv, SpeechTyped, TurnTask
<1>6. SpeechTyped'
  <2>1. lock' \in [holder : Sentences \cup {None}, queue : Seq(Sentences)]
    BY <1>4 DEF LockAfterCancel, LockInv, SpeechTyped
  <2> QED
    BY <1>3, <1>4, <1>5, <2>1 DEF SpeechTyped
<1>7. LockMatchesSynthesis'
  <2> SUFFICES ASSUME NEW s \in Sentences
               PROVE  lock'.holder = s <=> speech'[s].at \in InLock
    BY DEF LockMatchesSynthesis, InLock
  <2>1. lock'.holder = IF lock.holder # None /\ speech[lock.holder].tracked
                                            /\ speech[lock.holder].at = "thread"
                       THEN None ELSE lock.holder
    BY <1>4 DEF LockAfterCancel
  <2>2. lock.holder = s <=> speech[s].at \in InLock
    BY DEF LockInv, LockMatchesSynthesis, InLock
  <2>3. CASE ~speech[s].tracked
    BY <1>1, <2>1, <2>2, <2>3, NoneIsNoSentence
  <2>4. CASE speech[s].tracked
    <3>1. speech'[s].at = CASE speech[s].at = "pushing" -> "doomed"
                            [] speech[s].at \in {"starting", "queued", "thread"} -> "over"
                            [] OTHER -> speech[s].at
      BY <1>1, <2>4 DEF CancelledTask, Task
    <3>2. speech[s].at \in Places
      BY DEF LockInv, SpeechTyped, Task
    <3> QED
      BY <2>1, <2>2, <2>4, <3>1, <3>2, NoneIsNoSentence DEF InLock, Places
  <2> QED
    BY <2>3, <2>4 DEF LockInv, SpeechTyped, Task
<1>8. ReadyStarting' /\ QueueWaiting'
  BY <1>4 DEF ReadyStarting, QueueWaiting, LockAfterCancel
<1>9. YetToCome'
  <2>1. \A s \in Sentences : speech'[s].at # "none" => speech[s].at # "none"
    BY <1>1 DEF CancelledTask, Task
  <2>2. \A t \in Turns, n \in Nat :
           <<t, n>> \in Sentences /\ speech'[<<t, n>>].at # "none" => turns[t].at # "none"
    BY <2>1 DEF LockInv, YetToCome
  <2>3. \A t \in Turns : turns[t].at # "none" =>
                            turns'[t].at # "none" /\ turns'[t].at # "streaming"
    BY <1>5
  <2> QED
    BY <2>2, <2>3 DEF YetToCome
<1> QED
  BY <1>6, <1>7, <1>8, <1>9 DEF LockInv
-----------------------------------------------------------------------------
(* The steps of turns.                                                     *)

LEMMA TurnStepKeeps ==
    ASSUME LockInv, NEW t \in Turns, TurnStep(t)
    PROVE  LockInv'
<1>1. turns[t] \in TurnTask /\ epoch \in Nat
  BY DEF LockInv, SpeechTyped
<1>2. ASSUME TurnOver(t), UNCHANGED <<epoch, speech, ready, lock>>
      PROVE  LockInv'
  <2>1. /\ turns' \in [Turns -> TurnTask]
        /\ turns'[t].at = "over"
        /\ \A u \in Turns \ {t} : turns'[u] = turns[u]
    BY <1>1, <1>2 DEF TurnOver, LockInv, SpeechTyped, TurnTask
  <2>2. SpeechTyped' /\ LockMatchesSynthesis' /\ ReadyStarting' /\ QueueWaiting'
    BY <1>2, <2>1
    DEF LockInv, SpeechTyped, LockMatchesSynthesis, ReadyStarting, QueueWaiting
  <2>3. YetToCome'
    BY <1>2, <2>1 DEF LockInv, YetToCome
  <2> QED
    BY <2>2, <2>3 DEF LockInv
<1>3. CASE PieceArrives(t)
  <2>1. CASE Superseded(turns[t]) \/ ~running
    BY <1>2, <1>3, <2>1 DEF PieceArrives
  <2>2. CASE ~(Superseded(turns[t]) \/ ~running)
    <3> DEFINE n == turns[t].next
               s == <<t, n>>
    <3>1. /\ n \in 1..Pieces[t] /\ turns[t].at = "streaming" /\ turns[t].epoch \in Nat
          /\ DispatchTts(s, turns[t].epoch)
          /\ turns' = [turns EXCEPT ![t].next = @ + 1]
          /\ UNCHANGED <<epoch, lock>>
      BY <1>1, <1>3, <2>2, SpeechAssumption DEF PieceArrives, TurnTask
    <3>2. s \in Sentences
      BY <3>1, SentenceOfTurn
    <3>3. speech[s].at = "none"
      BY <3>1, <3>2 DEF LockInv, YetToCome
    <3>4. /\ turns' \in [Turns -> TurnTask]
          /\ turns'[t].at = "streaming" /\ turns'[t].next = n + 1
          /\ \A u \in Turns \ {t} : turns'[u] = turns[u]
      <4> DEFINE r == [turns[t] EXCEPT !.next = @ + 1]
      <4>1. r \in TurnTask /\ r.at = turns[t].at /\ r.next = n + 1
        BY <1>1 DEF TurnTask
      <4>2. turns \in [Turns -> TurnTask] /\ turns' = [turns EXCEPT ![t] = r]
        BY <3>1 DEF LockInv, SpeechTyped
      <4> HIDE DEF r
      <4> QED
        BY <3>1, <4>1, <4>2
    <3>5. \A u \in Sentences \ {s} : speech'[u] = speech[u]
      BY <3>1 DEF DispatchTts, LockInv, SpeechTyped
    <3>6. ASSUME NEW u \in Turns, NEW i \in Nat, <<u, i>> \in Sentences,
                 speech'[<<u, i>>].at # "none"
          PROVE  /\ turns'[u].at # "none"
                 /\ turns'[u].at = "streaming" => i < turns'[u].next
      <4>1. CASE u = t /\ i = n
        BY <3>1, <3>4, <4>1
      <4>2. CASE ~(u = t /\ i = n)
        <5>1. speech[<<u, i>>].at # "none"
          BY <3>5, <3>6, <4>2
        <5>2. turns[u].at # "none" /\ (turns[u].at = "streaming" => i < turns[u].next)
          BY <3>6, <5>1 DEF LockInv, YetToCome
        <5> QED
          BY <3>1, <3>4, <5>2
      <4> QED
        BY <4>1, <4>2
    <3>7. YetToCome'
      BY <3>6 DEF YetToCome
    <3> HIDE DEF s
    <3> QED
      BY <3>1, <3>2, <3>3, <3>4, <3>7, DispatchKeeps
  <2> QED
    BY <2>1, <2>2
<1>4. CASE StreamEnds(t)
  BY <1>2, <1>4 DEF StreamEnds
<1>5. CASE StreamFails(t)
  BY <1>2, <1>5 DEF StreamFails
<1> QED
  BY <1>3, <1>4, <1>5 DEF TurnStep

(* An utterance is recognised: its turn starts, or it is spoken as it is.  *)
LEMMA RecognisedKeeps ==
    ASSUME LockInv, NEW t \in Turns, Recognised(t)
    PROVE  LockInv'
<1>1. turns[t] \in TurnTask /\ epoch \in Nat /\ turns[t].at = "none"
  BY DEF LockInv, SpeechTyped, Recognised
<1>2. /\ turns' \in [Turns -> TurnTask]
      /\ turns'[t].at # "none" /\ (turns'[t].at = "streaming" => HasLlm)
      /\ \A u \in Turns \ {t} : turns'[u] = turns[u]
  <2> DEFINE r == IF HasLlm THEN [at |-> "streaming", epoch |-> epoch, next |-> 1]
                             ELSE [turns[t] EXCEPT !.at = "over"]
  <2>1. r \in TurnTask /\ r.at # "none" /\ (r.at = "streaming" => HasLlm)
    BY <1>1 DEF TurnTask
  <2>2. turns \in [Turns -> TurnTask] /\ turns' = [turns EXCEPT ![t] = r]
    BY DEF LockInv, SpeechTyped, Recognised, StartTurn
  <2> HIDE DEF r
  <2> QED
    BY <2>1, <2>2
<1>3. \A n \in Nat : <<t, n>> \in Sentences => speech[<<t, n>>].at = "none"
  BY <1>1 DEF LockInv, YetToCome
<1>4. CASE HasLlm
  <2>1. UNCHANGED <<epoch, speech, ready, lock>>
    BY <1>4 DEF Recognised
  <2>2. YetToCome'
    BY <1>2, <1>3, <2>1 DEF LockInv, YetToCome
  <2>3. SpeechTyped'
    BY <1>2, <2>1 DEF LockInv, SpeechTyped
  <2>4. LockMatchesSynthesis' /\ ReadyStarting' /\ QueueWaiting'
    BY <2>1 DEF LockInv, LockMatchesSynthesis, ReadyStarting, QueueWaiting
  <2> QED
    BY <2>2, <2>3, <2>4 DEF LockInv
<1>5. CASE ~HasLlm
  <2> DEFINE s == <<t, 1>>
  <2>1. s \in Sentences
    BY SpeechAssumption, SentenceOfTurn
  <2>2. DispatchTts(s, epoch) /\ UNCHANGED <<epoch, lock>>
    BY <1>5 DEF Recognised
  <2>3. speech[s].at = "none"
    BY <1>3, <2>1
  <2>4. \A u \in Sentences \ {s} : speech'[u] = speech[u]
    BY <2>2 DEF DispatchTts, LockInv, SpeechTyped
  <2>5. \A u \in Turns, i \in Nat : u # t /\ <<u, i>> \in Sentences
           => speech'[<<u, i>>] = speech[<<u, i>>]
    BY <2>4
  <2>6. YetToCome'
    BY <1>2, <1>5, <2>5 DEF LockInv, YetToCome
  <2> HIDE DEF s
  <2> QED
    BY <1>1, <1>2, <2>1, <2>2, <2>3, <2>6, DispatchKeeps
<1> QED
  BY <1>4, <1>5

-----------------------------------------------------------------------------
(* The steps of speech tasks.                                              *)

(* Where a synthesis goes from one chunk to the next: into the thread, or, *)
(* its token cancelled, to its end.                                        *)
LEMMA NextChunkKeeps ==
    ASSUME LockInv, NEW s \in Sentences, NEW k \in Task, NextChunk(s, k),
           speech[s].at \in InLock, UNCHANGED <<epoch, turns, ready>>
    PROVE  LockInv'
<1>1. lock \in [holder : Sentences \cup {None}, queue : Seq(Sentences)]
  BY DEF LockInv, SpeechTyped
<1>2. speech[s] \in Task /\ speech \in [Sentences -> Task]
  BY DEF LockInv, SpeechTyped
<1>3. CASE k.cut
  <2> DEFINE j == [speech[s] EXCEPT !.at = "over", !.tracked = FALSE]
  <2>1. j \in Task /\ j.at = "over"
    BY <1>2 DEF Task, Places
  <2>2. speech' = [speech EXCEPT ![s] = j] /\ lock' = [lock EXCEPT !.holder = None]
    BY <1>2, <1>3 DEF NextChunk, EndsUnlocked, Unlocked
  <2> HIDE DEF j
  <2> QED
    BY <2>1, <2>2, HolderMoves
<1>4. CASE ~k.cut
  <2> DEFINE j == [k EXCEPT !.at = "thread"]
  <2>1. j \in Task /\ j.at = "thread"
    BY DEF Task, Places
  <2>2. speech' = [speech EXCEPT ![s] = j] /\ lock' = [lock EXCEPT !.holder = s]
    BY <1>4 DEF NextChunk
  <2> HIDE DEF j
  <2> QED
    BY <2>1, <2>2, HolderMoves DEF InLock
<1> QED
  BY <1>3, <1>4

(* Where a task that holds the lock ends.                                  *)
LEMMA EndsUnlockedKeeps ==
    ASSUME LockInv, NEW s \in Sentences, EndsUnlocked(s), speech[s].at \in InLock,
           UNCHANGED <<epoch, turns, ready>>
    PROVE  LockInv'
<1> DEFINE j == [speech[s] EXCEPT !.at = "over", !.tracked = FALSE]
<1>1. speech[s] \in Task /\ speech \in [Sentences -> Task]
  BY DEF LockInv, SpeechTyped
<1>2. j \in Task /\ j.at = "over"
  BY <1>1 DEF Task, Places
<1>3. speech' = [speech EXCEPT ![s] = j] /\ lock' = [lock EXCEPT !.holder = None]
  BY <1>1 DEF EndsUnlocked, Unlocked
<1> HIDE DEF j
<1> QED
  BY <1>2, <1>3, HolderMoves

(* Where it goes to another place under the lock.                          *)
LEMMA PlaceInLockKeeps ==
    ASSUME LockInv, NEW s \in Sentences, NEW k \in Task, k.at \in InLock,
           speech' = [speech EXCEPT ![s] = k], speech[s].at \in InLock,
           UNCHANGED <<epoch, turns, ready, lock>>
    PROVE  LockInv'
<1>1. lock \in [holder : Sentences \cup {None}, queue : Seq(Sentences)] /\ lock.holder = s
  BY DEF LockInv, SpeechTyped, LockMatchesSynthesis, InLock
<1>2. lock' = [lock EXCEPT !.holder = s]
  BY <1>1
<1> QED
  BY <1>2, HolderMoves DEF InLock
LEMMA SpeechStartsKeeps ==
    ASSUME LockInv, NEW s \in Sentences, SpeechStarts(s)
    PROVE  LockInv'
<1> DEFINE over == [speech[s] EXCEPT !.at = "over", !.tracked = FALSE]
           queued == [speech[s] EXCEPT !.at = "queued"]
           thread == [speech[s] EXCEPT !.at = "thread"]
<1>1. /\ speech[s] \in Task /\ speech \in [Sentences -> Task]
      /\ lock \in [holder : Sentences \cup {None}, queue : Seq(Sentences)]
  BY DEF LockInv, SpeechTyped
<1>2. /\ over \in Task /\ over.at = "over"
      /\ queued \in Task /\ queued.at = "queued"
      /\ thread \in Task /\ thread.at = "thread"
  BY <1>1 DEF Task, Places
<1>3. /\ ready # <<>> /\ Head(ready) = s /\ ready' = Tail(ready)
      /\ UNCHANGED <<epoch, turns>>
  BY DEF SpeechStarts
<1>4. CASE speech' = [speech EXCEPT ![s] = over] /\ lock' = lock
  <2> HIDE DEF over
  <2> QED
    BY <1>2, <1>3, <1>4, FirstReadyMoves
<1>5. CASE /\ LockFree
           /\ speech' = [speech EXCEPT ![s] = thread]
           /\ lock' = [lock EXCEPT !.holder = s]
  <2> HIDE DEF thread
  <2>1. lock.holder = None
    BY <1>5 DEF LockFree
  <2> QED
    BY <1>2, <1>3, <1>5, <2>1, FirstReadyMoves
<1>6. CASE /\ speech' = [speech EXCEPT ![s] = queued]
           /\ lock' = [lock EXCEPT !.queue = Append(@, s)]
  <2> HIDE DEF queued
  <2> QED
    BY <1>2, <1>3, <1>6, FirstReadyMoves
<1>7. CASE Superseded(speech[s])
  BY <1>1, <1>4, <1>7 DEF SpeechStarts
<1>8. CASE ~Superseded(speech[s]) /\ LockFree /\ speech[s].cut
  <2>1. speech' = [speech EXCEPT ![s] = over] /\ lock' = [lock EXCEPT !.holder = None]
    BY <1>1, <1>8 DEF SpeechStarts, NextChunk, EndsUnlocked, Unlocked
  <2>2. lock' = lock
    BY <1>1, <1>8, <2>1 DEF LockFree
  <2> QED
    BY <1>4, <2>1, <2>2
<1>9. CASE ~Superseded(speech[s]) /\ LockFree /\ ~speech[s].cut
  BY <1>5, <1>9 DEF SpeechStarts, NextChunk
<1>10. CASE ~Superseded(speech[s]) /\ ~LockFree
  BY <1>1, <1>6, <1>10 DEF SpeechStarts, Moved
<1> QED
  BY <1>7, <1>8, <1>9, <1>10

LEMMA LockGrantedKeeps ==
    ASSUME LockInv, NEW s \in Sentences, LockGranted(s)
    PROVE  LockInv'
<1> DEFINE over == [speech[s] EXCEPT !.at = "over", !.tracked = FALSE]
           thread == [speech[s] EXCEPT !.at = "thread"]
<1>1. /\ speech[s] \in Task /\ speech \in [Sentences -> Task]
      /\ lock \in [holder : Sentences \cup {None}, queue : Seq(Sentences)]
  BY DEF LockInv, SpeechTyped
<1>2. /\ over \in Task /\ over.at = "over"
      /\ thread \in Task /\ thread.at = "thread"
  BY <1>1 DEF Task, Places
<1>3. /\ lock.holder = None /\ lock.queue # <<>> /\ Head(lock.queue) = s
      /\ UNCHANGED <<epoch, turns, ready>>
  BY DEF LockGranted
<1>4. CASE speech[s].cut
  <2>1. speech' = [speech EXCEPT ![s] = over]
    BY <1>1, <1>4 DEF LockGranted
  <2>2. lock' = [holder |-> None, queue |-> Tail(lock.queue)]
    BY <1>1, <1>3, <1>4 DEF LockGranted
  <2>3. None # s
    BY NoneIsNoSentence
  <2> HIDE DEF over
  <2> QED
    BY <1>2, <1>3, <2>1, <2>2, <2>3, FirstWaiterMoves
<1>5. CASE ~speech[s].cut
  <2>1. speech' = [speech EXCEPT ![s] = thread]
    BY <1>1, <1>5 DEF LockGranted, Moved
  <2>2. lock' = [holder |-> s, queue |-> Tail(lock.queue)]
    BY <1>5 DEF LockGranted
  <2> HIDE DEF thread
  <2> QED
    BY <1>2, <1>3, <2>1, <2>2, FirstWaiterMoves
<1> QED
  BY <1>4, <1>5

LEMMA ChunkArrivesKeeps ==
    ASSUME LockInv, NEW s \in Sentences, ChunkArrives(s)
    PROVE  LockInv'
<1> DEFINE k == [speech[s] EXCEPT !.chunk = @ + 1]
           pushing == [k EXCEPT !.at = "pushing"]
           closing == [speech[s] EXCEPT !.at = "closing"]
<1>1. speech[s] \in Task /\ speech \in [Sentences -> Task]
  BY DEF LockInv, SpeechTyped
<1>2. /\ k \in Task
      /\ pushing \in Task /\ pushing.at = "pushing"
      /\ closing \in Task /\ closing.at = "closing"
  <2>1. k \in Task
    BY <1>1 DEF Task
  <2>2. closing \in Task /\ closing.at = "closing"
    BY <1>1 DEF Task, Places
  <2>3. \A j \in Task : [j EXCEPT !.at = "pushing"] \in Task
                       /\ [j EXCEPT !.at = "pushing"].at = "pushing"
    BY DEF Task, Places
  <2> HIDE DEF k
  <2> QED
    BY <2>1, <2>2, <2>3
<1>3. speech[s].at \in InLock /\ UNCHANGED <<epoch, turns, ready>>
  BY DEF ChunkArrives, InLock
<1>4. CASE EndsUnlocked(s)
  BY <1>3, <1>4, EndsUnlockedKeeps
<1>5. CASE speech' = Moved(s, "closing") /\ UNCHANGED lock
  <2>1. speech' = [speech EXCEPT ![s] = closing]
    BY <1>1, <1>5 DEF Moved
  <2> HIDE DEF closing
  <2> QED
    BY <1>2, <1>3, <1>5, <2>1, PlaceInLockKeeps DEF InLock
<1>6. CASE speech' = [speech EXCEPT ![s] = pushing] /\ UNCHANGED lock
  <2> HIDE DEF pushing
  <2> QED
    BY <1>2, <1>3, <1>6, PlaceInLockKeeps DEF InLock
<1>7. CASE NextChunk(s, k)
  <2> HIDE DEF k
  <2> QED
    BY <1>2, <1>3, <1>7, NextChunkKeeps
<1>8. \/ EndsUnlocked(s)
      \/ speech' = Moved(s, "closing") /\ UNCHANGED lock
      \/ speech' = [speech EXCEPT ![s] = pushing] /\ UNCHANGED lock
      \/ NextChunk(s, k)
  <2> HIDE DEF k
  <2>1. k = [speech[s] EXCEPT !.chunk = @ + 1]
    BY DEF k
  <2> QED
    BY <2>1 DEF ChunkArrives
<1> QED
  BY <1>4, <1>5, <1>6, <1>7, <1>8

LEMMA SpeechStepKeeps ==
    ASSUME LockInv, NEW s \in Sentences, SpeechStep(s)
    PROVE  LockInv'
<1>1. speech[s] \in Task /\ speech \in [Sentences -> Task]
  BY DEF LockInv, SpeechTyped
<1>2. CASE PushReturns(s)
  BY <1>1, <1>2, NextChunkKeeps DEF PushReturns, InLock
<1>3. CASE DoomedEnds(s)
  <2> DEFINE closing == [speech[s] EXCEPT !.at = "closing"]
  <2>1. closing \in Task /\ closing.at = "closing"
    BY <1>1 DEF Task, Places
  <2>2. speech' = [speech EXCEPT ![s] = closing]
    BY <1>1, <1>3 DEF DoomedEnds, Moved
  <2> HIDE DEF closing
  <2> QED
    BY <1>3, <2>1, <2>2, PlaceInLockKeeps DEF DoomedEnds, InLock
<1>4. CASE GeneratorsClose(s)
  BY <1>4, EndsUnlockedKeeps DEF GeneratorsClose, InLock
<1>5. CASE ThreadReturns(s)
  BY <1>5, LockInvStutter DEF ThreadReturns, lockVars
<1> QED
  BY <1>2, <1>3, <1>4, <1>5, SpeechStartsKeeps, LockGrantedKeeps, ChunkArrivesKeeps
  DEF SpeechStep, TaskStep

-----------------------------------------------------------------------------
(* The steps of the worker and of the session.                             *)

LEMMA AdvanceEpochKeeps ==
    ASSUME LockInv, NEW f \in BOOLEAN, AdvanceEpoch(f)
    PROVE  LockInv'
<1> DEFINE known == [s \in Sentences |-> CutToken(s)]
<1>1. speech \in [Sentences -> Task] /\ epoch \in Nat
  BY DEF LockInv, SpeechTyped
<1>2. \A s \in Sentences : /\ CutToken(s) \in Task
                           /\ CutToken(s).at = speech[s].at
                           /\ CutToken(s).tracked = speech[s].tracked
  BY <1>1 DEF CutToken, Task
<1>3. CancelTtsTasks(known) /\ epoch' = epoch + 1
  BY DEF AdvanceEpoch
<1>4. /\ known \in [Sentences -> Task]
      /\ \A s \in Sentences :
            known[s].at = speech[s].at /\ known[s].tracked = speech[s].tracked
  BY <1>2
<1> HIDE DEF known
<1> QED
  BY <1>1, <1>3, <1>4, CancelKeeps

LEMMA RunStepKeeps ==
    ASSUME LockInv, RunStep
    PROVE  LockInv'
<1>1. CASE HandleControl
  <2>1. \/ AdvanceEpoch(TRUE)
        \/ UNCHANGED lockVars
    BY <1>1 DEF HandleControl, lockVars
  <2> QED
    BY <2>1, AdvanceEpochKeeps, LockInvStutter
<1>2. CASE HandleFrame
  <2>1. \/ UNCHANGED lockVars
        \/ \E t \in Turns : Recognised(t)
    BY <1>2 DEF HandleFrame, Noticed, speechVars, lockVars
  <2> QED
    BY <2>1, RecognisedKeeps, LockInvStutter
<1>3. CASE LoopEnds
  BY <1>3, LockInvStutter DEF LoopEnds, speechVars, lockVars
<1> QED
  BY <1>1, <1>2, <1>3 DEF RunStep

LEMMA StopWorkerKeeps ==
    ASSUME LockInv, StopWorker
    PROVE  LockInv'
<1>1. speech \in [Sentences -> Task] /\ epoch' \in Nat /\ CancelTtsTasks(speech)
  BY DEF LockInv, SpeechTyped, StopWorker
<1> QED
  BY <1>1, CancelKeeps

LEMMA SocketStepKeeps ==
    ASSUME LockInv, NEW k \in Sockets, SocketStep(k)
    PROVE  LockInv'
<1>1. BargeIn(k) \/ UNCHANGED lockVars
  BY DEF SocketStep, Connects, SenderStep, SenderWaits, SenderTakes, Mic, PushFrame, Leaves,
         StopBegins, workerVars, speechVars, lockVars
<1> QED
  BY <1>1, AdvanceEpochKeeps, LockInvStutter DEF BargeIn

LEMMA LockInvStep == LockInv /\ [DuplexNext]_duplexVars => LockInv'
<1> SUFFICES ASSUME LockInv, [DuplexNext]_duplexVars
             PROVE  LockInv'
  OBVIOUS
<1>1. \/ \E t \in Turns : TurnStep(t)
      \/ \E s \in Sentences : SpeechStep(s)
      \/ RunStep
      \/ \E k \in Sockets : SocketStep(k)
      \/ StopWorker
      \/ UNCHANGED lockVars
  BY DEF DuplexNext, PushControl, DrainStep, DrainWaits, DrainPasses, StopBegins, StopEnds,
         duplexVars, workerVars, speechVars, lockVars
<1> QED
  BY <1>1, TurnStepKeeps, SpeechStepKeeps, RunStepKeeps, SocketStepKeeps, StopWorkerKeeps,
     LockInvStutter

(* The lock of the engine is held exactly by the synthesis that is neither *)
(* waiting nor over: with one engine that is not thread-safe               *)
(* (voice/worker.py:17-19), whatever advance_epoch cancels and wait_for    *)
(* swallows, no cancelled task keeps the lock and none goes on without it. *)
THEOREM LockFollowsSynthesis == DuplexSpec => []LockMatchesSynthesis
<1>1. LockInv => LockMatchesSynthesis
  BY DEF LockInv
<1> QED
  BY <1>1, LockInvInit, LockInvStep, PTL DEF DuplexSpec
-----------------------------------------------------------------------------
(* The output queue and its drain.                                         *)

Item == [stamp : {0}, kind : {"pcm", "flush", "notice"}, epoch : Nat,
         of : Sentences \cup {None}, chunk : Nat]

Outputs == [items : Seq(Item), epoch : Nat, waiting : SUBSET {"drain"}, woken : SUBSET {"drain"}]

(* The queue holds audio of the current epoch only, since advance_epoch    *)
(* empties it and what is emitted is looked at once more; no flush is of a *)
(* later epoch.                                                            *)
OutputInv ==
    /\ output \in Outputs
    /\ output.epoch = epoch
    /\ \A i \in 1..Len(output.items) :
          /\ output.items[i].kind = "pcm" => epoch <= output.items[i].epoch
          /\ output.items[i].kind = "flush" => output.items[i].epoch <= epoch
    /\ flushed \in Nat /\ flushed <= epoch

(* What a released drain task finds.                                       *)
AliveInv == DrainAlive /\ ("drain" \in output.woken => output.items # <<>>)

LEMMA OutputInvInit == DuplexInit => OutputInv /\ AliveInv
BY DEF DuplexInit, WorkerInit, SpeechInit, OutputInv, AliveInv, DrainAlive, Outputs, NewBounded

(* What the steps of a session do to its output queue.                     *)
EmitStep ==
    /\ \E x \in Item : /\ x.kind = "notice" \/ (x.kind = "pcm" /\ epoch <= x.epoch)
                       /\ x.epoch = 0 \/ \E s \in Sentences : x.epoch = speech[s].epoch
                       /\ output' = Emitted(x)
    /\ UNCHANGED <<epoch, drain, spoken, flushed>>

AdvanceStep ==
    /\ \E f \in BOOLEAN : output' = OutputAfter(f) /\ (f \/ MaySend)
    /\ epoch' = epoch + 1
    /\ UNCHANGED <<drain, spoken, flushed>>

CancelStep ==
    /\ output' = ConsumerGone(output, "drain")
    /\ drain' \in {drain, "off"}
    /\ UNCHANGED <<epoch, spoken, flushed>>

outputVars == <<epoch, output, drain, spoken, flushed>>

LEMMA NoticeIsItem == Notice \in Item /\ Notice.kind = "notice" /\ Notice.epoch = 0
BY DEF Notice, Item

LEMMA OutputSteps ==
    ASSUME LockInv, [DuplexNext]_duplexVars
    PROVE  EmitStep \/ AdvanceStep \/ CancelStep \/ DrainStep \/ UNCHANGED outputVars
<1>1. ASSUME UNCHANGED <<epoch, output>> \/ output' = Emitted(Notice),
             UNCHANGED <<epoch, drain, spoken, flushed>>
      PROVE  EmitStep \/ UNCHANGED outputVars
  BY <1>1, NoticeIsItem DEF EmitStep, outputVars
<1>2. ASSUME NEW t \in Turns, TurnStep(t) /\ UNCHANGED <<input, control, loop, rest>>
      PROVE  EmitStep \/ UNCHANGED outputVars
  BY <1>1, <1>2 DEF TurnStep, PieceArrives, StreamEnds, StreamFails, rest
<1>3. ASSUME NEW s \in Sentences, SpeechStep(s) /\ UNCHANGED <<input, control, loop, rest>>
      PROVE  EmitStep \/ UNCHANGED outputVars
  <2>1. CASE ChunkArrives(s)
    <3> DEFINE k == [speech[s] EXCEPT !.chunk = @ + 1]
               x == Audio(s, k.chunk)
    <3>1. speech[s] \in Task /\ epoch \in Nat
      BY DEF LockInv, SpeechTyped
    <3>2. k.epoch = speech[s].epoch /\ k.chunk \in Nat
      BY <3>1 DEF Task
    <3>3. x \in Item /\ x.kind = "pcm" /\ x.epoch = speech[s].epoch
      BY <3>1, <3>2 DEF Audio, Item, Task
    <3>4. ~Superseded(k) => epoch <= x.epoch
      BY <3>1, <3>2, <3>3 DEF Superseded, Task
    <3>5. UNCHANGED <<epoch, drain, spoken, flushed>>
      BY <1>3, <2>1 DEF ChunkArrives, rest
    <3>6. \/ UNCHANGED output
          \/ output' = Emitted(Notice)
          \/ ~Superseded(k) /\ output' = Emitted(x)
      BY <2>1 DEF ChunkArrives
    <3>7. CASE ~Superseded(k) /\ output' = Emitted(x)
      <4> HIDE DEF x
      <4> QED
        BY <3>3, <3>4, <3>5, <3>7 DEF EmitStep
    <3> QED
      BY <1>1, <3>5, <3>6, <3>7
  <2>2. CASE SpeechStarts(s) \/ LockGranted(s) \/ PushReturns(s) \/ DoomedEnds(s)
             \/ GeneratorsClose(s) \/ ThreadReturns(s)
    BY <1>3, <2>2 DEF SpeechStarts, LockGranted, PushReturns, DoomedEnds, GeneratorsClose,
                      ThreadReturns, rest, outputVars
  <2> QED
    BY <1>3, <2>1, <2>2 DEF SpeechStep, TaskStep
<1>4. ASSUME RunStep /\ UNCHANGED rest
      PROVE  EmitStep \/ AdvanceStep \/ UNCHANGED outputVars
  <2>1. UNCHANGED <<drain, spoken, flushed>>
    BY <1>4 DEF rest
  <2>2. \/ UNCHANGED <<epoch, output>>
        \/ output' = Emitted(Notice) /\ UNCHANGED epoch
        \/ AdvanceEpoch(TRUE)
    BY <1>4 DEF RunStep, HandleControl, HandleFrame, LoopEnds, Noticed, Recognised, speechVars
  <2>3. CASE AdvanceEpoch(TRUE)
    BY <2>1, <2>3 DEF AdvanceEpoch, AdvanceStep
  <2> QED
    BY <1>1, <2>1, <2>2, <2>3
<1>5. ASSUME NEW k \in Sockets, SocketStep(k)
      PROVE  AdvanceStep \/ CancelStep \/ UNCHANGED outputVars
  <2>1. CASE BargeIn(k)
    BY <2>1 DEF BargeIn, AdvanceEpoch, AdvanceStep
  <2>2. CASE Leaves(k)
    BY <2>2 DEF Leaves, StopBegins, CancelStep, workerVars, speechVars, outputVars
  <2>3. CASE Connects(k) \/ SenderStep(k) \/ Mic(k)
    BY <2>3 DEF Connects, SenderStep, SenderWaits, SenderTakes, Mic, PushFrame,
                workerVars, speechVars, outputVars
  <2> QED
    BY <1>5, <2>1, <2>2, <2>3 DEF SocketStep
<1>6. ASSUME StopBegins({})
      PROVE  CancelStep
  BY <1>6 DEF StopBegins, CancelStep
<1>7. ASSUME StopEnds
      PROVE  UNCHANGED outputVars
  BY <1>7 DEF StopEnds, StopWorker, outputVars
<1>8. ASSUME NEW i \in Intents, PushControl(i), UNCHANGED rest
      PROVE  UNCHANGED outputVars
  BY <1>8 DEF PushControl, speechVars, rest, outputVars
<1>9. CASE UNCHANGED duplexVars
  BY <1>9 DEF duplexVars, workerVars, speechVars, outputVars
<1> QED
  BY <1>2, <1>3, <1>4, <1>5, <1>6, <1>7, <1>8, <1>9 DEF DuplexNext

(* One more item at most.                                                  *)
LEMMA EnqueuedOutput ==
    ASSUME NEW q \in Outputs, NEW x \in Item, NEW e \in Nat
    PROVE  /\ Enqueued(q, x, e, OutputCapacity) \in Outputs
           /\ Enqueued(q, x, e, OutputCapacity).epoch = q.epoch
           /\ \/ Enqueued(q, x, e, OutputCapacity) = q
              \/ Enqueued(q, x, e, OutputCapacity).items = Append(q.items, x)
           /\ q.items = <<>> /\ e >= q.epoch
                  => Enqueued(q, x, e, OutputCapacity).items = <<x>>
<1> DEFINE r == [q EXCEPT !.items = Append(@, x), !.woken = @ \cup q.waiting, !.waiting = {}]
<1>1. /\ q.items \in Seq(Item) /\ q.epoch \in Nat
      /\ q.waiting \in SUBSET {"drain"} /\ q.woken \in SUBSET {"drain"}
  BY DEF Outputs
<1>2. Append(q.items, x) \in Seq(Item) /\ q.woken \cup q.waiting \in SUBSET {"drain"}
  BY <1>1
<1>3. {} \in SUBSET {"drain"}
  OBVIOUS
<1>4. r \in Outputs /\ r.epoch = q.epoch /\ r.items = Append(q.items, x)
  <2> DEFINE i == Append(q.items, x)
             k == q.woken \cup q.waiting
             w == {}
  <2>1. i \in Seq(Item) /\ k \in SUBSET {"drain"} /\ w \in SUBSET {"drain"}
    BY <1>2, <1>3
  <2>2. r = [q EXCEPT !.items = i, !.woken = k, !.waiting = w]
    BY Zenon
  <2> HIDE DEF i, k, w, r
  <2>3. /\ [q EXCEPT !.items = i, !.woken = k, !.waiting = w] \in Outputs
        /\ [q EXCEPT !.items = i, !.woken = k, !.waiting = w].items = i
        /\ [q EXCEPT !.items = i, !.woken = k, !.waiting = w].epoch = q.epoch
    BY <2>1 DEF Outputs
  <2> QED
    BY <2>2, <2>3, Zenon DEF i
<1>5. q.items = <<>> => Append(q.items, x) = <<x>> /\ Len(q.items) = 0
  BY <1>1
<1>6. Enqueued(q, x, e, OutputCapacity)
         = IF e < q.epoch \/ Len(q.items) >= OutputCapacity THEN q ELSE r
  BY DEF Enqueued
<1> HIDE DEF r
<1>7. CASE e < q.epoch \/ Len(q.items) >= OutputCapacity
  BY <1>1, <1>5, <1>6, <1>7, SpeechAssumption
<1>8. CASE ~(e < q.epoch \/ Len(q.items) >= OutputCapacity)
  BY <1>4, <1>5, <1>6, <1>8
<1> QED
  BY <1>7, <1>8

LEMMA OutputAfterAdvance ==
    ASSUME OutputInv, epoch \in Nat
    PROVE  /\ \A f \in BOOLEAN : /\ OutputAfter(f) \in Outputs
                                 /\ OutputAfter(f).epoch = epoch + 1
           /\ OutputAfter(TRUE).items = <<Flush(epoch + 1)>>
           /\ OutputAfter(FALSE).items = <<>>
<1> DEFINE q == Purged(output, epoch + 1)
<1>1. output \in Outputs /\ output.epoch = epoch /\ output.items \in Seq(Item)
  BY DEF OutputInv, Outputs
<1>2. AllOlder(output, epoch + 1)
  <2>1. \A x \in Item : x.stamp = 0
    BY DEF Item
  <2>2. \A i \in DOMAIN output.items : output.items[i] \in Item
    BY <1>1
  <2> QED
    BY <2>1, <2>2 DEF AllOlder
<1>3. q = [output EXCEPT !.items = <<>>, !.epoch = epoch + 1]
  <2>1. ~(epoch + 1 <= output.epoch)
    BY <1>1
  <2>2. q = [output EXCEPT !.items = IF AllOlder(output, epoch + 1) THEN <<>>
                                     ELSE SelectSeq(@, LAMBDA x : x.stamp >= epoch + 1),
                           !.epoch = epoch + 1]
    BY <2>1, Zenon DEF Purged
  <2> HIDE DEF q
  <2> QED
    BY <1>2, <2>2, Zenon
<1>4. q \in Outputs /\ q.items = <<>> /\ q.epoch = epoch + 1
  <2> HIDE DEF q
  <2> DEFINE i == <<>>
             e == epoch + 1
  <2>1. i \in Seq(Item) /\ e \in Nat
    OBVIOUS
  <2>2. q = [output EXCEPT !.items = i, !.epoch = e]
    BY <1>3, Zenon
  <2> HIDE DEF i, e
  <2>3. /\ [output EXCEPT !.items = i, !.epoch = e] \in Outputs
        /\ [output EXCEPT !.items = i, !.epoch = e].items = i
        /\ [output EXCEPT !.items = i, !.epoch = e].epoch = e
    BY <1>1, <2>1 DEF Outputs
  <2> QED
    BY <2>2, <2>3, Zenon DEF i, e
<1>5. Flush(epoch + 1) \in Item
  BY DEF Flush, Item
<1>6. /\ OutputAfter(TRUE) = Enqueued(q, Flush(epoch + 1), epoch + 1, OutputCapacity)
      /\ OutputAfter(FALSE) = q
  BY Zenon DEF OutputAfter
<1> HIDE DEF q
<1>7. /\ OutputAfter(TRUE) \in Outputs /\ OutputAfter(TRUE).epoch = epoch + 1
      /\ OutputAfter(TRUE).items = <<Flush(epoch + 1)>>
  <2> DEFINE e == epoch + 1
             x == Flush(e)
  <2>1. q \in Outputs /\ x \in Item /\ e \in Nat /\ e >= q.epoch /\ q.items = <<>>
    BY <1>4, <1>5
  <2>2. OutputAfter(TRUE) = Enqueued(q, x, e, OutputCapacity)
    BY <1>6, Zenon
  <2>3. q.epoch = e
    BY <1>4
  <2> HIDE DEF x, e
  <2>4. /\ Enqueued(q, x, e, OutputCapacity) \in Outputs
        /\ Enqueued(q, x, e, OutputCapacity).epoch = q.epoch
        /\ Enqueued(q, x, e, OutputCapacity).items = <<x>>
    BY <2>1, EnqueuedOutput
  <2>5. OutputAfter(TRUE) \in Outputs /\ OutputAfter(TRUE).epoch = e
        /\ OutputAfter(TRUE).items = <<x>>
    BY <2>2, <2>3, <2>4
  <2> QED
    BY <2>5, Zenon DEF x, e
<1> QED
  BY <1>4, <1>6, <1>7
(* A consumer waits, goes, or takes the first item.                        *)
LEMMA ConsumerOutput ==
    ASSUME NEW q \in Outputs
    PROVE  /\ Suspended(q, "drain") \in Outputs
           /\ Suspended(q, "drain").items = q.items
           /\ Suspended(q, "drain").epoch = q.epoch
           /\ Suspended(q, "drain").woken = q.woken
           /\ ConsumerGone(q, "drain") \in Outputs
           /\ ConsumerGone(q, "drain").items = q.items
           /\ ConsumerGone(q, "drain").epoch = q.epoch
           /\ "drain" \notin ConsumerGone(q, "drain").woken
           /\ q.items # <<>> =>
                 /\ PoppedBy(q, "drain") \in Outputs
                 /\ PoppedBy(q, "drain").items = Tail(q.items)
                 /\ PoppedBy(q, "drain").epoch = q.epoch
                 /\ "drain" \notin PoppedBy(q, "drain").woken
<1>1. /\ Suspended(q, "drain") \in Outputs
      /\ Suspended(q, "drain").items = q.items
      /\ Suspended(q, "drain").epoch = q.epoch
      /\ Suspended(q, "drain").woken = q.woken
  BY DEF Suspended, Outputs
<1>2. /\ ConsumerGone(q, "drain") \in Outputs
      /\ ConsumerGone(q, "drain").items = q.items
      /\ ConsumerGone(q, "drain").epoch = q.epoch
      /\ "drain" \notin ConsumerGone(q, "drain").woken
  BY DEF ConsumerGone, Outputs
<1>3. ASSUME q.items # <<>>
      PROVE  /\ PoppedBy(q, "drain") \in Outputs
             /\ PoppedBy(q, "drain").items = Tail(q.items)
             /\ PoppedBy(q, "drain").epoch = q.epoch
             /\ "drain" \notin PoppedBy(q, "drain").woken
  <2>1. q.items \in Seq(Item) /\ Tail(q.items) \in Seq(Item)
    BY <1>3 DEF Outputs
  <2> QED
    BY <2>1 DEF PoppedBy, Outputs
<1> QED
  BY <1>1, <1>2, <1>3

LEMMA OutputInvStep ==
    ASSUME LockInv, OutputInv, [DuplexNext]_duplexVars
    PROVE  OutputInv'
<1>1. output \in Outputs /\ output.items \in Seq(Item) /\ epoch \in Nat /\ output.epoch = epoch
      /\ flushed \in Nat /\ flushed <= epoch
  BY DEF LockInv, SpeechTyped, OutputInv, Outputs
<1>2. CASE EmitStep
  <2>1. PICK x \in Item : /\ x.kind = "notice" \/ (x.kind = "pcm" /\ epoch <= x.epoch)
                          /\ output' = Emitted(x)
    BY <1>2 DEF EmitStep
  <2>2. /\ output' \in Outputs /\ output'.epoch = epoch
        /\ output' = output \/ output'.items = Append(output.items, x)
    BY <1>1, <2>1, EnqueuedOutput DEF Emitted
  <2>3. UNCHANGED <<epoch, flushed>>
    BY <1>2 DEF EmitStep
  <2>4. CASE output' = output
    BY <2>3, <2>4 DEF OutputInv
  <2>5. CASE output'.items = Append(output.items, x)
    <3>1. \A i \in 1..Len(output'.items) :
             \/ i \in 1..Len(output.items) /\ output'.items[i] = output.items[i]
             \/ output'.items[i] = x
      BY <1>1, <2>5
    <3>2. \A i \in 1..Len(output'.items) :
             /\ output'.items[i].kind = "pcm" => epoch <= output'.items[i].epoch
             /\ output'.items[i].kind = "flush" => output'.items[i].epoch <= epoch
      BY <2>1, <3>1 DEF OutputInv
    <3> QED
      BY <1>1, <2>2, <2>3, <3>2 DEF OutputInv
  <2> QED
    BY <2>2, <2>4, <2>5
<1>3. CASE AdvanceStep
  <2>1. PICK f \in BOOLEAN : output' = OutputAfter(f)
    BY <1>3 DEF AdvanceStep
  <2>2. /\ output' \in Outputs /\ output'.epoch = epoch + 1
        /\ output'.items \in {<<>>, <<Flush(epoch + 1)>>}
    BY <1>1, <2>1, OutputAfterAdvance
  <2>3. epoch' = epoch + 1 /\ flushed' = flushed
    BY <1>3 DEF AdvanceStep
  <2>4. Flush(epoch + 1).kind = "flush" /\ Flush(epoch + 1).epoch = epoch + 1
    BY DEF Flush
  <2>5. \A i \in 1..Len(output'.items) : output'.items[i] = Flush(epoch + 1)
    BY <2>2
  <2>6. \A i \in 1..Len(output'.items) :
           /\ output'.items[i].kind = "pcm" => epoch' <= output'.items[i].epoch
           /\ output'.items[i].kind = "flush" => output'.items[i].epoch <= epoch'
    BY <1>1, <2>3, <2>4, <2>5
  <2> QED
    BY <1>1, <2>2, <2>3, <2>6 DEF OutputInv
<1>4. CASE CancelStep
  <2>1. UNCHANGED <<epoch, flushed>> /\ output' \in Outputs
        /\ output'.items = output.items /\ output'.epoch = output.epoch
    BY <1>1, <1>4, ConsumerOutput DEF CancelStep
  <2> QED
    BY <2>1 DEF OutputInv
<1>5. CASE DrainWaits
  <2>1. UNCHANGED <<epoch, flushed>> /\ output' \in Outputs
        /\ output'.items = output.items /\ output'.epoch = output.epoch
    BY <1>1, <1>5, ConsumerOutput DEF DrainWaits
  <2> QED
    BY <2>1 DEF OutputInv
<1>6. CASE DrainPasses /\ PopsNothing(output, "drain")
  <2>1. UNCHANGED <<epoch, flushed>> /\ output' \in Outputs
        /\ output'.items = output.items /\ output'.epoch = output.epoch
    BY <1>1, <1>6, ConsumerOutput DEF DrainPasses
  <2> QED
    BY <2>1 DEF OutputInv
<1>7. CASE DrainPasses /\ ~PopsNothing(output, "drain")
  <2> DEFINE x == Head(output.items)
  <2>1. output.items # <<>>
    BY <1>7 DEF DrainPasses, MayPass, PopsNothing
  <2>2. UNCHANGED epoch /\ output' = PoppedBy(output, "drain")
        /\ flushed' = IF x.kind = "flush" THEN x.epoch ELSE flushed
    BY <1>7 DEF DrainPasses
  <2>3. output' \in Outputs /\ output'.items = Tail(output.items) /\ output'.epoch = epoch
    BY <1>1, <2>1, <2>2, ConsumerOutput
  <2>4. /\ Len(output.items) \in Nat \ {0} /\ x = output.items[1]
        /\ Len(output'.items) = Len(output.items) - 1
        /\ \A i \in 1..Len(output'.items) : /\ i + 1 \in 1..Len(output.items)
                                            /\ output'.items[i] = output.items[i + 1]
    BY <1>1, <2>1, <2>3
  <2>5. x \in Item /\ (x.kind = "flush" => x.epoch \in Nat /\ x.epoch <= epoch)
    <3>1. x \in Item /\ 1 \in 1..Len(output.items)
      BY <1>1, <2>4
    <3>2. x.kind = "flush" => x.epoch <= epoch
      BY <2>4, <3>1 DEF OutputInv
    <3> QED
      BY <3>1, <3>2 DEF Item
  <2>6. \A i \in 1..Len(output'.items) :
           /\ output'.items[i].kind = "pcm" => epoch <= output'.items[i].epoch
           /\ output'.items[i].kind = "flush" => output'.items[i].epoch <= epoch
    BY <2>4 DEF OutputInv
  <2> HIDE DEF x
  <2> QED
    BY <1>1, <2>2, <2>3, <2>5, <2>6 DEF OutputInv
<1>8. CASE UNCHANGED outputVars
  BY <1>8 DEF OutputInv, outputVars
<1> QED
  BY <1>2, <1>3, <1>4, <1>5, <1>6, <1>7, <1>8, OutputSteps DEF DrainStep

(* Once the drain has taken the flush of an interruption, it passes on no  *)
(* audio of an older epoch, though a swallowed cancellation, a thread or a *)
(* queued event may still carry some: what a task emits is of the current  *)
(* epoch, and advance_epoch empties the queue before it puts the flush.    *)
THEOREM NothingFollowsFlush == DuplexSpec => NothingAfterFlush
<1>1. ASSUME LockInv, OutputInv, [DuplexNext]_duplexVars, spoken' # spoken
      PROVE  spoken'.epoch >= flushed
  <2>1. DrainPasses /\ ~PopsNothing(output, "drain")
    BY <1>1, OutputSteps
    DEF EmitStep, AdvanceStep, CancelStep, DrainStep, DrainWaits, DrainPasses, outputVars
  <2>2. output.items # <<>>
    BY <2>1 DEF DrainPasses, MayPass, PopsNothing
  <2>3. output.items[1] \in Item /\ Head(output.items) = output.items[1] /\ 1 <= Len(output.items)
    BY <1>1, <2>2 DEF OutputInv, Outputs
  <2>4. spoken' = output.items[1] /\ output.items[1].kind = "pcm"
    BY <1>1, <2>1, <2>3 DEF DrainPasses
  <2>5. epoch <= output.items[1].epoch /\ flushed <= epoch
    BY <1>1, <2>3, <2>4 DEF OutputInv, Outputs
  <2>6. output.items[1].epoch \in Nat /\ epoch \in Nat /\ flushed \in Nat
    BY <1>1, <2>3 DEF Item, OutputInv, LockInv, SpeechTyped
  <2> QED
    BY <2>4, <2>5, <2>6
<1>2. LockInv /\ OutputInv /\ [DuplexNext]_duplexVars
      => [spoken' # spoken => spoken'.epoch >= flushed]_duplexVars
  BY <1>1
<1> QED
  BY <1>2, LockInvInit, LockInvStep, OutputInvInit, OutputInvStep, PTL
  DEF DuplexSpec, NothingAfterFlush

-----------------------------------------------------------------------------
(* The drain task, where no socket may send cancel or epoch.               *)

LEMMA AliveInvStep ==
    ASSUME ~MaySend, LockInv, OutputInv, AliveInv, [DuplexNext]_duplexVars
    PROVE  AliveInv'
<1>1. output \in Outputs /\ output.items \in Seq(Item) /\ epoch \in Nat /\ output.epoch = epoch
  BY DEF LockInv, SpeechTyped, OutputInv, Outputs
<1>2. CASE EmitStep
  <2>1. PICK x \in Item : output' = Emitted(x)
    BY <1>2 DEF EmitStep
  <2>2. output' = output \/ output'.items = Append(output.items, x)
    BY <1>1, <2>1, EnqueuedOutput DEF Emitted
  <2>3. Append(output.items, x) # <<>>
    BY <1>1
  <2>4. drain' = drain
    BY <1>2 DEF EmitStep
  <2> QED
    BY <2>2, <2>3, <2>4 DEF AliveInv, DrainAlive
<1>3. CASE AdvanceStep
  <2>1. output' = OutputAfter(TRUE) /\ drain' = drain
    BY <1>3 DEF AdvanceStep
  <2>2. output'.items = <<Flush(epoch + 1)>>
    BY <1>1, <2>1, OutputAfterAdvance
  <2>3. \A x : <<x>> # <<>>
    OBVIOUS
  <2>4. output'.items # <<>>
    BY <2>2, <2>3, Zenon
  <2> QED
    BY <2>1, <2>4 DEF AliveInv, DrainAlive
<1>4. CASE CancelStep
  BY <1>1, <1>4, ConsumerOutput DEF CancelStep, AliveInv, DrainAlive
<1>5. CASE DrainWaits
  BY <1>1, <1>5, ConsumerOutput DEF DrainWaits, AliveInv, DrainAlive
<1>6. CASE DrainPasses
  <2>1. ~PopsNothing(output, "drain") /\ output.items # <<>>
    BY <1>6 DEF AliveInv, PopsNothing, DrainPasses, MayPass
  <2>2. drain' = drain /\ output' = PoppedBy(output, "drain")
    BY <1>6, <2>1 DEF DrainPasses
  <2> QED
    BY <1>1, <2>1, <2>2, ConsumerOutput DEF AliveInv, DrainAlive
<1>7. CASE UNCHANGED outputVars
  BY <1>7 DEF AliveInv, DrainAlive, outputVars
<1> QED
  BY <1>2, <1>3, <1>4, <1>5, <1>6, <1>7, OutputSteps DEF DrainStep

(* Where only control messages interrupt, the drain task never dies of an  *)
(* emptied queue: the flush stands in it before the task runs again.  With *)
(* a socket's cancel or epoch it may (runtime/queues.py:58).               *)
THEOREM DrainStaysAlive ==
    ASSUME ~MaySend
    PROVE  DuplexSpec => []DrainAlive
<1>1. LockInv /\ OutputInv /\ AliveInv /\ [DuplexNext]_duplexVars
      => LockInv' /\ OutputInv' /\ AliveInv'
  BY LockInvStep, OutputInvStep, AliveInvStep
<1>2. AliveInv => DrainAlive
  BY DEF AliveInv
<1> QED
  BY <1>1, <1>2, LockInvInit, OutputInvInit, PTL DEF DuplexSpec

-----------------------------------------------------------------------------
(* The dialogue.                                                           *)

EvenLimit == \E h \in Nat : HistoryLimit = 2 * h

(* Exchanges, as many as the limit allows.                                 *)
PairsInv ==
    \E n \in Nat :
        /\ history \in Seq([role : {"user", "assistant"}, turn : Turns])
        /\ Len(history) = 2 * n /\ Len(history) <= HistoryLimit
        /\ \A k \in 1..n :
              /\ history[2 * k].role = "assistant"
              /\ history[2 * k - 1] = Message("user", history[2 * k].turn)

LEMMA PairsInvInit == DuplexInit => PairsInv
<1> SUFFICES ASSUME DuplexInit PROVE PairsInv
  OBVIOUS
<1>1. history = <<>> /\ HistoryLimit >= 2 /\ HistoryLimit \in Nat
  BY SpeechAssumption DEF DuplexInit, WorkerInit, SpeechInit
<1>2. Len(history) = 2 * 0 /\ history \in Seq([role : {"user", "assistant"}, turn : Turns])
  BY <1>1
<1> QED
  BY <1>1, <1>2 DEF PairsInv

LEMMA PairsAreInPairs == PairsInv => HistoryInPairs
<1> SUFFICES ASSUME PairsInv, NEW i \in DOMAIN history, history[i].role = "assistant"
             PROVE  i > 1 /\ history[i - 1] = Message("user", history[i].turn)
  BY DEF HistoryInPairs
<1>1. PICK n \in Nat :
        /\ history \in Seq([role : {"user", "assistant"}, turn : Turns])
        /\ Len(history) = 2 * n
        /\ \A k \in 1..n :
              /\ history[2 * k].role = "assistant"
              /\ history[2 * k - 1] = Message("user", history[2 * k].turn)
  BY DEF PairsInv
<1>2. i \in 1..(2 * n)
  BY <1>1
<1>3. PICK k \in 1..n : i = 2 * k \/ i = 2 * k - 1
  <2>1. \E k \in 1..n : i = 2 * k \/ i = 2 * k - 1
    <3>1. (i + 1) \div 2 \in 1..n /\ (i = 2 * ((i + 1) \div 2) \/ i = 2 * ((i + 1) \div 2) - 1)
      BY <1>2
    <3> QED
      BY <3>1
  <2> QED
    BY <2>1
<1>4. CASE i = 2 * k
  BY <1>1, <1>3, <1>4
<1>5. CASE i = 2 * k - 1
  <2>1. history[i] = Message("user", history[2 * k].turn)
    BY <1>1, <1>3, <1>5
  <2>2. history[i].role = "user"
    BY <2>1 DEF Message
  <2> QED
    BY <2>2
<1> QED
  BY <1>3, <1>4, <1>5
(* What a turn that ends adds, before the oldest is forgotten.             *)
Exchange(t) == <<Message("user", t), Message("assistant", t)>>

LEMMA HistorySteps ==
    ASSUME [DuplexNext]_duplexVars
    PROVE  UNCHANGED history \/ \E t \in Turns : history' = Trimmed(history \o Exchange(t))
<1>1. ASSUME NEW t \in Turns, TurnStep(t)
      PROVE  history' = history \/ history' = Trimmed(history \o Exchange(t))
  BY <1>1 DEF TurnStep, PieceArrives, StreamEnds, StreamFails, Exchange
<1>2. ASSUME NEW s \in Sentences, SpeechStep(s)
      PROVE  UNCHANGED history
  BY <1>2 DEF SpeechStep, TaskStep, SpeechStarts, LockGranted, ChunkArrives, PushReturns,
              DoomedEnds, GeneratorsClose, ThreadReturns
<1>3. ASSUME RunStep
      PROVE  UNCHANGED history
  BY <1>3 DEF RunStep, HandleControl, HandleFrame, LoopEnds, AdvanceEpoch, Noticed, Recognised,
              speechVars
<1>4. ASSUME NEW k \in Sockets, SocketStep(k)
      PROVE  UNCHANGED history
  BY <1>4 DEF SocketStep, Connects, SenderStep, SenderWaits, SenderTakes, Mic, PushFrame,
              BargeIn, AdvanceEpoch, Leaves, StopBegins, workerVars, speechVars
<1>5. ASSUME DrainStep \/ StopBegins({}) \/ StopEnds \/ UNCHANGED duplexVars
      PROVE  UNCHANGED history
  BY <1>5 DEF DrainStep, DrainWaits, DrainPasses, StopBegins, StopEnds, StopWorker,
              duplexVars, workerVars, speechVars
<1>6. ASSUME NEW i \in Intents, PushControl(i)
      PROVE  UNCHANGED history
  BY <1>6 DEF PushControl, speechVars
<1> QED
  BY <1>1, <1>2, <1>3, <1>4, <1>5, <1>6 DEF DuplexNext

LEMMA PairsInvStep ==
    ASSUME EvenLimit, PairsInv, [DuplexNext]_duplexVars
    PROVE  PairsInv'
<1> DEFINE Messages == [role : {"user", "assistant"}, turn : Turns]
<1>1. CASE UNCHANGED history
  BY <1>1 DEF PairsInv
<1>2. ASSUME NEW t \in Turns, history' = Trimmed(history \o Exchange(t))
      PROVE  PairsInv'
  <2>1. PICK m \in Nat : HistoryLimit = 2 * m
    BY DEF EvenLimit
  <2>2. m >= 1
    BY <2>1, SpeechAssumption
  <2>3. PICK n \in Nat :
          /\ history \in Seq(Messages)
          /\ Len(history) = 2 * n /\ Len(history) <= HistoryLimit
          /\ \A k \in 1..n :
                /\ history[2 * k].role = "assistant"
                /\ history[2 * k - 1] = Message("user", history[2 * k].turn)
    BY DEF PairsInv
  <2>4. /\ Message("user", t) \in Messages /\ Message("assistant", t) \in Messages
        /\ Message("assistant", t).role = "assistant" /\ Message("assistant", t).turn = t
    BY DEF Message
  <2> DEFINE h == history \o Exchange(t)
  <2> HIDE DEF Messages
  <2>5. /\ h \in Seq(Messages) /\ Len(h) = 2 * n + 2
        /\ \A i \in 1..(2 * n) : h[i] = history[i]
        /\ h[2 * n + 1] = Message("user", t) /\ h[2 * n + 2] = Message("assistant", t)
    <3>1. /\ Exchange(t) \in Seq(Messages) /\ Len(Exchange(t)) = 2
          /\ Exchange(t)[1] = Message("user", t) /\ Exchange(t)[2] = Message("assistant", t)
      BY <2>4 DEF Exchange
    <3>2. ASSUME NEW a \in Seq(Messages), NEW b \in Seq(Messages), Len(b) = 2
          PROVE  /\ a \o b \in Seq(Messages) /\ Len(a \o b) = Len(a) + 2
                 /\ \A i \in 1..Len(a) : (a \o b)[i] = a[i]
                 /\ (a \o b)[Len(a) + 1] = b[1] /\ (a \o b)[Len(a) + 2] = b[2]
      <4>1. a \o b \in Seq(Messages) /\ Len(a \o b) = Len(a) + Len(b) /\ Len(a) \in Nat
        OBVIOUS
      <4>2. \A i \in 1..(Len(a) + Len(b)) :
               (a \o b)[i] = IF i <= Len(a) THEN a[i] ELSE b[i - Len(a)]
        BY <4>1
      <4> QED
        BY <3>2, <4>1, <4>2
    <3>3. /\ h \in Seq(Messages) /\ Len(h) = Len(history) + 2
          /\ \A i \in 1..Len(history) : h[i] = history[i]
          /\ h[Len(history) + 1] = Message("user", t)
          /\ h[Len(history) + 2] = Message("assistant", t)
      BY <2>3, <3>1, <3>2
    <3> HIDE DEF h
    <3> QED
      BY <2>3, <3>3
  <2> HIDE DEF h
  <2>6. \A k \in 1..(n + 1) :
           /\ h[2 * k].role = "assistant"
           /\ h[2 * k - 1] = Message("user", h[2 * k].turn)
    <3> SUFFICES ASSUME NEW k \in 1..(n + 1)
                 PROVE  /\ h[2 * k].role = "assistant"
                        /\ h[2 * k - 1] = Message("user", h[2 * k].turn)
      OBVIOUS
    <3>1. CASE k = n + 1
      <4>1. h[2 * k] = Message("assistant", t) /\ h[2 * k - 1] = Message("user", t)
        BY <2>5, <3>1
      <4> QED
        BY <2>4, <4>1
    <3>2. CASE k \in 1..n
      <4>1. h[2 * k] = history[2 * k] /\ h[2 * k - 1] = history[2 * k - 1]
        BY <2>5, <3>2
      <4> QED
        BY <2>3, <3>2, <4>1
    <3> QED
      BY <3>1, <3>2
  <2>7. CASE n < m
    <3>1. history' = h
      BY <1>2, <2>1, <2>5, <2>7 DEF Trimmed, h
    <3>2. /\ history' \in Seq(Messages) /\ Len(history') = 2 * (n + 1) /\ n + 1 \in Nat
          /\ Len(history') <= HistoryLimit
      BY <2>1, <2>5, <2>7, <3>1
    <3> QED
      BY <2>6, <3>1, <3>2 DEF PairsInv, Messages
  <2>8. CASE n = m
    <3>1. history' = SubSeq(h, 3, 2 * n + 2)
      <4>1. Len(h) > HistoryLimit /\ Len(h) - HistoryLimit + 1 = 3
        BY <2>1, <2>5, <2>8
      <4>2. history' = Trimmed(h)
        BY <1>2, Zenon DEF h
      <4>3. Trimmed(h) = SubSeq(h, Len(h) - HistoryLimit + 1, Len(h))
        BY <4>1, Zenon DEF Trimmed
      <4> QED
        BY <2>5, <4>1, <4>2, <4>3
    <3>2. /\ history' \in Seq(Messages) /\ Len(history') = 2 * n
          /\ \A i \in 1..(2 * n) : history'[i] = h[i + 2]
      BY <2>2, <2>5, <2>8, <3>1
    <3>3. \A k \in 1..n : /\ history'[2 * k] = h[2 * (k + 1)]
                          /\ history'[2 * k - 1] = h[2 * (k + 1) - 1]
      <4> SUFFICES ASSUME NEW k \in 1..n
                   PROVE  /\ history'[2 * k] = h[2 * (k + 1)]
                          /\ history'[2 * k - 1] = h[2 * (k + 1) - 1]
        OBVIOUS
      <4>1. /\ 2 * k \in 1..(2 * n) /\ 2 * k - 1 \in 1..(2 * n)
            /\ 2 * k + 2 = 2 * (k + 1) /\ 2 * k - 1 + 2 = 2 * (k + 1) - 1
        OBVIOUS
      <4> QED
        BY <3>2, <4>1
    <3>4. \A k \in 1..n : /\ history'[2 * k].role = "assistant"
                          /\ history'[2 * k - 1] = Message("user", history'[2 * k].turn)
      <4>1. \A k \in 1..n : k + 1 \in 1..(n + 1)
        OBVIOUS
      <4> QED
        BY <2>6, <3>3, <4>1
    <3>5. Len(history') <= HistoryLimit
      BY <2>1, <2>8, <3>2
    <3> QED
      BY <3>2, <3>4, <3>5 DEF PairsInv, Messages
  <2>9. n <= m
    BY <2>1, <2>3
  <2> QED
    BY <2>7, <2>8, <2>9
<1> QED
  BY <1>1, <1>2, HistorySteps

(* What is remembered of the dialogue is whole exchanges, whichever turns  *)
(* end or are cut, as long as the limit is even, as its default is.        *)
THEOREM HistoryKeepsPairs ==
    ASSUME EvenLimit
    PROVE  DuplexSpec => []HistoryInPairs
<1>1. PairsInv /\ [DuplexNext]_duplexVars => PairsInv'
  BY PairsInvStep
<1> QED
  BY <1>1, PairsInvInit, PairsAreInPairs, PTL DEF DuplexSpec
-----------------------------------------------------------------------------
(* The order of the sentences.                                             *)

(* Of two sentences of one turn, u comes first.                            *)
Ahead(u, v) == u[1] = v[1] => u[2] < v[2]

NotBehind(u, v) == u[1] = v[1] => u[2] <= v[2]

(* Who holds the lock, waits for it, and is still to be started, stand in  *)
(* this order in one line: a task joins its end and leaves anywhere, but   *)
(* never overtakes.                                                        *)
LineInv ==
    /\ \A i, j \in 1..Len(ready) : i < j => Ahead(ready[i], ready[j])
    /\ \A i, j \in 1..Len(lock.queue) : i < j => Ahead(lock.queue[i], lock.queue[j])
    /\ \A i \in 1..Len(lock.queue), j \in 1..Len(ready) : Ahead(lock.queue[i], ready[j])
    /\ lock.holder # None =>
          /\ \A i \in 1..Len(lock.queue) : Ahead(lock.holder, lock.queue[i])
          /\ \A j \in 1..Len(ready) : Ahead(lock.holder, ready[j])

InLine(s) ==
    \/ s = lock.holder
    \/ \E i \in 1..Len(lock.queue) : s = lock.queue[i]
    \/ \E i \in 1..Len(ready) : s = ready[i]

(* The audio x is heard before y.                                          *)
Sooner(x, y) ==
    x.of[1] = y.of[1] => x.of[2] < y.of[2] \/ (x.of = y.of /\ x.chunk < y.chunk)

(* Of the sentence of x there is as much as x, and nobody in the line is   *)
(* of an earlier one.                                                      *)
Due(x) ==
    /\ x.of \in Sentences
    /\ speech[x.of].at # "none"
    /\ x.chunk <= speech[x.of].chunk
    /\ \A s \in Sentences : InLine(s) => NotBehind(x.of, s)

Speech(i) == i \in 1..Len(output.items) /\ output.items[i].kind = "pcm"

SaidInv ==
    /\ spoken \in Item \cup {None}
    /\ spoken # None => Due(spoken)
    /\ \A i \in 1..Len(output.items) : Speech(i) =>
          /\ Due(output.items[i])
          /\ spoken # None => Sooner(spoken, output.items[i])
          /\ \A j \in 1..(i - 1) : Speech(j) => Sooner(output.items[j], output.items[i])
LEMMA SentenceParts ==
    \A s \in Sentences : s[1] \in Turns /\ s[2] \in Nat \ {0} /\ s = <<s[1], s[2]>>
<1> SUFFICES ASSUME NEW s \in Sentences
             PROVE  s[1] \in Turns /\ s[2] \in Nat \ {0} /\ s = <<s[1], s[2]>>
  OBVIOUS
<1>1. PICK t \in Turns : s \in {t} \X (1..Pieces[t])
  BY DEF Sentences
<1>2. PICK n \in 1..Pieces[t] : s = <<t, n>>
  BY <1>1
<1>3. Pieces[t] \in Nat
  BY SpeechAssumption
<1> QED
  BY <1>2, <1>3

LEMMA AheadNotBehind ==
    \A u, v \in Sentences : Ahead(u, v) => NotBehind(u, v)
BY SentenceParts DEF Ahead, NotBehind

(* What a step does to the line.                                           *)
Joins(s) ==
    /\ speech[s].at = "none"
    /\ \A u \in Sentences : speech[u].at # "none" => Ahead(u, s)
    /\ ready' = Append(ready, s)
    /\ UNCHANGED lock

FirstStarts ==
    /\ ready # <<>> /\ ready' = Tail(ready)
    /\ \/ UNCHANGED lock
       \/ lock' = [lock EXCEPT !.queue = Append(@, Head(ready))]
       \/ LockFree /\ lock' = [lock EXCEPT !.holder = Head(ready)]

FirstGranted ==
    /\ lock.holder = None /\ lock.queue # <<>>
    /\ \E h \in {None, Head(lock.queue)} : lock' = [holder |-> h, queue |-> Tail(lock.queue)]
    /\ UNCHANGED ready

HolderMayGo ==
    /\ lock'.queue = lock.queue /\ lock'.holder \in {None, lock.holder}
    /\ UNCHANGED ready

LineCancelled ==
    /\ ready' = <<>>
    /\ lock'.queue = <<>> /\ lock'.holder \in {None, lock.holder}

LineStep ==
    \/ \E s \in Sentences : Joins(s)
    \/ FirstStarts
    \/ FirstGranted
    \/ HolderMayGo
    \/ LineCancelled

(* Who is in the line has a task.                                          *)
LEMMA InLineHasTask ==
    ASSUME LockInv, NEW s \in Sentences, InLine(s)
    PROVE  speech[s].at # "none"
BY DEF LockInv, LockMatchesSynthesis, ReadyStarting, QueueWaiting, InLine

LEMMA JoinsKeeps ==
    ASSUME LockInv, LineInv, NEW s \in Sentences, Joins(s)
    PROVE  /\ LineInv'
           /\ \A u \in Sentences : InLine(u)' => InLine(u) \/ u = s
<1>1. /\ ready \in Seq(Sentences) /\ Len(ready) \in Nat
      /\ lock.queue \in Seq(Sentences) /\ lock.holder \in Sentences \cup {None}
      /\ \A i \in 1..Len(ready) : ready[i] \in Sentences
      /\ \A i \in 1..Len(lock.queue) : lock.queue[i] \in Sentences
  BY DEF LockInv, SpeechTyped
<1>2. /\ Len(ready') = Len(ready) + 1 /\ ready'[Len(ready) + 1] = s /\ lock' = lock
      /\ \A i \in 1..Len(ready) : ready'[i] = ready[i]
      /\ \A i \in 1..Len(ready') : i \in 1..Len(ready) \/ i = Len(ready) + 1
  BY <1>1 DEF Joins
<1>3. \A u \in Sentences : InLine(u) => Ahead(u, s)
  BY InLineHasTask DEF Joins
<1>4. \A i \in 1..Len(ready) : Ahead(ready[i], s)
  BY <1>1, <1>3 DEF InLine
<1>5. \A i, j \in 1..Len(ready') : i < j => Ahead(ready'[i], ready'[j])
  <2> SUFFICES ASSUME NEW i \in 1..Len(ready'), NEW j \in 1..Len(ready'), i < j
               PROVE  Ahead(ready'[i], ready'[j])
    OBVIOUS
  <2>1. i \in 1..Len(ready)
    BY <1>1, <1>2
  <2>2. CASE j \in 1..Len(ready)
    BY <1>2, <2>1, <2>2 DEF LineInv
  <2>3. CASE j = Len(ready) + 1
    BY <1>2, <1>4, <2>1, <2>3
  <2> QED
    BY <1>2, <2>2, <2>3
<1>6. \A i \in 1..Len(lock.queue), j \in 1..Len(ready') : Ahead(lock.queue[i], ready'[j])
  <2>1. \A i \in 1..Len(lock.queue) : Ahead(lock.queue[i], s)
    BY <1>1, <1>3 DEF InLine
  <2> QED
    BY <1>2, <2>1 DEF LineInv
<1>7. lock.holder # None => \A j \in 1..Len(ready') : Ahead(lock.holder, ready'[j])
  <2>1. lock.holder # None => Ahead(lock.holder, s)
    BY <1>1, <1>3 DEF InLine
  <2> QED
    BY <1>2, <2>1 DEF LineInv
<1>8. LineInv'
  BY <1>2, <1>5, <1>6, <1>7 DEF LineInv
<1>9. \A u \in Sentences : InLine(u)' => InLine(u) \/ u = s
  BY <1>2 DEF InLine
<1> QED
  BY <1>8, <1>9

LEMMA FirstStartsKeeps ==
    ASSUME LockInv, LineInv, FirstStarts
    PROVE  /\ LineInv'
           /\ \A u \in Sentences : InLine(u)' => InLine(u)
<1> DEFINE s == Head(ready)
<1>1. /\ ready \in Seq(Sentences) /\ Len(ready) \in Nat \ {0} /\ s = ready[1]
      /\ lock \in [holder : Sentences \cup {None}, queue : Seq(Sentences)]
      /\ Len(lock.queue) \in Nat /\ s \in Sentences
  BY DEF LockInv, SpeechTyped, FirstStarts
<1>2. /\ Len(ready') = Len(ready) - 1
      /\ \A i \in 1..Len(ready') : i + 1 \in 1..Len(ready) /\ ready'[i] = ready[i + 1]
      /\ 1 \in 1..Len(ready)
  BY <1>1 DEF FirstStarts
<1>3. \A i \in 1..Len(ready') : Ahead(s, ready'[i])
  <2>1. \A i \in 1..Len(ready') : 1 < i + 1
    BY <1>1, <1>2
  <2> QED
    BY <1>1, <1>2, <2>1 DEF LineInv
<1>4. \A i, j \in 1..Len(ready') : i < j => Ahead(ready'[i], ready'[j])
  <2> SUFFICES ASSUME NEW i \in 1..Len(ready'), NEW j \in 1..Len(ready'), i < j
               PROVE  Ahead(ready'[i], ready'[j])
    OBVIOUS
  <2>1. i + 1 \in 1..Len(ready) /\ j + 1 \in 1..Len(ready) /\ i + 1 < j + 1
    BY <1>1, <1>2
  <2>2. Ahead(ready[i + 1], ready[j + 1])
    BY <2>1 DEF LineInv
  <2> QED
    BY <1>2, <2>2
<1>5. \A i \in 1..Len(lock.queue), j \in 1..Len(ready') : Ahead(lock.queue[i], ready'[j])
  BY <1>2 DEF LineInv
<1>6. lock.holder # None => \A j \in 1..Len(ready') : Ahead(lock.holder, ready'[j])
  BY <1>2 DEF LineInv
<1>7. \A u : (\E i \in 1..Len(ready') : u = ready'[i]) => (\E i \in 1..Len(ready) : u = ready[i])
  BY <1>2
<1>8. \E i \in 1..Len(ready) : s = ready[i]
  BY <1>1, <1>2
<1> HIDE DEF s
<1>9. CASE lock' = lock
  <2>1. LineInv'
    BY <1>4, <1>5, <1>6, <1>9 DEF LineInv
  <2> QED
    BY <1>7, <1>9, <2>1 DEF InLine
<1>10. CASE lock' = [lock EXCEPT !.queue = Append(@, s)]
  <2>1. /\ lock'.holder = lock.holder /\ Len(lock'.queue) = Len(lock.queue) + 1
        /\ lock'.queue[Len(lock.queue) + 1] = s
        /\ \A i \in 1..Len(lock.queue) : lock'.queue[i] = lock.queue[i]
    BY <1>1, <1>10
  <2>2. \A i \in 1..Len(lock'.queue) : i \in 1..Len(lock.queue) \/ i = Len(lock.queue) + 1
    BY <1>1, <2>1
  <2>3. \A i \in 1..Len(lock.queue) : Ahead(lock.queue[i], s)
    BY <1>8 DEF LineInv
  <2>4. \A i, j \in 1..Len(lock'.queue) : i < j => Ahead(lock'.queue[i], lock'.queue[j])
    <3> SUFFICES ASSUME NEW i \in 1..Len(lock'.queue), NEW j \in 1..Len(lock'.queue), i < j
                 PROVE  Ahead(lock'.queue[i], lock'.queue[j])
      OBVIOUS
    <3>1. i \in 1..Len(lock.queue)
      BY <1>1, <2>1
    <3>2. CASE j \in 1..Len(lock.queue)
      BY <2>1, <3>1, <3>2 DEF LineInv
    <3>3. CASE j = Len(lock.queue) + 1
      BY <2>1, <2>3, <3>1, <3>3
    <3> QED
      BY <2>2, <3>2, <3>3
  <2>5. \A i \in 1..Len(lock'.queue), j \in 1..Len(ready') : Ahead(lock'.queue[i], ready'[j])
    BY <1>3, <1>5, <2>1, <2>2
  <2>6. lock.holder # None => Ahead(lock.holder, s)
    BY <1>8 DEF LineInv
  <2>7. lock'.holder # None => \A i \in 1..Len(lock'.queue) : Ahead(lock'.holder, lock'.queue[i])
    BY <2>1, <2>2, <2>6 DEF LineInv
  <2>8. LineInv'
    BY <1>4, <1>6, <2>1, <2>4, <2>5, <2>7 DEF LineInv
  <2>9. \A u \in Sentences : InLine(u)' => InLine(u)
    BY <1>7, <1>8, <2>1, <2>2 DEF InLine
  <2> QED
    BY <2>8, <2>9
<1>11. CASE LockFree /\ lock' = [lock EXCEPT !.holder = s]
  <2>1. lock'.holder = s /\ lock'.queue = <<>> /\ Len(lock'.queue) = 0
    BY <1>1, <1>11 DEF LockFree
  <2>2. LineInv'
    BY <1>3, <1>4, <2>1 DEF LineInv
  <2>3. \A u \in Sentences : InLine(u)' => InLine(u)
    BY <1>7, <1>8, <2>1 DEF InLine
  <2> QED
    BY <2>2, <2>3
<1> QED
  BY <1>9, <1>10, <1>11 DEF FirstStarts, s

LEMMA FirstGrantedKeeps ==
    ASSUME LockInv, LineInv, FirstGranted
    PROVE  /\ LineInv'
           /\ \A u \in Sentences : InLine(u)' => InLine(u)
<1> DEFINE s == Head(lock.queue)
<1>1. /\ lock.queue \in Seq(Sentences) /\ Len(lock.queue) \in Nat \ {0}
      /\ s = lock.queue[1] /\ 1 \in 1..Len(lock.queue)
  BY DEF LockInv, SpeechTyped, FirstGranted
<1>2. /\ lock'.holder \in {None, s} /\ lock'.queue = Tail(lock.queue) /\ ready' = ready
  BY DEF FirstGranted
<1>3. /\ Len(lock'.queue) = Len(lock.queue) - 1
      /\ \A i \in 1..Len(lock'.queue) : /\ i + 1 \in 1..Len(lock.queue)
                                        /\ lock'.queue[i] = lock.queue[i + 1]
  BY <1>1, <1>2
<1>4. \A i \in 1..Len(lock'.queue) : Ahead(s, lock'.queue[i])
  <2>1. \A i \in 1..Len(lock'.queue) : 1 < i + 1
    BY <1>1, <1>3
  <2> QED
    BY <1>1, <1>3, <2>1 DEF LineInv
<1>5. \A i, j \in 1..Len(lock'.queue) : i < j => Ahead(lock'.queue[i], lock'.queue[j])
  <2> SUFFICES ASSUME NEW i \in 1..Len(lock'.queue), NEW j \in 1..Len(lock'.queue), i < j
               PROVE  Ahead(lock'.queue[i], lock'.queue[j])
    OBVIOUS
  <2>1. i + 1 \in 1..Len(lock.queue) /\ j + 1 \in 1..Len(lock.queue) /\ i + 1 < j + 1
    BY <1>1, <1>3
  <2>2. Ahead(lock.queue[i + 1], lock.queue[j + 1])
    BY <2>1 DEF LineInv
  <2> QED
    BY <1>3, <2>2
<1>6. \A i \in 1..Len(lock'.queue), j \in 1..Len(ready) : Ahead(lock'.queue[i], ready[j])
  BY <1>3 DEF LineInv
<1>7. \A j \in 1..Len(ready) : Ahead(s, ready[j])
  BY <1>1 DEF LineInv
<1>8. /\ \A u : (\E i \in 1..Len(lock'.queue) : u = lock'.queue[i])
                => (\E i \in 1..Len(lock.queue) : u = lock.queue[i])
      /\ \E i \in 1..Len(lock.queue) : s = lock.queue[i]
  BY <1>1, <1>3
<1> HIDE DEF s
<1>9. LineInv'
  BY <1>2, <1>4, <1>5, <1>6, <1>7 DEF LineInv
<1>10. \A u \in Sentences : InLine(u)' => InLine(u)
  BY <1>2, <1>8, NoneIsNoSentence DEF InLine
<1> QED
  BY <1>9, <1>10

LEMMA LineInvStep ==
    ASSUME LockInv, LineInv, LineStep
    PROVE  /\ LineInv'
           /\ \/ \A u \in Sentences : InLine(u)' => InLine(u)
              \/ \E s \in Sentences :
                    Joins(s) /\ \A u \in Sentences : InLine(u)' => InLine(u) \/ u = s
<1>1. CASE \E s \in Sentences : Joins(s)
  BY <1>1, JoinsKeeps
<1>2. CASE HolderMayGo
  <2>1. LineInv'
    BY <1>2 DEF HolderMayGo, LineInv
  <2>2. \A u \in Sentences : InLine(u)' => InLine(u)
    BY <1>2, NoneIsNoSentence DEF HolderMayGo, InLine
  <2> QED
    BY <2>1, <2>2
<1>3. CASE LineCancelled
  <2>1. Len(ready') = 0 /\ Len(lock'.queue) = 0
    BY <1>3 DEF LineCancelled
  <2>2. LineInv'
    BY <2>1 DEF LineInv
  <2>3. \A u \in Sentences : InLine(u)' => InLine(u)
    BY <1>3, <2>1, NoneIsNoSentence DEF LineCancelled, InLine
  <2> QED
    BY <2>2, <2>3
<1> QED
  BY <1>1, <1>2, <1>3, FirstStartsKeeps, FirstGrantedKeeps DEF LineStep
-----------------------------------------------------------------------------
(* What a step does to the tasks and to what is said.                      *)

Progress ==
    \A u \in Sentences : speech[u].at # "none" =>
        speech'[u].at # "none" /\ speech[u].chunk <= speech'[u].chunk

(* No audio is added, whatever is removed.                                 *)
Quiet ==
    /\ UNCHANGED spoken
    /\ \A i \in 1..Len(output'.items) : output'.items[i].kind = "pcm" =>
          i \in 1..Len(output.items) /\ output'.items[i] = output.items[i]

(* Whoever holds the lock adds its next chunk.                             *)
Says(s) ==
    /\ lock.holder = s
    /\ output' = Emitted(Audio(s, speech[s].chunk + 1))
    /\ speech'[s].chunk = speech[s].chunk + 1
    /\ HolderMayGo
    /\ UNCHANGED spoken

Passes ==
    /\ DrainPasses /\ ~PopsNothing(output, "drain")
    /\ UNCHANGED <<speech, ready, lock>>

OrderStep ==
    /\ LineStep
    /\ Progress
    /\ Quiet \/ Passes \/ \E s \in Sentences : Says(s)

LEMMA NotesAreQuiet ==
    ASSUME LockInv, OutputInv, UNCHANGED spoken,
           output' = Emitted(Notice) \/ UNCHANGED output
    PROVE  Quiet
<1>1. output \in Outputs /\ epoch \in Nat /\ output.items \in Seq(Item)
  BY DEF LockInv, SpeechTyped, OutputInv, Outputs
<1>2. output' = output \/ output'.items = Append(output.items, Notice)
  BY <1>1, NoticeIsItem, EnqueuedOutput DEF Emitted
<1>3. CASE output'.items = Append(output.items, Notice)
  <2>1. \A i \in 1..Len(output'.items) :
           \/ i \in 1..Len(output.items) /\ output'.items[i] = output.items[i]
           \/ output'.items[i] = Notice
    BY <1>1, <1>3
  <2>2. Notice.kind # "pcm"
    BY DEF Notice
  <2> QED
    BY <2>1, <2>2 DEF Quiet
<1> QED
  BY <1>2, <1>3 DEF Quiet

(* A step of which neither the line nor the tasks' chunks know.            *)
LEMMA StillSteps ==
    ASSUME LockInv, UNCHANGED <<speech, ready, lock>>
    PROVE  LineStep /\ Progress
<1>1. LineStep
  BY DEF LineStep, HolderMayGo
<1>2. \A u \in Sentences : speech[u].chunk \in Nat
  BY DEF LockInv, SpeechTyped, Task
<1> QED
  BY <1>1, <1>2 DEF Progress

(* One task moves, with as many chunks or more.                            *)
LEMMA MoveProgress ==
    ASSUME LockInv, NEW s \in Sentences, NEW k \in Task,
           speech' = [speech EXCEPT ![s] = k],
           k.at # "none", speech[s].chunk <= k.chunk
    PROVE  Progress
<1>1. \A u \in Sentences : speech[u].chunk \in Nat
  BY DEF LockInv, SpeechTyped, Task
<1>2. \A u \in Sentences : speech'[u] = IF u = s THEN k ELSE speech[u]
  BY DEF LockInv, SpeechTyped
<1> QED
  BY <1>1, <1>2 DEF Progress

LEMMA DispatchOrder ==
    ASSUME LockInv, OutputInv, NEW s \in Sentences, NEW e \in Nat, DispatchTts(s, e),
           UNCHANGED lock, speech[s].at = "none",
           \A u \in Sentences : speech[u].at # "none" => Ahead(u, s)
    PROVE  LineStep /\ Progress
<1>1. Joins(s)
  BY DEF DispatchTts, Joins
<1>2. \A u \in Sentences : speech[u].chunk \in Nat
  BY DEF LockInv, SpeechTyped, Task
<1>3. \A u \in Sentences \ {s} : speech'[u] = speech[u]
  BY DEF DispatchTts, LockInv, SpeechTyped
<1> QED
  BY <1>1, <1>2, <1>3 DEF LineStep, Progress

LEMMA TurnOrder ==
    ASSUME LockInv, OutputInv, NEW t \in Turns, TurnStep(t), UNCHANGED spoken
    PROVE  OrderStep
<1>1. /\ output' = Emitted(Notice) \/ UNCHANGED output
      /\ UNCHANGED lock
  BY DEF TurnStep, PieceArrives, StreamEnds, StreamFails
<1>2. Quiet
  BY <1>1, NotesAreQuiet
<1>3. CASE UNCHANGED <<speech, ready>>
  BY <1>1, <1>2, <1>3, StillSteps DEF OrderStep
<1>4. CASE PieceArrives(t) /\ ~(Superseded(turns[t]) \/ ~running)
  <2> DEFINE n == turns[t].next
             s == <<t, n>>
  <2>1. turns[t] \in TurnTask /\ turns[t].at = "streaming" /\ n \in 1..Pieces[t] /\ n \in Nat
    BY <1>4, SpeechAssumption DEF LockInv, SpeechTyped, PieceArrives, TurnTask
  <2>2. s \in Sentences /\ turns[t].epoch \in Nat
    BY <2>1, SentenceOfTurn DEF TurnTask
  <2>3. DispatchTts(s, turns[t].epoch)
    BY <1>4 DEF PieceArrives
  <2>4. speech[s].at = "none"
    BY <2>1, <2>2 DEF LockInv, YetToCome
  <2>5. \A u \in Sentences : speech[u].at # "none" => Ahead(u, s)
    <3> SUFFICES ASSUME NEW u \in Sentences, speech[u].at # "none", u[1] = t
                 PROVE  u[2] < n
      BY DEF Ahead
    <3>1. u = <<t, u[2]>> /\ u[2] \in Nat
      BY SentenceParts
    <3> QED
      BY <2>1, <3>1 DEF LockInv, YetToCome
  <2> HIDE DEF s
  <2> QED
    BY <1>1, <1>2, <2>2, <2>3, <2>4, <2>5, DispatchOrder DEF OrderStep
<1>5. UNCHANGED <<speech, ready>> \/ (PieceArrives(t) /\ ~(Superseded(turns[t]) \/ ~running))
  BY DEF TurnStep, PieceArrives, StreamEnds, StreamFails
<1> QED
  BY <1>3, <1>4, <1>5

LEMMA RecognisedOrder ==
    ASSUME LockInv, OutputInv, NEW t \in Turns, Recognised(t), UNCHANGED spoken
    PROVE  OrderStep
<1>1. output' = Emitted(Notice) /\ UNCHANGED lock
  BY DEF Recognised
<1>2. Quiet
  BY <1>1, NotesAreQuiet
<1>3. CASE HasLlm
  BY <1>1, <1>2, <1>3, StillSteps DEF OrderStep, Recognised
<1>4. CASE ~HasLlm
  <2> DEFINE s == <<t, 1>>
  <2>1. s \in Sentences
    BY SpeechAssumption, SentenceOfTurn
  <2>2. DispatchTts(s, epoch) /\ epoch \in Nat /\ turns[t].at = "none"
    BY <1>4 DEF Recognised, LockInv, SpeechTyped
  <2>3. \A u \in Sentences : u[1] = t => speech[u].at = "none"
    <3> SUFFICES ASSUME NEW u \in Sentences, u[1] = t
                 PROVE  speech[u].at = "none"
      OBVIOUS
    <3>1. u = <<t, u[2]>> /\ u[2] \in Nat
      BY SentenceParts
    <3> QED
      BY <2>2, <3>1 DEF LockInv, YetToCome
  <2>4. speech[s].at = "none" /\ \A u \in Sentences : speech[u].at # "none" => Ahead(u, s)
    BY <2>1, <2>3 DEF Ahead
  <2> HIDE DEF s
  <2> QED
    BY <1>1, <1>2, <2>1, <2>2, <2>4, DispatchOrder DEF OrderStep
<1> QED
  BY <1>3, <1>4

(* A task of which only its place changes.                                 *)
LEMMA PlacedTask ==
    ASSUME NEW k \in Task, NEW p \in Places, NEW b \in BOOLEAN
    PROVE  /\ [k EXCEPT !.at = p, !.tracked = b] \in Task
           /\ [k EXCEPT !.at = p, !.tracked = b].at = p
           /\ [k EXCEPT !.at = p, !.tracked = b].chunk = k.chunk
           /\ k.chunk \in Nat /\ k.chunk <= k.chunk
<1>1. k.chunk \in Nat /\ k.chunk <= k.chunk
  BY DEF Task
<1>2. [k EXCEPT !.at = p, !.tracked = b] \in Task
  BY DEF Task
<1> QED
  BY <1>1, <1>2 DEF Task

(* So moves a task that gets no chunk.                                     *)
LEMMA MovedProgress ==
    ASSUME LockInv, NEW s \in Sentences, NEW p \in Places \ {"none"},
           NEW b \in BOOLEAN,
           speech' = [speech EXCEPT ![s].at = p, ![s].tracked = b]
    PROVE  Progress
<1> DEFINE j == [speech[s] EXCEPT !.at = p, !.tracked = b]
<1>1. speech \in [Sentences -> Task] /\ speech[s] \in Task
  BY DEF LockInv, SpeechTyped
<1>2. j \in Task /\ j.at # "none" /\ speech[s].chunk <= j.chunk
  <2>1. p \in Places /\ p # "none"
    OBVIOUS
  <2>2. /\ [speech[s] EXCEPT !.at = p, !.tracked = b] \in Task
        /\ [speech[s] EXCEPT !.at = p, !.tracked = b].at = p
        /\ [speech[s] EXCEPT !.at = p, !.tracked = b].chunk = speech[s].chunk
        /\ speech[s].chunk <= speech[s].chunk
    <3> DEFINE k == speech[s]
    <3>1. k \in Task
      BY <1>1
    <3> HIDE DEF k
    <3>2. /\ [k EXCEPT !.at = p, !.tracked = b] \in Task
          /\ [k EXCEPT !.at = p, !.tracked = b].at = p
          /\ [k EXCEPT !.at = p, !.tracked = b].chunk = k.chunk
          /\ k.chunk <= k.chunk
      BY <2>1, <3>1, PlacedTask
    <3> QED
      BY <3>2 DEF k
  <2> QED
    BY <2>1, <2>2
<1>3. speech' = [speech EXCEPT ![s] = j]
  BY <1>1
<1> HIDE DEF j
<1> QED
  BY <1>2, <1>3, MoveProgress

(* From one chunk to the next, of a task k that holds the lock.            *)
LEMMA NextChunkOrder ==
    ASSUME LockInv, NEW s \in Sentences, NEW k \in Task, NextChunk(s, k),
           lock.holder = s, speech[s].chunk <= k.chunk, UNCHANGED ready
    PROVE  HolderMayGo /\ Progress
<1>1. /\ lock \in [holder : Sentences \cup {None}, queue : Seq(Sentences)]
      /\ speech \in [Sentences -> Task] /\ speech[s] \in Task
  BY DEF LockInv, SpeechTyped
<1>2. HolderMayGo
  BY <1>1 DEF NextChunk, EndsUnlocked, Unlocked, HolderMayGo
<1>3. CASE k.cut
  <2>1. speech' = [speech EXCEPT ![s].at = "over", ![s].tracked = FALSE]
    BY <1>3 DEF NextChunk, EndsUnlocked
  <2> QED
    BY <1>2, <2>1, MovedProgress DEF Places
<1>4. CASE ~k.cut
  <2> DEFINE j == [k EXCEPT !.at = "thread"]
  <2>1. j \in Task /\ j.at # "none" /\ speech[s].chunk <= j.chunk
    BY DEF Task, Places
  <2>2. speech' = [speech EXCEPT ![s] = j]
    BY <1>4 DEF NextChunk
  <2> HIDE DEF j
  <2> QED
    BY <1>2, <2>1, <2>2, MoveProgress
<1> QED
  BY <1>3, <1>4

LEMMA EndsUnlockedOrder ==
    ASSUME LockInv, NEW s \in Sentences, EndsUnlocked(s), UNCHANGED ready
    PROVE  HolderMayGo /\ Progress
<1>1. lock \in [holder : Sentences \cup {None}, queue : Seq(Sentences)]
  BY DEF LockInv, SpeechTyped
<1>2. HolderMayGo
  BY <1>1 DEF EndsUnlocked, Unlocked, HolderMayGo
<1>3. speech' = [speech EXCEPT ![s].at = "over", ![s].tracked = FALSE]
  BY DEF EndsUnlocked
<1> QED
  BY <1>2, <1>3, MovedProgress DEF Places

LEMMA StartsOrder ==
    ASSUME LockInv, NEW s \in Sentences, SpeechStarts(s)
    PROVE  LineStep /\ Progress
<1>1. /\ lock \in [holder : Sentences \cup {None}, queue : Seq(Sentences)]
      /\ speech \in [Sentences -> Task] /\ speech[s] \in Task
      /\ speech[s].tracked \in BOOLEAN
  BY DEF LockInv, SpeechTyped, Task
<1>2. ready # <<>> /\ Head(ready) = s /\ ready' = Tail(ready)
  BY DEF SpeechStarts
<1>3. CASE /\ speech' = [speech EXCEPT ![s].at = "over", ![s].tracked = FALSE]
           /\ UNCHANGED lock
  <2>1. LineStep
    BY <1>2, <1>3 DEF LineStep, FirstStarts
  <2> QED
    BY <1>3, <2>1, MovedProgress DEF Places
<1>4. CASE /\ speech' = Moved(s, "queued")
           /\ lock' = [lock EXCEPT !.queue = Append(@, s)]
  <2>1. LineStep
    BY <1>2, <1>4 DEF LineStep, FirstStarts
  <2>2. speech' = [speech EXCEPT ![s].at = "queued", ![s].tracked = speech[s].tracked]
    BY <1>1, <1>4 DEF Moved, Task
  <2> QED
    BY <1>1, <2>1, <2>2, MovedProgress DEF Places
<1>5. CASE /\ LockFree
           /\ speech' = [speech EXCEPT ![s] = [speech[s] EXCEPT !.at = "thread"]]
           /\ lock' = [lock EXCEPT !.holder = s]
  <2>1. LineStep
    BY <1>2, <1>5 DEF LineStep, FirstStarts
  <2>2. speech' = [speech EXCEPT ![s].at = "thread", ![s].tracked = speech[s].tracked]
    BY <1>1, <1>5 DEF Task
  <2> QED
    BY <1>1, <2>1, <2>2, MovedProgress DEF Places
<1>6. CASE Superseded(speech[s])
  BY <1>3, <1>6 DEF SpeechStarts
<1>7. CASE ~Superseded(speech[s]) /\ ~LockFree
  BY <1>4, <1>7 DEF SpeechStarts
<1>8. CASE ~Superseded(speech[s]) /\ LockFree /\ speech[s].cut
  <2>1. /\ speech' = [speech EXCEPT ![s].at = "over", ![s].tracked = FALSE]
        /\ lock' = [lock EXCEPT !.holder = None]
    BY <1>8 DEF SpeechStarts, NextChunk, EndsUnlocked, Unlocked
  <2>2. lock' = lock
    BY <1>1, <1>8, <2>1 DEF LockFree
  <2> QED
    BY <1>3, <2>1, <2>2
<1>9. CASE ~Superseded(speech[s]) /\ LockFree /\ ~speech[s].cut
  BY <1>5, <1>9 DEF SpeechStarts, NextChunk
<1> QED
  BY <1>6, <1>7, <1>8, <1>9

LEMMA GrantedOrder ==
    ASSUME LockInv, NEW s \in Sentences, LockGranted(s)
    PROVE  LineStep /\ Progress
<1>1. /\ lock \in [holder : Sentences \cup {None}, queue : Seq(Sentences)]
      /\ speech \in [Sentences -> Task] /\ speech[s] \in Task
      /\ speech[s].tracked \in BOOLEAN
  BY DEF LockInv, SpeechTyped, Task
<1>2. /\ lock.holder = None /\ lock.queue # <<>> /\ Head(lock.queue) = s
      /\ UNCHANGED ready
  BY DEF LockGranted
<1>3. CASE speech[s].cut
  <2>1. lock' = [holder |-> None, queue |-> Tail(lock.queue)]
    BY <1>1, <1>2, <1>3 DEF LockGranted
  <2>2. LineStep
    BY <1>2, <2>1 DEF LineStep, FirstGranted
  <2>3. speech' = [speech EXCEPT ![s].at = "over", ![s].tracked = FALSE]
    BY <1>3 DEF LockGranted
  <2> QED
    BY <2>2, <2>3, MovedProgress DEF Places
<1>4. CASE ~speech[s].cut
  <2>1. lock' = [holder |-> s, queue |-> Tail(lock.queue)]
    BY <1>4 DEF LockGranted
  <2>2. LineStep
    BY <1>2, <2>1 DEF LineStep, FirstGranted
  <2>3. speech' = [speech EXCEPT ![s].at = "thread", ![s].tracked = speech[s].tracked]
    BY <1>1, <1>4 DEF LockGranted, Moved, Task
  <2> QED
    BY <1>1, <2>2, <2>3, MovedProgress DEF Places
<1> QED
  BY <1>3, <1>4

LEMMA ArrivesOrder ==
    ASSUME LockInv, OutputInv, NEW s \in Sentences, ChunkArrives(s), UNCHANGED spoken
    PROVE  OrderStep
<1> DEFINE k == [speech[s] EXCEPT !.chunk = @ + 1]
<1>1. /\ lock \in [holder : Sentences \cup {None}, queue : Seq(Sentences)]
      /\ speech \in [Sentences -> Task] /\ speech[s] \in Task
      /\ speech[s].tracked \in BOOLEAN /\ speech[s].chunk \in Nat
  BY DEF LockInv, SpeechTyped, Task
<1>2. lock.holder = s /\ UNCHANGED ready
  BY DEF ChunkArrives, LockInv, LockMatchesSynthesis
<1>3. k \in Task /\ k.chunk = speech[s].chunk + 1 /\ k.cut = speech[s].cut
  BY <1>1 DEF Task
<1>4. CASE EndsUnlocked(s) /\ (output' = Emitted(Notice) \/ UNCHANGED output)
  BY <1>2, <1>4, EndsUnlockedOrder, NotesAreQuiet DEF OrderStep, LineStep
<1>5. CASE speech' = Moved(s, "closing") /\ UNCHANGED <<lock, output>>
  <2>1. speech' = [speech EXCEPT ![s].at = "closing", ![s].tracked = speech[s].tracked]
    BY <1>1, <1>5 DEF Moved, Task
  <2>2. HolderMayGo
    BY <1>2, <1>5 DEF HolderMayGo
  <2>3. Progress
    BY <1>1, <2>1, MovedProgress DEF Places
  <2> QED
    BY <1>5, <2>2, <2>3, NotesAreQuiet DEF OrderStep, LineStep
<1>6. CASE /\ output' = Emitted(Audio(s, k.chunk))
           /\ speech' = [speech EXCEPT ![s] = [k EXCEPT !.at = "pushing"]]
           /\ UNCHANGED lock
  <2>1. HolderMayGo
    BY <1>2, <1>6 DEF HolderMayGo
  <2>2. /\ [k EXCEPT !.at = "pushing"] \in Task
        /\ [k EXCEPT !.at = "pushing"].at # "none"
        /\ [k EXCEPT !.at = "pushing"].chunk = speech[s].chunk + 1
    <3> HIDE DEF k
    <3> QED
      BY <1>3 DEF Task, Places
  <2>3. speech'[s].chunk = speech[s].chunk + 1
    <3> HIDE DEF k
    <3> QED
      BY <1>1, <1>6, <2>2
  <2>4. Progress
    <3> HIDE DEF k
    <3>1. speech[s].chunk <= speech[s].chunk + 1
      BY <1>1
    <3> QED
      BY <1>6, <2>2, <3>1, MoveProgress
  <2>5. Says(s)
    BY <1>2, <1>3, <1>6, <2>1, <2>3 DEF Says
  <2> QED
    BY <2>1, <2>4, <2>5 DEF OrderStep, LineStep
<1>7. CASE output' = Emitted(Audio(s, k.chunk)) /\ NextChunk(s, k) /\ ~speech[s].cut
  <2>1. speech[s].chunk <= k.chunk
    BY <1>1, <1>3
  <2>2. HolderMayGo /\ Progress
    <3> HIDE DEF k
    <3> QED
      BY <1>2, <1>3, <1>7, <2>1, NextChunkOrder
  <2>3. speech'[s].chunk = speech[s].chunk + 1
    <3> HIDE DEF k
    <3>1. speech' = [speech EXCEPT ![s] = [k EXCEPT !.at = "thread"]]
      BY <1>3, <1>7 DEF NextChunk
    <3>2. [k EXCEPT !.at = "thread"].chunk = k.chunk
      BY <1>3 DEF Task
    <3> QED
      BY <1>1, <1>3, <3>1, <3>2
  <2>4. Says(s)
    BY <1>2, <1>3, <1>7, <2>2, <2>3 DEF Says
  <2> QED
    BY <2>2, <2>4 DEF OrderStep, LineStep
<1>8. \/ EndsUnlocked(s) /\ (output' = Emitted(Notice) \/ UNCHANGED output)
      \/ speech' = Moved(s, "closing") /\ UNCHANGED <<lock, output>>
      \/ /\ output' = Emitted(Audio(s, k.chunk))
         /\ speech' = [speech EXCEPT ![s] = [k EXCEPT !.at = "pushing"]]
         /\ UNCHANGED lock
      \/ output' = Emitted(Audio(s, k.chunk)) /\ NextChunk(s, k) /\ ~speech[s].cut
  <2> HIDE DEF k
  <2>1. k = [speech[s] EXCEPT !.chunk = @ + 1]
    BY DEF k
  <2> QED
    BY <2>1 DEF ChunkArrives
<1> QED
  BY <1>4, <1>5, <1>6, <1>7, <1>8

LEMMA SpeechOrder ==
    ASSUME LockInv, OutputInv, NEW s \in Sentences, SpeechStep(s), UNCHANGED spoken
    PROVE  OrderStep
<1>1. speech \in [Sentences -> Task] /\ speech[s] \in Task /\ speech[s].chunk <= speech[s].chunk
      /\ speech[s].tracked \in BOOLEAN
  BY DEF LockInv, SpeechTyped, Task
<1>2. CASE SpeechStarts(s) \/ LockGranted(s)
  <2>1. UNCHANGED output
    BY <1>2 DEF SpeechStarts, LockGranted
  <2> QED
    BY <1>2, <2>1, StartsOrder, GrantedOrder, NotesAreQuiet DEF OrderStep
<1>3. CASE PushReturns(s)
  <2>1. lock.holder = s /\ UNCHANGED <<ready, output>> /\ NextChunk(s, speech[s])
    BY <1>3 DEF PushReturns, LockInv, LockMatchesSynthesis
  <2> QED
    BY <1>1, <2>1, NextChunkOrder, NotesAreQuiet DEF OrderStep, LineStep
<1>4. CASE DoomedEnds(s)
  <2>1. speech' = [speech EXCEPT ![s].at = "closing", ![s].tracked = speech[s].tracked]
    BY <1>1, <1>4 DEF DoomedEnds, Moved, Task
  <2>2. HolderMayGo /\ UNCHANGED output
    BY <1>4 DEF DoomedEnds, HolderMayGo
  <2>3. Progress
    BY <1>1, <2>1, MovedProgress DEF Places
  <2> QED
    BY <2>2, <2>3, NotesAreQuiet DEF OrderStep, LineStep
<1>5. CASE GeneratorsClose(s)
  <2>1. EndsUnlocked(s) /\ UNCHANGED <<ready, output>>
    BY <1>5 DEF GeneratorsClose
  <2> QED
    BY <2>1, EndsUnlockedOrder, NotesAreQuiet DEF OrderStep, LineStep
<1>6. CASE ThreadReturns(s)
  <2>1. UNCHANGED <<speech, ready, lock, output>>
    BY <1>6 DEF ThreadReturns
  <2> QED
    BY <2>1, StillSteps, NotesAreQuiet DEF OrderStep
<1> QED
  BY <1>2, <1>3, <1>4, <1>5, <1>6, ArrivesOrder DEF SpeechStep, TaskStep

LEMMA CancelOrder ==
    ASSUME LockInv, NEW known \in [Sentences -> Task],
           \A s \in Sentences :
               known[s].at = speech[s].at /\ known[s].chunk = speech[s].chunk,
           CancelTtsTasks(known)
    PROVE  LineStep /\ Progress
<1>1. LineStep
  BY NoneIsNoSentence DEF CancelTtsTasks, LockAfterCancel, LineCancelled, LineStep
<1>2. \A j \in Task : /\ j.chunk \in Nat
                      /\ CancelledTask(j).chunk = j.chunk
                      /\ j.at # "none" => CancelledTask(j).at # "none"
  BY DEF CancelledTask, Task, Places
<1>3. \A s \in Sentences :
          speech'[s] = IF known[s].tracked THEN CancelledTask(known[s]) ELSE known[s]
  BY DEF CancelTtsTasks
<1>4. Progress
  <2> SUFFICES ASSUME NEW u \in Sentences, speech[u].at # "none"
               PROVE  speech'[u].at # "none" /\ speech[u].chunk <= speech'[u].chunk
    BY DEF Progress
  <2>1. known[u] \in Task /\ known[u].at = speech[u].at /\ known[u].chunk = speech[u].chunk
    OBVIOUS
  <2>2. known[u].chunk \in Nat /\ known[u].chunk <= known[u].chunk
    BY <1>2, <2>1
  <2> QED
    BY <1>2, <1>3, <2>1, <2>2
<1> QED
  BY <1>1, <1>4

LEMMA AdvanceOrder ==
    ASSUME LockInv, OutputInv, NEW f \in BOOLEAN, AdvanceEpoch(f), UNCHANGED spoken
    PROVE  OrderStep
<1> DEFINE known == [s \in Sentences |-> CutToken(s)]
<1>1. speech \in [Sentences -> Task] /\ epoch \in Nat
  BY DEF LockInv, SpeechTyped
<1>2. \A s \in Sentences : /\ CutToken(s) \in Task
                           /\ CutToken(s).at = speech[s].at
                           /\ CutToken(s).chunk = speech[s].chunk
  BY <1>1 DEF CutToken, Task
<1>3. CancelTtsTasks(known) /\ output' = OutputAfter(f)
  BY DEF AdvanceEpoch
<1>4. /\ known \in [Sentences -> Task]
      /\ \A s \in Sentences :
            known[s].at = speech[s].at /\ known[s].chunk = speech[s].chunk
  BY <1>2
<1> HIDE DEF known
<1>5. LineStep /\ Progress
  BY <1>3, <1>4, CancelOrder
<1>6. output'.items \in {<<>>, <<Flush(epoch + 1)>>}
  BY <1>1, <1>3, OutputAfterAdvance
<1>7. \A i \in 1..Len(output'.items) : output'.items[i] = Flush(epoch + 1)
  BY <1>6
<1>8. Flush(epoch + 1).kind # "pcm"
  BY DEF Flush
<1>9. Quiet
  BY <1>7, <1>8 DEF Quiet
<1> QED
  BY <1>5, <1>9 DEF OrderStep
LEMMA OrderSteps ==
    ASSUME LockInv, OutputInv, [DuplexNext]_duplexVars
    PROVE  OrderStep
<1>1. ASSUME UNCHANGED <<speech, ready, lock, spoken>>,
             output' = Emitted(Notice) \/ UNCHANGED output
      PROVE  OrderStep
  BY <1>1, StillSteps, NotesAreQuiet DEF OrderStep
<1>2. ASSUME UNCHANGED <<speech, ready, lock, spoken>>, output'.items = output.items
      PROVE  OrderStep
  BY <1>2, StillSteps DEF OrderStep, Quiet
<1>3. output \in Outputs
  BY DEF OutputInv
<1>4. ASSUME NEW t \in Turns, TurnStep(t) /\ UNCHANGED <<input, control, loop, rest>>
      PROVE  OrderStep
  BY <1>4, TurnOrder DEF rest
<1>5. ASSUME NEW s \in Sentences, SpeechStep(s) /\ UNCHANGED <<input, control, loop, rest>>
      PROVE  OrderStep
  BY <1>5, SpeechOrder DEF rest
<1>6. ASSUME RunStep /\ UNCHANGED rest
      PROVE  OrderStep
  <2>1. UNCHANGED spoken
    BY <1>6 DEF rest
  <2>2. \/ AdvanceEpoch(TRUE)
        \/ \E t \in Turns : Recognised(t)
        \/ /\ UNCHANGED <<speech, ready, lock>>
           /\ output' = Emitted(Notice) \/ UNCHANGED output
    BY <1>6 DEF RunStep, HandleControl, HandleFrame, LoopEnds, Noticed, speechVars
  <2> QED
    BY <1>1, <2>1, <2>2, AdvanceOrder, RecognisedOrder
<1>7. ASSUME NEW k \in Sockets, SocketStep(k)
      PROVE  OrderStep
  <2>1. CASE BargeIn(k)
    BY <2>1, AdvanceOrder DEF BargeIn
  <2>2. CASE Leaves(k)
    <3>1. /\ UNCHANGED <<speech, ready, lock, spoken>>
          /\ output' = ConsumerGone(output, "drain") \/ UNCHANGED output
      BY <2>2 DEF Leaves, StopBegins, workerVars, speechVars
    <3> QED
      BY <1>2, <1>3, <3>1, ConsumerOutput
  <2>3. CASE Connects(k) \/ SenderStep(k) \/ Mic(k)
    <3>1. UNCHANGED <<speech, ready, lock, spoken, output>>
      BY <2>3 DEF Connects, SenderStep, SenderWaits, SenderTakes, Mic, PushFrame,
                  workerVars, speechVars
    <3> QED
      BY <1>1, <3>1
  <2> QED
    BY <1>7, <2>1, <2>2, <2>3 DEF SocketStep
<1>8. ASSUME StopBegins({})
      PROVE  OrderStep
  <2>1. UNCHANGED <<speech, ready, lock, spoken>> /\ output' = ConsumerGone(output, "drain")
    BY <1>8 DEF StopBegins
  <2> QED
    BY <1>2, <1>3, <2>1, ConsumerOutput
<1>9. ASSUME StopEnds
      PROVE  OrderStep
  <2>1. CancelTtsTasks(speech) /\ UNCHANGED <<output, spoken>>
    BY <1>9 DEF StopEnds, StopWorker
  <2>2. speech \in [Sentences -> Task]
    BY DEF LockInv, SpeechTyped
  <2>3. LineStep /\ Progress
    BY <2>1, <2>2, CancelOrder
  <2> QED
    BY <2>1, <2>3, NotesAreQuiet DEF OrderStep
<1>10. ASSUME NEW i \in Intents, PushControl(i), UNCHANGED rest
       PROVE  OrderStep
  BY <1>1, <1>10 DEF PushControl, speechVars, rest
<1>11. ASSUME DrainStep
       PROVE  OrderStep
  <2>1. UNCHANGED <<speech, ready, lock>>
    BY <1>11 DEF DrainStep, DrainWaits, DrainPasses
  <2>2. CASE DrainWaits
    <3>1. UNCHANGED spoken /\ output' = Suspended(output, "drain")
      BY <2>2 DEF DrainWaits
    <3> QED
      BY <1>2, <1>3, <2>1, <3>1, ConsumerOutput
  <2>3. CASE DrainPasses /\ PopsNothing(output, "drain")
    <3>1. UNCHANGED spoken /\ output' = ConsumerGone(output, "drain")
      BY <2>3 DEF DrainPasses
    <3> QED
      BY <1>2, <1>3, <2>1, <3>1, ConsumerOutput
  <2>4. CASE DrainPasses /\ ~PopsNothing(output, "drain")
    BY <2>1, <2>4, StillSteps DEF OrderStep, Passes
  <2> QED
    BY <1>11, <2>2, <2>3, <2>4 DEF DrainStep
<1>12. CASE UNCHANGED duplexVars
  BY <1>1, <1>12 DEF duplexVars, workerVars, speechVars
<1> QED
  BY <1>4, <1>5, <1>6, <1>7, <1>8, <1>9, <1>10, <1>11, <1>12 DEF DuplexNext

LEMMA OrderInit == DuplexInit => LineInv /\ SaidInv
BY DEF DuplexInit, WorkerInit, SpeechInit, LineInv, SaidInv, NewBounded, Speech

(* What is due stays due: the line gets no member of an earlier sentence.  *)
LEMMA DueStays ==
    ASSUME LockInv, LockInv', LineInv, OrderStep, NEW x \in Item, Due(x)
    PROVE  /\ x.of \in Sentences
           /\ speech'[x.of].at # "none"
           /\ x.chunk <= speech'[x.of].chunk
           /\ \A s \in Sentences : InLine(s)' => NotBehind(x.of, s)
<1>1. /\ x.of \in Sentences /\ speech[x.of].at # "none"
      /\ x.chunk \in Nat /\ speech[x.of].chunk \in Nat /\ x.chunk <= speech[x.of].chunk
  BY DEF Due, Item, LockInv, SpeechTyped, Task
<1>2. speech'[x.of].at # "none" /\ speech[x.of].chunk <= speech'[x.of].chunk
  BY <1>1 DEF OrderStep, Progress
<1>3. \A s \in Sentences : InLine(s)' => NotBehind(x.of, s)
  <2>1. CASE \A s \in Sentences : InLine(s)' => InLine(s)
    BY <2>1 DEF Due
  <2>2. CASE \E d \in Sentences :
                Joins(d) /\ \A s \in Sentences : InLine(s)' => InLine(s) \/ s = d
    <3>1. PICK d \in Sentences :
                Joins(d) /\ \A s \in Sentences : InLine(s)' => InLine(s) \/ s = d
      BY <2>2
    <3>2. NotBehind(x.of, d)
      BY <1>1, <3>1, AheadNotBehind DEF Joins
    <3> QED
      BY <3>1, <3>2 DEF Due
  <2> QED
    BY <2>1, <2>2, LineInvStep DEF OrderStep
<1>4. speech'[x.of].chunk \in Nat
  BY <1>1 DEF LockInv, SpeechTyped, Task
<1> QED
  BY <1>1, <1>2, <1>3, <1>4

LEMMA SaidInvStep ==
    ASSUME LockInv, LockInv', LineInv, OutputInv, OutputInv', SaidInv, OrderStep
    PROVE  SaidInv'
<1>1. /\ output \in Outputs /\ epoch \in Nat /\ output.items \in Seq(Item)
      /\ output'.items \in Seq(Item)
      /\ Len(output.items) \in Nat
      /\ \A i \in 1..Len(output.items) : output.items[i] \in Item
      /\ \A i \in 1..Len(output'.items) : output'.items[i] \in Item
  BY DEF LockInv, SpeechTyped, OutputInv, Outputs
<1> DEFINE DueNext(x) == /\ x.of \in Sentences
                         /\ speech'[x.of].at # "none"
                         /\ x.chunk <= speech'[x.of].chunk
                         /\ \A s \in Sentences : InLine(s)' => NotBehind(x.of, s)
<1>2. \A x \in Item : Due(x) => DueNext(x)
  BY DueStays
<1>3. SUFFICES /\ spoken' \in Item \cup {None}
               /\ spoken' # None => DueNext(spoken')
               /\ \A i \in 1..Len(output'.items) : output'.items[i].kind = "pcm" =>
                     /\ DueNext(output'.items[i])
                     /\ spoken' # None => Sooner(spoken', output'.items[i])
                     /\ \A j \in 1..(i - 1) :
                           j \in 1..Len(output'.items) /\ output'.items[j].kind = "pcm"
                               => Sooner(output'.items[j], output'.items[i])
  BY DEF SaidInv, Due, Speech, Sooner
<1> HIDE DEF DueNext
<1>4. /\ spoken \in Item \cup {None}
      /\ spoken # None => Due(spoken) /\ DueNext(spoken)
      /\ \A i \in 1..Len(output.items) : output.items[i].kind = "pcm" =>
            /\ Due(output.items[i])
            /\ DueNext(output.items[i])
            /\ spoken # None => Sooner(spoken, output.items[i])
            /\ \A j \in 1..(i - 1) :
                  j \in 1..Len(output.items) /\ output.items[j].kind = "pcm"
                      => Sooner(output.items[j], output.items[i])
  BY <1>1, <1>2 DEF SaidInv, Speech
<1>5. CASE Quiet
  <2>1. spoken' = spoken
        /\ \A i \in 1..Len(output'.items) : output'.items[i].kind = "pcm" =>
              i \in 1..Len(output.items) /\ output'.items[i] = output.items[i]
    BY <1>5 DEF Quiet
  <2> QED
    BY <1>4, <2>1
<1>6. CASE Passes
  <2> DEFINE x == Head(output.items)
  <2>1. output.items # <<>>
    BY <1>6 DEF Passes, DrainPasses, MayPass, PopsNothing
  <2>2. /\ output' = PoppedBy(output, "drain")
        /\ spoken' = IF x.kind = "pcm" THEN x ELSE spoken
    BY <1>6 DEF Passes, DrainPasses
  <2>3. output'.items = Tail(output.items)
    BY <1>1, <2>1, <2>2, ConsumerOutput
  <2>4. /\ x = output.items[1] /\ 1 \in 1..Len(output.items)
        /\ Len(output'.items) = Len(output.items) - 1
        /\ \A i \in 1..Len(output'.items) : /\ i + 1 \in 1..Len(output.items)
                                            /\ output'.items[i] = output.items[i + 1]
    BY <1>1, <2>1, <2>3
  <2>5. x \in Item /\ (x.kind = "pcm" => DueNext(x))
    BY <1>1, <1>4, <2>4
  <2>6. spoken' \in Item \cup {None} /\ (spoken' # None => DueNext(spoken'))
    BY <1>4, <2>2, <2>5
  <2>7. ASSUME NEW i \in 1..Len(output'.items), output'.items[i].kind = "pcm"
        PROVE  /\ DueNext(output'.items[i])
               /\ spoken' # None => Sooner(spoken', output'.items[i])
               /\ \A j \in 1..(i - 1) :
                     j \in 1..Len(output'.items) /\ output'.items[j].kind = "pcm"
                         => Sooner(output'.items[j], output'.items[i])
    <3>1. i + 1 \in 1..Len(output.items) /\ output'.items[i] = output.items[i + 1]
      BY <2>4
    <3>2. 1 \in 1..((i + 1) - 1)
      OBVIOUS
    <3>3. x.kind = "pcm" => Sooner(x, output'.items[i])
      BY <1>4, <2>4, <2>7, <3>1, <3>2
    <3>4. spoken' # None => Sooner(spoken', output'.items[i])
      BY <1>4, <2>2, <2>7, <3>1, <3>3
    <3>5. ASSUME NEW j \in 1..(i - 1), j \in 1..Len(output'.items),
                 output'.items[j].kind = "pcm"
          PROVE  Sooner(output'.items[j], output'.items[i])
      <4>1. /\ j + 1 \in 1..((i + 1) - 1) /\ j + 1 \in 1..Len(output.items)
            /\ output'.items[j] = output.items[j + 1]
        BY <2>4, <3>5
      <4> QED
        BY <1>4, <2>7, <3>1, <3>5, <4>1
    <3> QED
      BY <1>4, <2>7, <3>1, <3>4, <3>5
  <2> HIDE DEF x
  <2> QED
    BY <2>6, <2>7
<1>7. CASE \E s \in Sentences : Says(s)
  <2>1. PICK s \in Sentences : Says(s)
    BY <1>7
  <2> DEFINE n == speech[s].chunk
             y == Audio(s, n + 1)
  <2>2. /\ speech[s] \in Task /\ n \in Nat /\ lock.holder = s /\ speech[s].at # "none"
        /\ spoken' = spoken /\ output' = Emitted(y) /\ speech'[s].chunk = n + 1
    BY <2>1 DEF Says, LockInv, SpeechTyped, LockMatchesSynthesis, Task
  <2>3. y \in Item /\ y.of = s /\ y.chunk = n + 1 /\ y.kind = "pcm"
    BY <2>2 DEF Audio, Item, Task
  <2>4. \A x \in Item : Due(x) => Sooner(x, y)
    <3> SUFFICES ASSUME NEW x \in Item, Due(x), x.of[1] = s[1]
                 PROVE  x.of[2] < s[2] \/ (x.of = s /\ x.chunk < n + 1)
      BY <2>3 DEF Sooner
    <3>1. x.of \in Sentences /\ NotBehind(x.of, s) /\ x.chunk <= speech[x.of].chunk
      BY <2>2 DEF Due, InLine
    <3>2. /\ x.of = <<s[1], x.of[2]>> /\ s = <<s[1], s[2]>>
          /\ x.of[2] \in Nat /\ s[2] \in Nat /\ x.of[2] <= s[2]
      BY <3>1, SentenceParts DEF NotBehind
    <3>3. x.of[2] < s[2] \/ x.of[2] = s[2]
      BY <3>2
    <3>4. x.of[2] = s[2] => x.of = s
      BY <3>2
    <3>5. x.chunk \in Nat
      BY DEF Item
    <3>6. x.of = s => x.chunk < n + 1
      BY <2>2, <3>1, <3>5
    <3> QED
      BY <3>3, <3>4, <3>6
  <2>5. DueNext(y)
    <3>1. speech'[s].at # "none"
      BY <2>2 DEF OrderStep, Progress
    <3>2. n + 1 <= speech'[s].chunk
      BY <2>2
    <3>3. ASSUME NEW u \in Sentences, InLine(u)'
          PROVE  NotBehind(s, u)
      <4>1. u = s \/ (\E i \in 1..Len(lock.queue) : u = lock.queue[i])
                  \/ (\E i \in 1..Len(ready) : u = ready[i])
        BY <2>1, <2>2, <3>3, NoneIsNoSentence DEF Says, HolderMayGo, InLine
      <4>2. u = s => NotBehind(s, u)
        BY SentenceParts DEF NotBehind
      <4>3. s # None
        BY NoneIsNoSentence
      <4>4. u = s \/ Ahead(s, u)
        BY <2>2, <4>1, <4>3 DEF LineInv
      <4> QED
        BY <4>2, <4>4, AheadNotBehind
    <3> HIDE DEF y
    <3> QED
      BY <2>3, <3>1, <3>2, <3>3 DEF DueNext
  <2> HIDE DEF y, n
  <2>6. output' = output \/ output'.items = Append(output.items, y)
    BY <1>1, <2>2, <2>3, EnqueuedOutput DEF Emitted
  <2>7. CASE output' = output
    BY <1>4, <2>2, <2>7
  <2>8. CASE output'.items = Append(output.items, y)
    <3>1. /\ Len(output'.items) = Len(output.items) + 1
          /\ output'.items[Len(output.items) + 1] = y
          /\ \A i \in 1..Len(output.items) : output'.items[i] = output.items[i]
          /\ \A i \in 1..Len(output'.items) :
                i \in 1..Len(output.items) \/ i = Len(output.items) + 1
      BY <1>1, <2>8
    <3>2. ASSUME NEW i \in 1..Len(output'.items), output'.items[i].kind = "pcm"
          PROVE  /\ DueNext(output'.items[i])
                 /\ spoken' # None => Sooner(spoken', output'.items[i])
                 /\ \A j \in 1..(i - 1) :
                       j \in 1..Len(output'.items) /\ output'.items[j].kind = "pcm"
                           => Sooner(output'.items[j], output'.items[i])
      <4>1. CASE i \in 1..Len(output.items)
        <5>1. output'.items[i] = output.items[i]
          BY <3>1, <4>1
        <5>2. \A j \in 1..(i - 1) : j \in 1..Len(output.items)
                                    /\ output'.items[j] = output.items[j]
          BY <1>1, <3>1, <4>1
        <5> QED
          BY <1>4, <2>2, <3>2, <4>1, <5>1, <5>2
      <4>2. CASE i = Len(output.items) + 1
        <5>1. output'.items[i] = y
          BY <3>1, <4>2
        <5>2. spoken' # None => Sooner(spoken', y)
          BY <1>4, <2>2, <2>4
        <5>3. \A j \in 1..(i - 1) : j \in 1..Len(output.items)
                                    /\ output'.items[j] = output.items[j]
          BY <1>1, <3>1, <4>2
        <5>4. \A j \in 1..(i - 1) : output'.items[j].kind = "pcm"
                                    => Sooner(output'.items[j], y)
          BY <1>1, <1>4, <2>4, <5>3
        <5> QED
          BY <2>5, <5>1, <5>2, <5>4
      <4> QED
        BY <3>1, <4>1, <4>2
    <3>3. spoken' \in Item \cup {None} /\ (spoken' # None => DueNext(spoken'))
      BY <1>4, <2>2
    <3> QED
      BY <3>2, <3>3
  <2> QED
    BY <2>6, <2>7, <2>8
<1> QED
  BY <1>5, <1>6, <1>7 DEF OrderStep

(* The sentences of a reply are heard in their order, the chunks of a      *)
(* sentence in theirs, though every sentence has a task of its own and any *)
(* of them may be cancelled, swallow it, or be left suspended: the lock is *)
(* FIFO, and a chunk is emitted only under it (runtime/llm_turn.py:129).   *)
THEOREM SentencesStayInOrder == DuplexSpec => SentencesInOrder
<1> DEFINE Heard == spoken' # spoken /\ spoken # None /\ spoken'.epoch = spoken.epoch
                       /\ spoken'.of[1] = spoken.of[1]
                    => \/ spoken.of[2] < spoken'.of[2]
                       \/ spoken.of = spoken'.of /\ spoken.chunk < spoken'.chunk
<1>1. ASSUME LockInv, OutputInv, SaidInv, OrderStep, spoken' # spoken, spoken # None,
             spoken'.of[1] = spoken.of[1]
      PROVE  \/ spoken.of[2] < spoken'.of[2]
             \/ spoken.of = spoken'.of /\ spoken.chunk < spoken'.chunk
  <2>1. Passes
    BY <1>1 DEF OrderStep, Quiet, Says
  <2>2. output.items # <<>>
    BY <2>1 DEF Passes, DrainPasses, MayPass, PopsNothing
  <2>3. /\ Head(output.items) = output.items[1] /\ 1 \in 1..Len(output.items)
    BY <1>1, <2>2 DEF OutputInv, Outputs
  <2>4. spoken' = output.items[1] /\ output.items[1].kind = "pcm"
    BY <1>1, <2>1, <2>3 DEF Passes, DrainPasses
  <2>5. Sooner(spoken, spoken')
    BY <1>1, <2>3, <2>4 DEF SaidInv, Speech
  <2> QED
    BY <1>1, <2>5 DEF Sooner
<1>2. LockInv /\ OutputInv /\ SaidInv /\ [DuplexNext]_duplexVars => [Heard]_duplexVars
  BY <1>1, OrderSteps
<1>3. LockInv /\ LockInv' /\ OutputInv /\ OutputInv' /\ LineInv /\ SaidInv
      /\ [DuplexNext]_duplexVars => LineInv' /\ SaidInv'
  BY OrderSteps, LineInvStep, SaidInvStep DEF OrderStep
<1>4. DuplexInit => LockInv /\ OutputInv /\ LineInv /\ SaidInv
  BY LockInvInit, OutputInvInit, OrderInit
<1>5. LockInv /\ OutputInv /\ [DuplexNext]_duplexVars => LockInv' /\ OutputInv'
  BY LockInvStep, OutputInvStep
<1> QED
  BY <1>2, <1>3, <1>4, <1>5, PTL DEF DuplexSpec, SentencesInOrder
-----------------------------------------------------------------------------
(* The types, with the bound of the epochs.                                *)

QueueTyped(S, C) == [items : Seq(S), epoch : Nat, waiting : SUBSET C, woken : SUBSET C]

(* Whatever was created, was created in this epoch or before.              *)
TasksInv ==
    /\ running \in BOOLEAN
    /\ threads \in SUBSET Sentences
    /\ token \in Sentences \cup {None}
    /\ \A t \in Turns : turns[t].epoch <= epoch
    /\ \A s \in Sentences : speech[s].epoch <= epoch

tasksVars == <<epoch, running, turns, speech, threads, token>>

LEMMA TurnTasks ==
    ASSUME LockInv, TasksInv, NEW t \in Turns, TurnStep(t)
    PROVE  TasksInv'
<1>1. turns \in [Turns -> TurnTask] /\ speech \in [Sentences -> Task] /\ epoch \in Nat
  BY DEF LockInv, SpeechTyped
<1>2. /\ UNCHANGED <<epoch, running, threads, token>>
      /\ \A u \in Turns : turns'[u].epoch = turns[u].epoch
  BY <1>1 DEF TurnStep, PieceArrives, StreamEnds, StreamFails, TurnOver, TurnTask
<1>3. \A s \in Sentences : speech'[s].epoch = speech[s].epoch \/ speech'[s].epoch = turns[t].epoch
  <2>1. \/ UNCHANGED speech
        \/ \E s \in Sentences : DispatchTts(s, turns[t].epoch)
    <3>1. UNCHANGED speech \/ (turns[t].next <= Pieces[t] /\ DispatchTts(<<t, turns[t].next>>, turns[t].epoch))
      BY DEF TurnStep, PieceArrives, StreamEnds, StreamFails
    <3>2. turns[t].next \in Nat \ {0} /\ Pieces[t] \in Nat
      BY <1>1, SpeechAssumption DEF TurnTask
    <3>3. turns[t].next <= Pieces[t] => turns[t].next \in 1..Pieces[t]
      BY <3>2
    <3> QED
      BY <3>1, <3>3, SentenceOfTurn
  <2>2. ASSUME NEW s \in Sentences, DispatchTts(s, turns[t].epoch), NEW u \in Sentences
        PROVE  speech'[u].epoch = speech[u].epoch \/ speech'[u].epoch = turns[t].epoch
    BY <1>1, <2>2 DEF DispatchTts, NoSpeech
  <2> QED
    BY <2>1, <2>2
<1> QED
  BY <1>2, <1>3 DEF TasksInv

LEMMA SpeechStepTasks ==
    ASSUME LockInv, TasksInv, NEW s \in Sentences, SpeechStep(s)
    PROVE  TasksInv'
<1>1. speech \in [Sentences -> Task] /\ epoch \in Nat
  BY DEF LockInv, SpeechTyped
<1>2. UNCHANGED <<epoch, running, turns>> /\ threads' \subseteq threads \cup {s}
      /\ token' \in {token, s}
  BY DEF SpeechStep, TaskStep, SpeechStarts, LockGranted, ChunkArrives, PushReturns, DoomedEnds,
         GeneratorsClose, ThreadReturns, NextChunk
<1> DEFINE Same == \A u \in Sentences : speech'[u].epoch = speech[u].epoch
<1>3. EndsUnlocked(s) => Same
  BY <1>1 DEF EndsUnlocked, Task
<1>4. \A p \in Places : speech' = Moved(s, p) => Same
  BY <1>1 DEF Moved, Task
<1>5. ASSUME NEW k \in Task, k.epoch = speech[s].epoch
      PROVE  /\ speech' = [speech EXCEPT ![s] = k] => Same
             /\ speech' = [speech EXCEPT ![s] = [k EXCEPT !.at = "pushing"]] => Same
             /\ NextChunk(s, k) => Same
  <2>1. \A p \in Places : [k EXCEPT !.at = p] \in Task /\ [k EXCEPT !.at = p].epoch = k.epoch
    BY DEF Task
  <2>2. \A m \in Task : m.epoch = k.epoch /\ speech' = [speech EXCEPT ![s] = m] => Same
    BY <1>1, <1>5
  <2>3. "thread" \in Places /\ "pushing" \in Places
    BY DEF Places
  <2> QED
    BY <1>3, <2>1, <2>2, <2>3, <1>5 DEF NextChunk
<1>6. Same
  <2>1. CASE SpeechStarts(s)
    <3>1. \/ speech' = [speech EXCEPT ![s].at = "over", ![s].tracked = FALSE]
          \/ speech' = Moved(s, "queued")
          \/ NextChunk(s, speech[s])
      BY <2>1 DEF SpeechStarts
    <3>2. speech' = [speech EXCEPT ![s].at = "over", ![s].tracked = FALSE] => Same
      BY <1>1 DEF Task
    <3> QED
      BY <1>1, <1>4, <1>5, <3>1, <3>2 DEF Places
  <2>2. CASE LockGranted(s)
    <3>1. \/ speech' = [speech EXCEPT ![s].at = "over", ![s].tracked = FALSE]
          \/ speech' = Moved(s, "thread")
      BY <2>2 DEF LockGranted
    <3>2. speech' = [speech EXCEPT ![s].at = "over", ![s].tracked = FALSE] => Same
      BY <1>1 DEF Task
    <3> QED
      BY <1>4, <3>1, <3>2 DEF Places
  <2>3. CASE ChunkArrives(s)
    <3> DEFINE k == [speech[s] EXCEPT !.chunk = @ + 1]
    <3>1. k \in Task /\ k.epoch = speech[s].epoch
      BY <1>1 DEF Task
    <3>2. \/ EndsUnlocked(s)
          \/ speech' = Moved(s, "closing")
          \/ speech' = [speech EXCEPT ![s] = [k EXCEPT !.at = "pushing"]]
          \/ NextChunk(s, k)
      BY <2>3 DEF ChunkArrives
    <3> HIDE DEF k
    <3> QED
      BY <1>3, <1>4, <1>5, <3>1, <3>2 DEF Places
  <2>4. CASE PushReturns(s)
    BY <1>1, <1>5, <2>4 DEF PushReturns
  <2>5. CASE DoomedEnds(s) \/ GeneratorsClose(s) \/ ThreadReturns(s)
    BY <1>3, <1>4, <2>5 DEF DoomedEnds, GeneratorsClose, ThreadReturns, Places
  <2> QED
    BY <2>1, <2>2, <2>3, <2>4, <2>5 DEF SpeechStep, TaskStep
<1> QED
  BY <1>2, <1>6 DEF TasksInv

(* What is cancelled keeps its epoch.                                      *)
LEMMA CancelTasks ==
    ASSUME LockInv, TasksInv, NEW known \in [Sentences -> Task],
           \A s \in Sentences : known[s].epoch = speech[s].epoch,
           CancelTtsTasks(known), epoch' \in {epoch, epoch + 1}, running' \in {running, FALSE},
           UNCHANGED <<threads, token>>
    PROVE  TasksInv'
<1>1. turns \in [Turns -> TurnTask] /\ speech \in [Sentences -> Task] /\ epoch \in Nat
  BY DEF LockInv, SpeechTyped
<1>2. \A t \in Turns : turns'[t].epoch = turns[t].epoch
  BY <1>1 DEF CancelTtsTasks, CancelTurns, TurnTask
<1>3. \A k \in Task : CancelledTask(k).epoch = k.epoch
  BY DEF CancelledTask, Task
<1>4. \A s \in Sentences : speech'[s].epoch = speech[s].epoch
  BY <1>3 DEF CancelTtsTasks
<1>5. \A s \in Sentences : speech'[s].epoch \in Nat /\ speech'[s].epoch <= epoch
  BY <1>1, <1>4 DEF TasksInv, Task
<1>6. \A t \in Turns : turns'[t].epoch \in Nat /\ turns'[t].epoch <= epoch
  BY <1>1, <1>2 DEF TasksInv, TurnTask
<1>7. epoch' \in Nat /\ epoch <= epoch'
  BY <1>1
<1>8. /\ \A s \in Sentences : speech'[s].epoch <= epoch'
      /\ \A t \in Turns : turns'[t].epoch <= epoch'
  BY <1>1, <1>5, <1>6, <1>7
<1> QED
  BY <1>8 DEF TasksInv

LEMMA AdvanceTasks ==
    ASSUME LockInv, TasksInv, NEW f \in BOOLEAN, AdvanceEpoch(f)
    PROVE  TasksInv'
<1> DEFINE known == [s \in Sentences |-> CutToken(s)]
<1>1. speech \in [Sentences -> Task]
  BY DEF LockInv, SpeechTyped
<1>2. \A s \in Sentences : CutToken(s) \in Task /\ CutToken(s).epoch = speech[s].epoch
  BY <1>1 DEF CutToken, Task
<1>3. CancelTtsTasks(known) /\ epoch' = epoch + 1 /\ UNCHANGED <<running, threads, token>>
  BY DEF AdvanceEpoch
<1>4. known \in [Sentences -> Task] /\ \A s \in Sentences : known[s].epoch = speech[s].epoch
  BY <1>2
<1> HIDE DEF known
<1> QED
  BY <1>3, <1>4, CancelTasks

LEMMA RecognisedTasks ==
    ASSUME LockInv, TasksInv, NEW t \in Turns, Recognised(t)
    PROVE  TasksInv'
<1>1. turns \in [Turns -> TurnTask] /\ speech \in [Sentences -> Task] /\ epoch \in Nat
      /\ <<t, 1>> \in Sentences
  <2>1. 1 \in 1..Pieces[t]
    BY SpeechAssumption
  <2> QED
    BY <2>1, SentenceOfTurn DEF LockInv, SpeechTyped
<1>2. UNCHANGED <<epoch, running, threads, token>>
  BY DEF Recognised
<1>3. \A u \in Turns : turns'[u].epoch \in {turns[u].epoch, epoch}
  BY <1>1 DEF Recognised, StartTurn, TurnTask
<1>4. \A s \in Sentences : speech'[s].epoch \in {speech[s].epoch, epoch}
  BY <1>1 DEF Recognised, DispatchTts, NoSpeech
<1> QED
  BY <1>1, <1>2, <1>3, <1>4 DEF TasksInv

LEMMA TasksInvStep ==
    ASSUME LockInv, TasksInv, [DuplexNext]_duplexVars
    PROVE  TasksInv'
<1>0. ASSUME UNCHANGED tasksVars PROVE TasksInv'
  BY <1>0 DEF tasksVars, TasksInv
<1>1. ASSUME UNCHANGED <<epoch, turns, speech, threads, token>>, running' = FALSE
      PROVE  TasksInv'
  BY <1>1 DEF TasksInv
<1>2. CASE RunStep
  <2>1. \/ AdvanceEpoch(TRUE)
        \/ UNCHANGED tasksVars
        \/ UNCHANGED <<epoch, turns, speech, threads, token>> /\ running' = FALSE
        \/ \E t \in Turns : Recognised(t)
    BY <1>2 DEF RunStep, HandleControl, HandleFrame, LoopEnds, Noticed, speechVars, tasksVars
  <2> QED
    BY <1>0, <1>1, <2>1, AdvanceTasks, RecognisedTasks
<1>3. ASSUME NEW k \in Sockets, SocketStep(k)
      PROVE  TasksInv'
  <2>1. BargeIn(k) \/ UNCHANGED tasksVars
    BY <1>3 DEF SocketStep, Connects, SenderStep, SenderWaits, SenderTakes, Mic, PushFrame,
                Leaves, StopBegins, workerVars, speechVars, tasksVars
  <2> QED
    BY <1>0, <2>1, AdvanceTasks DEF BargeIn
<1>4. CASE StopEnds
  <2>1. /\ CancelTtsTasks(speech) /\ UNCHANGED <<epoch, threads, token>> /\ running' = FALSE
        /\ speech \in [Sentences -> Task]
    BY <1>4 DEF StopEnds, StopWorker, LockInv, SpeechTyped
  <2> QED
    BY <2>1, CancelTasks
<1>5. ASSUME NEW i \in Intents, PushControl(i)
      PROVE  UNCHANGED tasksVars
  BY <1>5 DEF PushControl, speechVars, tasksVars
<1>6. CASE DrainStep \/ StopBegins({}) \/ UNCHANGED duplexVars
  BY <1>0, <1>6 DEF DrainStep, DrainWaits, DrainPasses, StopBegins, duplexVars, workerVars,
                    speechVars, tasksVars
<1> QED
  BY <1>0, <1>2, <1>3, <1>4, <1>5, <1>6, TurnTasks, SpeechStepTasks DEF DuplexNext

(* One more item at most, and no more than there is room for.              *)
LEMMA EnqueuedTyped ==
    ASSUME NEW S, NEW C, NEW q \in QueueTyped(S, C), NEW x \in S, NEW e \in Nat,
           NEW n \in Nat \ {0}
    PROVE  /\ Enqueued(q, x, e, n) \in QueueTyped(S, C)
           /\ Enqueued(q, x, e, n).epoch = q.epoch
           /\ \/ Enqueued(q, x, e, n) = q
              \/ Enqueued(q, x, e, n).items = Append(q.items, x)
           /\ Len(q.items) <= n => Len(Enqueued(q, x, e, n).items) <= n
<1> DEFINE i == Append(q.items, x)
           k == q.woken \cup q.waiting
           w == {}
           r == [q EXCEPT !.items = i, !.woken = k, !.waiting = w]
<1>1. /\ q.items \in Seq(S) /\ q.epoch \in Nat /\ Len(q.items) \in Nat
      /\ q.waiting \in SUBSET C /\ q.woken \in SUBSET C
  BY DEF QueueTyped
<1>2. i \in Seq(S) /\ Len(i) = Len(q.items) + 1 /\ k \in SUBSET C /\ w \in SUBSET C
  BY <1>1
<1>3. Enqueued(q, x, e, n) = IF e < q.epoch \/ Len(q.items) >= n THEN q ELSE r
  BY Zenon DEF Enqueued
<1>4. i = Append(q.items, x)
  OBVIOUS
<1> HIDE DEF i, k, w
<1>5. r \in QueueTyped(S, C) /\ r.items = i /\ r.epoch = q.epoch
  BY <1>2 DEF QueueTyped
<1> HIDE DEF r
<1>6. CASE e < q.epoch \/ Len(q.items) >= n
  <2>1. Enqueued(q, x, e, n) = q
    BY <1>3, <1>6
  <2> QED
    BY <2>1
<1>7. CASE ~(e < q.epoch \/ Len(q.items) >= n)
  <2>1. Enqueued(q, x, e, n) = r
    BY <1>3, <1>7
  <2> QED
    BY <1>1, <1>2, <1>4, <1>5, <1>7, <2>1
<1> QED
  BY <1>6, <1>7

(* The first item is taken, or nobody any more.                            *)
LEMMA ConsumedTyped ==
    ASSUME NEW S, NEW C, NEW q \in QueueTyped(S, C), NEW c
    PROVE  /\ ConsumerGone(q, c) \in QueueTyped(S, C)
           /\ ConsumerGone(q, c).items = q.items
           /\ ConsumerGone(q, c).epoch = q.epoch
           /\ c \in C => /\ Suspended(q, c) \in QueueTyped(S, C)
                         /\ Suspended(q, c).items = q.items
                         /\ Suspended(q, c).epoch = q.epoch
           /\ q.items # <<>> => /\ PoppedBy(q, c) \in QueueTyped(S, C)
                                /\ PoppedBy(q, c).items = Tail(q.items)
                                /\ PoppedBy(q, c).epoch = q.epoch
<1>1. ConsumerGone(q, c) \in QueueTyped(S, C) /\ ConsumerGone(q, c).items = q.items
      /\ ConsumerGone(q, c).epoch = q.epoch
  BY DEF ConsumerGone, QueueTyped
<1>2. ASSUME c \in C
      PROVE  Suspended(q, c) \in QueueTyped(S, C) /\ Suspended(q, c).items = q.items
             /\ Suspended(q, c).epoch = q.epoch
  BY <1>2 DEF Suspended, QueueTyped
<1>3. ASSUME q.items # <<>>
      PROVE  /\ PoppedBy(q, c) \in QueueTyped(S, C)
             /\ PoppedBy(q, c).items = Tail(q.items)
             /\ PoppedBy(q, c).epoch = q.epoch
  <2>1. q.items \in Seq(S) /\ Tail(q.items) \in Seq(S)
    BY <1>3 DEF QueueTyped
  <2> QED
    BY <2>1 DEF PoppedBy, QueueTyped
<1> QED
  BY <1>1, <1>2, <1>3

(* The events are of this epoch or before, and there are no more than fit. *)
EventsInv ==
    /\ Len(output.items) <= OutputCapacity
    /\ \A i \in 1..Len(output.items) : output.items[i].epoch <= epoch
    /\ spoken \in {x \in Item : x.epoch <= epoch} \cup {None}

LEMMA EventsInvStep ==
    ASSUME LockInv, OutputInv, TasksInv, EventsInv, [DuplexNext]_duplexVars
    PROVE  EventsInv'
<1>1. /\ output \in QueueTyped(Item, {"drain"}) /\ output.items \in Seq(Item)
      /\ Len(output.items) \in Nat /\ epoch \in Nat /\ OutputCapacity \in Nat \ {0}
  BY SpeechAssumption DEF LockInv, SpeechTyped, OutputInv, Outputs, QueueTyped
<1>2. \A i \in 1..Len(output.items) : output.items[i] \in Item /\ output.items[i].epoch \in Nat
  <2>1. \A i \in 1..Len(output.items) : output.items[i] \in Item
    BY <1>1
  <2> QED
    BY <2>1 DEF Item
<1>3. CASE EmitStep
  <2>1. PICK x \in Item : /\ x.epoch = 0 \/ \E s \in Sentences : x.epoch = speech[s].epoch
                          /\ output' = Emitted(x)
    BY <1>3 DEF EmitStep
  <2>2. x.epoch <= epoch
    BY <1>1, <2>1 DEF TasksInv
  <2>3. UNCHANGED <<epoch, spoken>>
    BY <1>3 DEF EmitStep
  <2>4. /\ Len(output'.items) <= OutputCapacity
        /\ output' = output \/ output'.items = Append(output.items, x)
    BY <1>1, <2>1, EnqueuedTyped DEF Emitted, EventsInv
  <2>5. \A i \in 1..Len(output'.items) : output'.items[i].epoch <= epoch
    <3>1. CASE output' = output
      BY <3>1 DEF EventsInv
    <3>2. CASE output'.items = Append(output.items, x)
      <4>1. \A i \in 1..Len(output'.items) :
               \/ i \in 1..Len(output.items) /\ output'.items[i] = output.items[i]
               \/ output'.items[i] = x
        <5>1. output.items \in Seq(Item) /\ x \in Item
          BY <1>1
        <5> QED
          BY <3>2, <5>1
      <4> QED
        BY <2>2, <4>1 DEF EventsInv
    <3> QED
      BY <2>4, <3>1, <3>2
  <2> QED
    BY <2>3, <2>4, <2>5 DEF EventsInv
<1>4. CASE AdvanceStep
  <2>1. output'.items \in {<<>>, <<Flush(epoch + 1)>>}
    BY <1>1, <1>4, OutputAfterAdvance DEF AdvanceStep
  <2>2. epoch' = epoch + 1 /\ UNCHANGED spoken
    BY <1>4 DEF AdvanceStep
  <2>3. Len(output'.items) <= 1 /\ \A i \in 1..Len(output'.items) : output'.items[i].epoch = epoch + 1
    <3>1. Flush(epoch + 1).epoch = epoch + 1
      BY DEF Flush
    <3>2. Len(output'.items) <= 1
      <4>1. CASE output'.items = <<>>
        BY <4>1
      <4>2. CASE output'.items # <<>>
        <5>1. PICK x : output'.items = <<x>>
          BY <2>1, <4>2
        <5> QED
          BY <5>1
      <4> QED
        BY <4>1, <4>2
    <3>3. \A i \in 1..Len(output'.items) : output'.items[i] = Flush(epoch + 1)
      BY <2>1
    <3> QED
      BY <3>1, <3>2, <3>3
  <2>4. Len(output'.items) \in Nat
    BY <2>1
  <2>5. \A x \in Item : x.epoch <= epoch => x.epoch <= epoch'
    BY <1>1, <2>2 DEF Item
  <2>6. Len(output'.items) <= OutputCapacity
    BY <1>1, <2>3, <2>4
  <2> QED
    BY <1>1, <2>2, <2>3, <2>5, <2>6 DEF EventsInv
<1>5. CASE CancelStep \/ DrainWaits \/ (DrainPasses /\ PopsNothing(output, "drain"))
  <2>1. output'.items = output.items
    BY <1>1, <1>5, ConsumedTyped DEF CancelStep, DrainWaits, DrainPasses
  <2>2. UNCHANGED <<epoch, spoken>>
    BY <1>5 DEF CancelStep, DrainWaits, DrainPasses
  <2> QED
    BY <2>1, <2>2 DEF EventsInv
<1>6. CASE DrainPasses /\ ~PopsNothing(output, "drain")
  <2>1. output.items # <<>>
    BY <1>6 DEF DrainPasses, MayPass, PopsNothing
  <2>2. UNCHANGED epoch /\ output' = PoppedBy(output, "drain")
        /\ spoken' \in {Head(output.items), spoken}
    BY <1>6 DEF DrainPasses
  <2>3. /\ output'.items = Tail(output.items)
        /\ Len(output.items) \in Nat \ {0}
        /\ Len(output'.items) = Len(output.items) - 1
        /\ \A i \in 1..Len(output'.items) :
              i + 1 \in 1..Len(output.items) /\ output'.items[i] = output.items[i + 1]
    <3>1. PoppedBy(output, "drain").items = Tail(output.items)
      BY <1>1, <2>1, ConsumedTyped
    <3>2. /\ Len(output.items) \in Nat \ {0}
          /\ Len(Tail(output.items)) = Len(output.items) - 1
          /\ \A i \in 1..Len(Tail(output.items)) :
                i + 1 \in 1..Len(output.items) /\ Tail(output.items)[i] = output.items[i + 1]
      BY <1>1, <2>1
    <3> QED
      BY <2>2, <3>1, <3>2
  <2>4. Head(output.items) \in {x \in Item : x.epoch <= epoch}
    <3>1. 1 \in 1..Len(output.items) /\ Head(output.items) = output.items[1]
      BY <1>1, <2>3
    <3> QED
      BY <1>2, <3>1 DEF EventsInv
  <2>5. Len(output'.items) <= OutputCapacity
    BY <1>1, <2>3 DEF EventsInv
  <2>6. \A i \in 1..Len(output'.items) : output'.items[i].epoch <= epoch
    BY <2>3 DEF EventsInv
  <2> QED
    BY <2>2, <2>4, <2>5, <2>6 DEF EventsInv
<1>7. CASE UNCHANGED outputVars
  BY <1>7 DEF outputVars, EventsInv
<1> QED
  BY <1>3, <1>4, <1>5, <1>6, <1>7, OutputSteps DEF DrainStep

HistoryTyped == history \in Seq([role : {"user", "assistant"}, turn : Turns])

LEMMA HistoryTypedStep ==
    ASSUME HistoryTyped, [DuplexNext]_duplexVars
    PROVE  HistoryTyped'
<1> DEFINE Messages == [role : {"user", "assistant"}, turn : Turns]
<1>1. CASE UNCHANGED history
  BY <1>1 DEF HistoryTyped
<1>2. ASSUME NEW t \in Turns, history' = Trimmed(history \o Exchange(t))
      PROVE  HistoryTyped'
  <2>1. Message("user", t) \in Messages /\ Message("assistant", t) \in Messages
    BY DEF Message
  <2> DEFINE h == history \o Exchange(t)
  <2>2. history \in Seq(Messages)
    BY DEF HistoryTyped
  <2> HIDE DEF Messages
  <2>3. Exchange(t) \in Seq(Messages)
    BY <2>1 DEF Exchange
  <2>4. h \in Seq(Messages) /\ Len(h) \in Nat
    BY <2>2, <2>3
  <2> HIDE DEF h
  <2>5. Trimmed(h) \in Seq(Messages)
    <3>1. HistoryLimit \in Nat /\ HistoryLimit >= 2
      BY SpeechAssumption
    <3>2. CASE Len(h) > HistoryLimit
      <4>1. Trimmed(h) = SubSeq(h, Len(h) - HistoryLimit + 1, Len(h))
        BY <3>2 DEF Trimmed
      <4>2. Len(h) - HistoryLimit + 1 \in 1..Len(h)
        BY <2>4, <3>1, <3>2
      <4> QED
        BY <2>4, <4>1, <4>2
    <3>3. CASE ~(Len(h) > HistoryLimit)
      BY <2>4, <3>3 DEF Trimmed
    <3> QED
      BY <3>2, <3>3
  <2> QED
    BY <1>2, <2>5 DEF h, Messages, HistoryTyped
<1> QED
  BY <1>1, <1>2, HistorySteps

MicFrame == [stamp : Nat]

(* What waits for the worker's loop: no frame is of a later epoch.         *)
FramesInv ==
    /\ input \in QueueTyped(MicFrame, {})
    /\ input.epoch = epoch
    /\ \A i \in 1..Len(input.items) : input.items[i].stamp <= epoch
    /\ loop \in {"top", "frame", "off"}

(* The frames of an interrupted epoch are all purged.                      *)
LEMMA FramesPurged ==
    ASSUME FramesInv, epoch \in Nat
    PROVE  /\ Purged(input, epoch + 1) \in QueueTyped(MicFrame, {})
           /\ Purged(input, epoch + 1).epoch = epoch + 1
           /\ Purged(input, epoch + 1).items = <<>>
<1> DEFINE q == Purged(input, epoch + 1)
           i == <<>>
           e == epoch + 1
<1>1. input \in QueueTyped(MicFrame, {}) /\ input.epoch = epoch
      /\ input.items \in Seq(MicFrame)
  BY DEF FramesInv, QueueTyped
<1>2. AllOlder(input, epoch + 1)
  <2>1. ASSUME NEW j \in DOMAIN input.items
        PROVE  input.items[j].stamp < epoch + 1
    <3>1. j \in 1..Len(input.items) /\ input.items[j] \in MicFrame
      BY <1>1
    <3>2. input.items[j].stamp \in Nat /\ input.items[j].stamp <= epoch
      BY <3>1 DEF FramesInv, MicFrame
    <3> QED
      BY <3>2
  <2> QED
    BY <2>1 DEF AllOlder
<1>3. q = [input EXCEPT !.items = i, !.epoch = e]
  <2>1. ~(epoch + 1 <= input.epoch)
    BY <1>1
  <2>2. q = [input EXCEPT !.items = IF AllOlder(input, epoch + 1) THEN <<>>
                                    ELSE SelectSeq(@, LAMBDA x : x.stamp >= epoch + 1),
                          !.epoch = epoch + 1]
    BY <2>1, Zenon DEF Purged
  <2> HIDE DEF q
  <2> QED
    BY <1>2, <2>2, Zenon
<1>4. i \in Seq(MicFrame) /\ e \in Nat
  OBVIOUS
<1> HIDE DEF q, i, e
<1>5. /\ [input EXCEPT !.items = i, !.epoch = e] \in QueueTyped(MicFrame, {})
      /\ [input EXCEPT !.items = i, !.epoch = e].items = i
      /\ [input EXCEPT !.items = i, !.epoch = e].epoch = e
  BY <1>1, <1>4 DEF QueueTyped
<1> QED
  BY <1>3, <1>5, Zenon DEF q, i, e

LEMMA FramesInvStep ==
    ASSUME LockInv, FramesInv, [DuplexNext]_duplexVars
    PROVE  FramesInv'
<1>1. /\ epoch \in Nat /\ input \in QueueTyped(MicFrame, {}) /\ input.epoch = epoch
      /\ input.items \in Seq(MicFrame)
  BY DEF LockInv, SpeechTyped, FramesInv, QueueTyped
<1>2. ASSUME NEW f \in BOOLEAN, AdvanceEpoch(f), loop' \in {loop, "frame"}
      PROVE  FramesInv'
  <2>1. epoch' = epoch + 1 /\ input' = Purged(input, epoch + 1)
    BY <1>2 DEF AdvanceEpoch
  <2>2. input' \in QueueTyped(MicFrame, {}) /\ input'.epoch = epoch' /\ input'.items = <<>>
    BY <1>1, <2>1, FramesPurged
  <2>3. \A i \in 1..Len(input'.items) : input'.items[i].stamp <= epoch'
    BY <2>2
  <2> QED
    BY <1>2, <2>2, <2>3 DEF FramesInv
<1>3. ASSUME PushFrame
      PROVE  FramesInv'
  <2> DEFINE x == [stamp |-> epoch]
  <2>1. x \in MicFrame /\ x.stamp = epoch /\ InputCapacity \in Nat \ {0}
    BY <1>1, WorkerAssumption DEF MicFrame
  <2>2. input' = Enqueued(input, x, epoch, InputCapacity) /\ UNCHANGED <<epoch, loop>>
    BY <1>3 DEF PushFrame, speechVars
  <2> HIDE DEF x
  <2>3. /\ input' \in QueueTyped(MicFrame, {}) /\ input'.epoch = epoch
        /\ input' = input \/ input'.items = Append(input.items, x)
    BY <1>1, <2>1, <2>2, EnqueuedTyped
  <2>4. \A i \in 1..Len(input'.items) : input'.items[i].stamp <= epoch
    <3>1. CASE input' = input
      BY <3>1 DEF FramesInv
    <3>2. CASE input'.items = Append(input.items, x)
      <4>1. \A i \in 1..Len(input'.items) :
               \/ i \in 1..Len(input.items) /\ input'.items[i] = input.items[i]
               \/ input'.items[i] = x
        <5>1. input.items \in Seq(MicFrame) /\ x \in MicFrame
          BY <1>1, <2>1
        <5> QED
          BY <3>2, <5>1
      <4> QED
        BY <1>1, <2>1, <4>1 DEF FramesInv
    <3> QED
      BY <2>3, <3>1, <3>2
  <2> QED
    BY <2>2, <2>3, <2>4 DEF FramesInv
<1>4. ASSUME UNCHANGED <<epoch, input>>, loop' \in {loop, "top", "frame", "off"}
      PROVE  FramesInv'
  BY <1>4 DEF FramesInv
<1>5. ASSUME input.items # <<>>, input' = PoppedBy(input, "worker"), UNCHANGED epoch,
             loop' = "top"
      PROVE  FramesInv'
  <2>1. /\ input' \in QueueTyped(MicFrame, {}) /\ input'.items = Tail(input.items)
        /\ input'.epoch = epoch
    BY <1>1, <1>5, ConsumedTyped
  <2>2. \A i \in 1..Len(input'.items) :
           i + 1 \in 1..Len(input.items) /\ input'.items[i] = input.items[i + 1]
    <3>1. \A i \in 1..Len(Tail(input.items)) :
             i + 1 \in 1..Len(input.items) /\ Tail(input.items)[i] = input.items[i + 1]
      BY <1>1, <1>5
    <3> QED
      BY <2>1, <3>1
  <2>3. \A i \in 1..Len(input'.items) : input'.items[i].stamp <= epoch
    BY <2>2 DEF FramesInv
  <2> QED
    BY <1>5, <2>1, <2>3 DEF FramesInv
<1>6. CASE RunStep
  <2>1. CASE HandleControl
    <3>1. \/ AdvanceEpoch(TRUE) /\ loop' = "frame"
          \/ UNCHANGED <<epoch, input>> /\ loop' = "frame"
      BY <2>1 DEF HandleControl
    <3> QED
      BY <1>2, <1>4, <3>1
  <2>2. CASE HandleFrame
    <3>1. /\ UNCHANGED epoch /\ loop' = "top"
          /\ UNCHANGED input \/ (input.items # <<>> /\ input' = PoppedBy(input, "worker"))
      BY <2>2 DEF HandleFrame, Noticed, Recognised, speechVars
    <3> QED
      BY <1>4, <1>5, <3>1
  <2>3. CASE LoopEnds
    BY <1>4, <2>3 DEF LoopEnds, speechVars
  <2> QED
    BY <1>6, <2>1, <2>2, <2>3 DEF RunStep
<1>7. ASSUME NEW k \in Sockets, SocketStep(k)
      PROVE  FramesInv'
  <2>1. \/ PushFrame
        \/ AdvanceEpoch(FALSE) /\ UNCHANGED loop
        \/ UNCHANGED <<epoch, input, loop>>
    BY <1>7 DEF SocketStep, Connects, SenderStep, SenderWaits, SenderTakes, Mic, BargeIn,
                Leaves, StopBegins, workerVars, speechVars
  <2> QED
    BY <1>2, <1>3, <1>4, <2>1
<1>8. CASE StopEnds
  BY <1>4, <1>8 DEF StopEnds, StopWorker
<1>9. ASSUME NEW t \in Turns, TurnStep(t), UNCHANGED <<input, control, loop, rest>>
      PROVE  FramesInv'
  BY <1>4, <1>9 DEF TurnStep, PieceArrives, StreamEnds, StreamFails
<1>10. ASSUME NEW s \in Sentences, SpeechStep(s), UNCHANGED <<input, control, loop, rest>>
       PROVE  FramesInv'
  BY <1>4, <1>10 DEF SpeechStep, TaskStep, SpeechStarts, LockGranted, ChunkArrives, PushReturns,
                     DoomedEnds, GeneratorsClose, ThreadReturns
<1>11. ASSUME NEW i \in Intents, PushControl(i)
       PROVE  FramesInv'
  BY <1>4, <1>11 DEF PushControl, speechVars
<1>12. CASE DrainStep \/ StopBegins({}) \/ UNCHANGED duplexVars
  BY <1>4, <1>12 DEF DrainStep, DrainWaits, DrainPasses, StopBegins, duplexVars, workerVars,
                     speechVars
<1> QED
  BY <1>6, <1>7, <1>8, <1>9, <1>10, <1>11, <1>12 DEF DuplexNext

ControlMessage == [stamp : {0}, intent : Intents]

(* Where an interruption is asked for.                                     *)
Asked(q) == {i \in DOMAIN q : q[i].intent = "cancel_and_flush"}

(* The interruptions that have been asked for are among those the bound    *)
(* allows.                                                                 *)
ControlInv ==
    /\ control \in QueueTyped(ControlMessage, {}) /\ control.epoch = 0
    /\ Interruptions <= MaxEpoch

LEMMA AskedFinite ==
    ASSUME NEW q \in Seq(ControlMessage)
    PROVE  IsFiniteSet(Asked(q)) /\ Cardinality(Asked(q)) \in Nat
<1>1. Len(q) \in Nat /\ Asked(q) \in SUBSET (1..Len(q))
  BY DEF Asked
<1>2. IsFiniteSet(1..Len(q))
  BY <1>1, FS_Interval
<1> QED
  BY <1>1, <1>2, FS_Subset, FS_CardinalityType

LEMMA AskedMore ==
    ASSUME NEW q \in Seq(ControlMessage), NEW x \in ControlMessage
    PROVE  /\ Cardinality(Asked(Append(q, x))) <= Cardinality(Asked(q)) + 1
           /\ x.intent # "cancel_and_flush" => Asked(Append(q, x)) = Asked(q)
<1>1. /\ DOMAIN Append(q, x) = 1..(Len(q) + 1) /\ DOMAIN q = 1..Len(q) /\ Len(q) \in Nat
      /\ Append(q, x)[Len(q) + 1] = x
      /\ \A i \in 1..Len(q) : Append(q, x)[i] = q[i]
  OBVIOUS
<1>2. \A i : i \in 1..(Len(q) + 1) <=> i \in 1..Len(q) \/ i = Len(q) + 1
  BY <1>1
<1>3. \A i \in Asked(Append(q, x)) : i \in Asked(q) \/ i = Len(q) + 1
  BY <1>1, <1>2 DEF Asked
<1>4. \A i \in Asked(q) : i \in Asked(Append(q, x))
  BY <1>1, <1>2 DEF Asked
<1>5. x.intent # "cancel_and_flush" => Len(q) + 1 \notin Asked(Append(q, x))
  BY <1>1 DEF Asked
<1>6. Asked(Append(q, x)) = Asked(q) \/ Asked(Append(q, x)) = Asked(q) \cup {Len(q) + 1}
  BY <1>3, <1>4
<1>7. IsFiniteSet(Asked(q)) /\ Cardinality(Asked(q)) \in Nat
  BY AskedFinite
<1>8. Cardinality(Asked(q) \cup {Len(q) + 1}) =
         IF Len(q) + 1 \in Asked(q) THEN Cardinality(Asked(q)) ELSE Cardinality(Asked(q)) + 1
  BY <1>7, FS_AddElement, Zenon
<1>9. \/ Cardinality(Asked(Append(q, x))) = Cardinality(Asked(q))
      \/ Cardinality(Asked(Append(q, x))) = Cardinality(Asked(q)) + 1
  BY <1>6, <1>8, Zenon
<1>10. Cardinality(Asked(Append(q, x))) <= Cardinality(Asked(q)) + 1
  BY <1>7, <1>9
<1>11. ASSUME x.intent # "cancel_and_flush"
       PROVE  Asked(Append(q, x)) = Asked(q)
  BY <1>5, <1>6, <1>11
<1> QED
  BY <1>10, <1>11

(* The first message is taken; it is an interruption, or it is not.        *)
LEMMA AskedFewer ==
    ASSUME NEW q \in Seq(ControlMessage), q # <<>>
    PROVE  /\ Cardinality(Asked(Tail(q))) \in Nat /\ Cardinality(Asked(q)) \in Nat
           /\ Cardinality(Asked(Tail(q))) <= Cardinality(Asked(q))
           /\ Head(q).intent = "cancel_and_flush" =>
                 Cardinality(Asked(Tail(q))) + 1 <= Cardinality(Asked(q))
<1> DEFINE S == Asked(q) \ {1}
           T == Asked(Tail(q))
           f == [i \in S |-> i - 1]
<1>1. /\ Len(q) \in Nat \ {0} /\ DOMAIN q = 1..Len(q) /\ Head(q) = q[1]
      /\ Tail(q) \in Seq(ControlMessage) /\ DOMAIN Tail(q) = 1..(Len(q) - 1)
      /\ \A i \in 1..(Len(q) - 1) : Tail(q)[i] = q[i + 1]
  OBVIOUS
<1>2. \A i \in S : i - 1 \in T
  <2> TAKE i \in S
  <2>1. i \in 1..Len(q) /\ i # 1 /\ q[i].intent = "cancel_and_flush"
    BY <1>1 DEF Asked
  <2>2. i - 1 \in 1..(Len(q) - 1) /\ (i - 1) + 1 = i
    BY <1>1, <2>1
  <2>3. Tail(q)[i - 1] = q[i]
    BY <1>1, <2>2
  <2> QED
    BY <1>1, <2>1, <2>2, <2>3 DEF Asked
<1>3. \A j \in T : j + 1 \in S /\ (j + 1) - 1 = j
  <2> TAKE j \in T
  <2>1. j \in 1..(Len(q) - 1) /\ Tail(q)[j].intent = "cancel_and_flush"
    BY <1>1 DEF Asked
  <2>2. j + 1 \in 1..Len(q) /\ j + 1 # 1 /\ (j + 1) - 1 = j /\ Tail(q)[j] = q[j + 1]
    BY <1>1, <2>1
  <2> QED
    BY <1>1, <2>1, <2>2 DEF Asked
<1>4. /\ IsFiniteSet(Asked(q)) /\ Cardinality(Asked(q)) \in Nat /\ Cardinality(T) \in Nat
      /\ IsFiniteSet(S)
      /\ Cardinality(S) = IF 1 \in Asked(q) THEN Cardinality(Asked(q)) - 1
                                            ELSE Cardinality(Asked(q))
  BY <1>1, AskedFinite, FS_RemoveElement
<1>5. Head(q).intent = "cancel_and_flush" => 1 \in Asked(q)
  BY <1>1 DEF Asked
<1> HIDE DEF S, T
<1>6. f \in Surjection(S, T)
  BY <1>2, <1>3 DEF Surjection
<1> HIDE DEF f
<1>7. Cardinality(T) <= Cardinality(S)
  BY <1>4, <1>6, FS_Surjection
<1> QED
  BY <1>4, <1>5, <1>7 DEF T

LEMMA ControlInvStep ==
    ASSUME LockInv, ControlInv, [DuplexNext]_duplexVars
    PROVE  ControlInv'
<1>1. /\ epoch \in Nat /\ control \in QueueTyped(ControlMessage, {})
      /\ control.items \in Seq(ControlMessage) /\ MaxEpoch \in Nat
      /\ Cardinality(Asked(control.items)) \in Nat
      /\ Interruptions = epoch + Cardinality(Asked(control.items))
      /\ Interruptions' = epoch' + Cardinality(Asked(control'.items))
  BY SpeechAssumption, AskedFinite
  DEF LockInv, SpeechTyped, ControlInv, QueueTyped, Interruptions, Asked
<1>2. ASSUME UNCHANGED <<epoch, control>>
      PROVE  ControlInv'
  BY <1>2 DEF ControlInv, Interruptions
<1>3. ASSUME NEW i \in Intents, PushControl(i)
      PROVE  ControlInv'
  <2> DEFINE x == [stamp |-> 0, intent |-> i]
  <2>1. x \in ControlMessage /\ x.intent = i /\ InputCapacity \in Nat \ {0}
    BY WorkerAssumption DEF ControlMessage
  <2>2. control' = Enqueued(control, x, 0, InputCapacity) /\ epoch' = epoch
        /\ (i = "cancel_and_flush" => Interruptions < MaxEpoch)
    BY <1>3 DEF PushControl, speechVars
  <2> HIDE DEF x
  <2>3. /\ control' \in QueueTyped(ControlMessage, {}) /\ control'.epoch = control.epoch
        /\ control' = control \/ control'.items = Append(control.items, x)
    BY <1>1, <2>1, <2>2, EnqueuedTyped
  <2>4. control'.items \in Seq(ControlMessage)
    BY <2>3 DEF QueueTyped
  <2>5. Cardinality(Asked(control'.items)) \in Nat
    BY <2>4, AskedFinite
  <2>6. CASE control' = control
    BY <1>2, <2>2, <2>6
  <2>7. CASE control'.items = Append(control.items, x)
    <3>1. /\ Cardinality(Asked(control'.items)) <= Cardinality(Asked(control.items)) + 1
          /\ i # "cancel_and_flush" =>
                Cardinality(Asked(control'.items)) = Cardinality(Asked(control.items))
      BY <1>1, <2>1, <2>7, AskedMore
    <3>2. Interruptions' <= MaxEpoch
      BY <1>1, <2>2, <2>5, <3>1 DEF ControlInv
    <3> QED
      BY <1>1, <2>3, <3>2 DEF ControlInv
  <2> QED
    BY <2>3, <2>6, <2>7
<1>4. CASE HandleControl
  <2>1. /\ control.items # <<>> /\ control' = PoppedBy(control, "worker")
        /\ \/ UNCHANGED epoch
           \/ Head(control.items).intent = "cancel_and_flush" /\ epoch' = epoch + 1
    BY <1>4 DEF HandleControl, AdvanceEpoch
  <2>2. /\ control' \in QueueTyped(ControlMessage, {}) /\ control'.items = Tail(control.items)
        /\ control'.epoch = control.epoch
    BY <1>1, <2>1, ConsumedTyped
  <2>3. /\ Cardinality(Asked(control'.items)) \in Nat
        /\ Cardinality(Asked(control'.items)) <= Cardinality(Asked(control.items))
        /\ Head(control.items).intent = "cancel_and_flush" =>
              Cardinality(Asked(control'.items)) + 1 <= Cardinality(Asked(control.items))
    BY <1>1, <2>1, <2>2, AskedFewer
  <2>4. Interruptions' <= MaxEpoch
    BY <1>1, <2>1, <2>3 DEF ControlInv
  <2> QED
    BY <2>2, <2>4 DEF ControlInv
<1>5. ASSUME NEW k \in Sockets, SocketStep(k)
      PROVE  ControlInv'
  <2>1. CASE BargeIn(k)
    <3>1. Interruptions < MaxEpoch /\ epoch' = epoch + 1 /\ control' = control
      BY <2>1 DEF BargeIn, AdvanceEpoch
    <3>2. Interruptions' <= MaxEpoch
      BY <1>1, <3>1
    <3> QED
      BY <3>1, <3>2 DEF ControlInv
  <2>2. CASE Connects(k) \/ SenderStep(k) \/ Mic(k) \/ Leaves(k)
    <3>1. UNCHANGED <<epoch, control>>
      BY <2>2 DEF Connects, SenderStep, SenderWaits, SenderTakes, Mic, PushFrame,
                  Leaves, StopBegins, workerVars, speechVars
    <3> QED
      BY <1>2, <3>1
  <2> QED
    BY <1>5, <2>1, <2>2 DEF SocketStep
<1>6. CASE HandleFrame \/ LoopEnds
  <2>1. UNCHANGED <<epoch, control>>
    BY <1>6 DEF HandleFrame, LoopEnds, Noticed, Recognised, speechVars
  <2> QED
    BY <1>2, <2>1
<1>7. ASSUME NEW t \in Turns, TurnStep(t), UNCHANGED <<input, control, loop, rest>>
      PROVE  ControlInv'
  BY <1>2, <1>7 DEF TurnStep, PieceArrives, StreamEnds, StreamFails
<1>8. ASSUME NEW s \in Sentences, SpeechStep(s), UNCHANGED <<input, control, loop, rest>>
      PROVE  ControlInv'
  BY <1>2, <1>8 DEF SpeechStep, TaskStep, SpeechStarts, LockGranted, ChunkArrives, PushReturns,
                    DoomedEnds, GeneratorsClose, ThreadReturns
<1>9. CASE DrainStep \/ StopBegins({}) \/ StopEnds \/ UNCHANGED duplexVars
  BY <1>2, <1>9 DEF DrainStep, DrainWaits, DrainPasses, StopBegins, StopEnds, StopWorker,
                    duplexVars, workerVars, speechVars
<1> QED
  BY <1>3, <1>4, <1>5, <1>6, <1>7, <1>8, <1>9 DEF DuplexNext, RunStep

(* The sockets' side of the session.                                       *)
SocketsTyped ==
    /\ session \in {"open", "stopping", "stopped"}
    /\ drain \in {"on", "off", "dead"}
    /\ downlink \in QueueTyped({Passed}, Sockets) /\ downlink.epoch = 0
    /\ Len(downlink.items) <= DownlinkCapacity
    /\ sender \in [Sockets -> {"away", "idle", "dead"}]

LEMMA SocketsTypedStep ==
    ASSUME SocketsTyped, [DuplexNext]_duplexVars
    PROVE  SocketsTyped'
<1>1. DownlinkCapacity \in Nat \ {0} /\ downlink.items \in Seq({Passed})
      /\ Len(downlink.items) \in Nat
  BY DuplexAssumption DEF SocketsTyped, QueueTyped
<1>2. ASSUME UNCHANGED rest PROVE SocketsTyped'
  BY <1>2 DEF rest, SocketsTyped
<1>3. ASSUME UNCHANGED <<session, drain, sender>>,
             downlink' \in QueueTyped({Passed}, Sockets), downlink'.epoch = downlink.epoch,
             Len(downlink'.items) <= DownlinkCapacity
      PROVE  SocketsTyped'
  BY <1>3 DEF SocketsTyped
<1>4. ASSUME UNCHANGED downlink,
             session' \in {"open", "stopping", "stopped"}, drain' \in {"on", "off", "dead"},
             sender' \in [Sockets -> {"away", "idle", "dead"}]
      PROVE  SocketsTyped'
  BY <1>4 DEF SocketsTyped
<1>5. ASSUME NEW k \in Sockets
      PROVE  /\ [sender EXCEPT ![k] = "idle"] \in [Sockets -> {"away", "idle", "dead"}]
             /\ [sender EXCEPT ![k] = "away"] \in [Sockets -> {"away", "idle", "dead"}]
             /\ [sender EXCEPT ![k] = "dead"] \in [Sockets -> {"away", "idle", "dead"}]
  BY DEF SocketsTyped
<1>6. ASSUME NEW left \in SUBSET Sockets, StopBegins(left)
      PROVE  SocketsTyped'
  <2> DEFINE v == downlink.waiting \ left
             w == downlink.woken \ left
             q == [downlink EXCEPT !.waiting = v, !.woken = w]
  <2>1. downlink' = q
    BY <1>6 DEF StopBegins
  <2>2. v \in SUBSET Sockets /\ w \in SUBSET Sockets
    BY DEF SocketsTyped, QueueTyped
  <2> HIDE DEF v, w
  <2>3. q \in QueueTyped({Passed}, Sockets) /\ q.items = downlink.items
        /\ q.epoch = downlink.epoch
    BY <2>2 DEF SocketsTyped, QueueTyped
  <2> HIDE DEF q
  <2>4. session' = "stopping" /\ drain' \in {"off", drain}
        /\ sender' \in [Sockets -> {"away", "idle", "dead"}]
    BY <1>6 DEF StopBegins, SocketsTyped
  <2> QED
    BY <2>1, <2>3, <2>4 DEF SocketsTyped
<1>7. CASE DrainWaits
  BY <1>2, <1>7 DEF DrainWaits, rest
<1>8. CASE DrainPasses
  <2>1. CASE PopsNothing(output, "drain")
    BY <1>4, <1>8, <2>1 DEF DrainPasses, SocketsTyped
  <2>2. CASE ~PopsNothing(output, "drain")
    <3>1. downlink' = Enqueued(downlink, Passed, 0, DownlinkCapacity)
          /\ UNCHANGED <<session, drain, sender>>
      BY <1>8, <2>2 DEF DrainPasses
    <3>2. /\ Enqueued(downlink, Passed, 0, DownlinkCapacity) \in QueueTyped({Passed}, Sockets)
          /\ Enqueued(downlink, Passed, 0, DownlinkCapacity).epoch = downlink.epoch
          /\ Len(Enqueued(downlink, Passed, 0, DownlinkCapacity).items) <= DownlinkCapacity
      <4>1. /\ downlink \in QueueTyped({Passed}, Sockets) /\ Passed \in {Passed} /\ 0 \in Nat
            /\ Len(downlink.items) <= DownlinkCapacity
        BY DEF SocketsTyped
      <4> DEFINE P == {Passed}
                 x == Passed
      <4>2. x \in P /\ downlink \in QueueTyped(P, Sockets)
        BY <4>1
      <4> HIDE DEF P, x
      <4>3. /\ Enqueued(downlink, x, 0, DownlinkCapacity) \in QueueTyped(P, Sockets)
            /\ Enqueued(downlink, x, 0, DownlinkCapacity).epoch = downlink.epoch
            /\ Len(Enqueued(downlink, x, 0, DownlinkCapacity).items) <= DownlinkCapacity
        BY <1>1, <4>1, <4>2, EnqueuedTyped
      <4> QED
        BY <4>3 DEF P, x
    <3> QED
      BY <1>3, <3>1, <3>2
  <2> QED
    BY <2>1, <2>2
<1>9. CASE StopEnds
  BY <1>4, <1>9 DEF StopEnds, SocketsTyped
<1>10. ASSUME NEW k \in Sockets, SocketStep(k)
       PROVE  SocketsTyped'
  <2>1. CASE Connects(k)
    BY <1>4, <1>5, <2>1 DEF Connects, SocketsTyped
  <2>2. CASE SenderWaits(k)
    <3>1. downlink' = Suspended(downlink, k) /\ UNCHANGED <<session, drain, sender>>
      BY <2>2 DEF SenderWaits
    <3>2. /\ downlink' \in QueueTyped({Passed}, Sockets) /\ downlink'.epoch = downlink.epoch
          /\ downlink'.items = downlink.items
      BY <3>1, ConsumedTyped DEF SocketsTyped
    <3> QED
      BY <1>3, <3>1, <3>2 DEF SocketsTyped
  <2>3. CASE SenderTakes(k)
    <3>1. UNCHANGED <<session, drain>> /\ sender' \in [Sockets -> {"away", "idle", "dead"}]
      BY <1>5, <2>3 DEF SenderTakes, SocketsTyped
    <3>2. /\ downlink' \in QueueTyped({Passed}, Sockets) /\ downlink'.epoch = downlink.epoch
          /\ Len(downlink'.items) <= DownlinkCapacity
      <4>1. CASE PopsNothing(downlink, k)
        BY <2>3, <4>1, ConsumedTyped DEF SenderTakes, SocketsTyped
      <4>2. CASE ~PopsNothing(downlink, k)
        <5>1. downlink.items # <<>> /\ downlink' = PoppedBy(downlink, k)
          BY <2>3, <4>2 DEF SenderTakes, MayPass, PopsNothing
        <5>2. /\ downlink' \in QueueTyped({Passed}, Sockets)
              /\ downlink'.epoch = downlink.epoch /\ downlink'.items = Tail(downlink.items)
          BY <5>1, ConsumedTyped DEF SocketsTyped
        <5>3. Len(Tail(downlink.items)) = Len(downlink.items) - 1
          BY <1>1, <5>1
        <5> QED
          BY <1>1, <5>2, <5>3 DEF SocketsTyped
      <4> QED
        BY <4>1, <4>2
    <3> QED
      BY <3>1, <3>2 DEF SocketsTyped
  <2>4. CASE Mic(k) \/ BargeIn(k)
    BY <1>2, <2>4 DEF Mic, BargeIn, rest
  <2>5. CASE Leaves(k)
    <3>1. CASE session = "open"
      BY <1>6, <2>5, <3>1 DEF Leaves
    <3>2. CASE session # "open"
      <4>1. downlink' = ConsumerGone(downlink, k) /\ UNCHANGED <<session, drain>>
            /\ sender' = [sender EXCEPT ![k] = "away"]
        BY <2>5, <3>2 DEF Leaves
      <4>2. /\ downlink' \in QueueTyped({Passed}, Sockets) /\ downlink'.epoch = downlink.epoch
            /\ downlink'.items = downlink.items
        BY <4>1, ConsumedTyped DEF SocketsTyped
      <4> QED
        BY <1>5, <4>1, <4>2 DEF SocketsTyped
    <3> QED
      BY <3>1, <3>2
  <2> QED
    BY <1>10, <2>1, <2>2, <2>3, <2>4, <2>5 DEF SocketStep, SenderStep
<1>11. CASE UNCHANGED duplexVars
  BY <1>2, <1>11 DEF duplexVars, rest
<1> QED
  BY <1>2, <1>6, <1>7, <1>8, <1>9, <1>10, <1>11 DEF DuplexNext, DrainStep

DuplexTyped ==
    LockInv /\ OutputInv /\ TasksInv /\ EventsInv /\ HistoryTyped /\ FramesInv /\ ControlInv
            /\ SocketsTyped

LEMMA DuplexTypedInit == DuplexInit => DuplexTyped
<1> SUFFICES ASSUME DuplexInit PROVE DuplexTyped
  OBVIOUS
<1>1. TasksInv
  BY DEF DuplexInit, WorkerInit, SpeechInit, TasksInv, NoTurn, NoSpeech
<1>2. EventsInv /\ HistoryTyped
  BY SpeechAssumption DEF DuplexInit, WorkerInit, SpeechInit, EventsInv, HistoryTyped, NewBounded
<1>3. \A S, C : NewBounded \in QueueTyped(S, C) /\ NewBounded.epoch = 0
                /\ NewBounded.items = <<>>
  BY DEF NewBounded, QueueTyped
<1>4. FramesInv
  BY <1>3 DEF DuplexInit, WorkerInit, SpeechInit, FramesInv
<1>5. ControlInv
  <2>1. control = NewBounded /\ epoch = 0
    BY DEF DuplexInit, WorkerInit, SpeechInit
  <2>2. {i \in DOMAIN control.items : control.items[i].intent = "cancel_and_flush"} = {}
    BY <1>3, <2>1
  <2>3. Interruptions = 0
    BY <2>1, <2>2, FS_EmptySet DEF Interruptions
  <2> QED
    BY <1>3, <2>1, <2>3, SpeechAssumption DEF ControlInv
<1>6. SocketsTyped
  BY <1>3, DuplexAssumption DEF DuplexInit, SocketsTyped
<1> QED
  BY <1>1, <1>2, <1>4, <1>5, <1>6, LockInvInit, OutputInvInit DEF DuplexTyped

(* What is typed without a bound, and is of this epoch or before, is of the*)
(* declared type.                                                          *)
LEMMA WithinBound ==
    ASSUME DuplexTyped
    PROVE  DuplexTypeOK
<1> USE DEF DuplexTyped
<1>1. epoch \in 0..MaxEpoch /\ epoch \in Nat /\ MaxEpoch \in Nat
  <2>1. control.items \in Seq(ControlMessage) /\ epoch \in Nat
    BY DEF ControlInv, QueueTyped, LockInv, SpeechTyped
  <2>2. Cardinality(Asked(control.items)) \in Nat
        /\ Interruptions = epoch + Cardinality(Asked(control.items))
    BY <2>1, AskedFinite DEF Interruptions, Asked
  <2> QED
    BY <2>1, <2>2, SpeechAssumption DEF ControlInv
<1>2. \A n \in Nat : n <= epoch => n \in 0..MaxEpoch
  BY <1>1
<1>3. ASSUME NEW x \in Item, x.epoch <= epoch
      PROVE  x \in Event
  <2>1. x.epoch \in 0..MaxEpoch
    BY <1>2, <1>3 DEF Item
  <2> QED
    BY <2>1 DEF Item, Event
<1>4. output \in QueueOf(Event, {"drain"}) /\ Len(output.items) <= OutputCapacity
  <2>1. output \in Outputs /\ output.items \in Seq(Item) /\ output.epoch = epoch
    BY DEF OutputInv, Outputs
  <2>2. \A i \in 1..Len(output.items) : output.items[i] \in Event
    <3>1. \A i \in 1..Len(output.items) : output.items[i] \in Item
      BY <2>1
    <3> QED
      BY <1>3, <3>1 DEF EventsInv
  <2>3. output.items \in Seq(Event)
    BY <2>1, <2>2
  <2> QED
    BY <1>1, <2>1, <2>3 DEF Outputs, QueueOf, EventsInv
<1>5. turns \in [Turns -> [at : {"none", "streaming", "over"}, epoch : 0..MaxEpoch, next : Nat]]
  <2>1. \A t \in Turns : turns[t] \in TurnTask /\ turns[t].epoch \in 0..MaxEpoch
    BY <1>2 DEF LockInv, SpeechTyped, TasksInv, TurnTask
  <2>2. \A k \in TurnTask : k.epoch \in 0..MaxEpoch =>
           k \in [at : {"none", "streaming", "over"}, epoch : 0..MaxEpoch, next : Nat]
    BY DEF TurnTask
  <2> QED
    BY <2>1, <2>2 DEF LockInv, SpeechTyped
<1>6. speech \in [Sentences -> [at : Places, epoch : 0..MaxEpoch, chunk : Nat,
                                tracked : BOOLEAN, cut : BOOLEAN]]
  <2>1. \A s \in Sentences : speech[s] \in Task /\ speech[s].epoch \in 0..MaxEpoch
    BY <1>2 DEF LockInv, SpeechTyped, TasksInv, Task
  <2>2. \A k \in Task : k.epoch \in 0..MaxEpoch =>
           k \in [at : Places, epoch : 0..MaxEpoch, chunk : Nat, tracked : BOOLEAN, cut : BOOLEAN]
    BY DEF Task
  <2> QED
    BY <2>1, <2>2 DEF LockInv, SpeechTyped
<1>7. input \in QueueOf([stamp : 0..MaxEpoch], {})
  <2>1. input \in QueueTyped(MicFrame, {}) /\ input.items \in Seq(MicFrame) /\ input.epoch = epoch
    BY DEF FramesInv, QueueTyped
  <2>2. \A i \in 1..Len(input.items) : input.items[i] \in [stamp : 0..MaxEpoch]
    <3>1. \A i \in 1..Len(input.items) : input.items[i] \in MicFrame
      BY <2>1
    <3>2. ASSUME NEW R, NEW x \in MicFrame, x.stamp \in R
          PROVE  x \in [stamp : R]
      BY <3>2 DEF MicFrame
    <3>3. \A x \in MicFrame : x.stamp <= epoch => x.stamp \in 0..MaxEpoch
      BY <1>2 DEF MicFrame
    <3> QED
      BY <3>1, <3>2, <3>3 DEF FramesInv
  <2>3. ASSUME NEW S, \A i \in 1..Len(input.items) : input.items[i] \in S
        PROVE  input.items \in Seq(S)
    BY <2>1, <2>3
  <2>4. input.items \in Seq([stamp : 0..MaxEpoch])
    BY <2>2, <2>3
  <2> QED
    BY <1>1, <2>1, <2>4 DEF QueueTyped, QueueOf
<1>8. control \in QueueOf([stamp : {0}, intent : Intents], {})
  <2>1. control \in QueueTyped(ControlMessage, {}) /\ control.epoch \in 0..MaxEpoch
    BY <1>1 DEF ControlInv
  <2> QED
    BY <2>1 DEF ControlMessage, QueueTyped, QueueOf
<1>9. downlink \in QueueOf({Passed}, Sockets)
  <2>1. downlink \in QueueTyped({Passed}, Sockets) /\ downlink.epoch \in 0..MaxEpoch
    BY <1>1 DEF SocketsTyped
  <2> QED
    BY <2>1 DEF QueueTyped, QueueOf
<1>10. spoken \in Event \cup {None}
  BY <1>3 DEF EventsInv
<1>11. flushed \in 0..MaxEpoch
  BY <1>2 DEF OutputInv
<1> QED
  BY <1>1, <1>4, <1>5, <1>6, <1>7, <1>8, <1>9, <1>10, <1>11
  DEF DuplexTypeOK, LockInv, SpeechTyped, TasksInv, HistoryTyped, FramesInv, SocketsTyped

(* Every variable of a session keeps its type, and the epochs keep the     *)
(* bound MaxEpoch: worker.epoch only moves by what cancel, epoch and       *)
(* cancel_and_flush ask for, no event or frame is of a later epoch, and no *)
(* queue exceeds its capacity (voice/worker.py, runtime/queues.py).        *)
THEOREM DuplexTypeCorrect == DuplexSpec => []DuplexTypeOK
<1>1. DuplexTyped /\ [DuplexNext]_duplexVars => DuplexTyped'
  BY LockInvStep, OutputInvStep, TasksInvStep, EventsInvStep, HistoryTypedStep, FramesInvStep,
     ControlInvStep, SocketsTypedStep DEF DuplexTyped
<1>2. DuplexTyped => DuplexTypeOK
  BY WithinBound
<1> QED
  BY <1>1, <1>2, DuplexTypedInit, PTL DEF DuplexSpec
=============================================================================
