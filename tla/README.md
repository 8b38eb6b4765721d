# LiveAvatar: TLA+ models, checks and proofs

LiveAvatar serves talking avatars over WebSockets. A session sends speech (a *push* session) or a
microphone stream (a *duplex* session); GPU workers turn speech into video frames; a sink fans the
frames out to browsers. It is a single-process asyncio service, with inference in threads. What makes
it hard is not throughput but cancellation: a barge-in advances an *epoch* and everything of the old
epoch, in five queues, two threads and several tasks, has to disappear without anything of the new
epoch being lost, and without a leased GPU worker being leaked or shared.

Source paths below are relative to `src/src/liveavatar/`.

## Inventory

| Component | Source | State | Operations | What it talks to |
|---|---|---|---|---|
| Worker pool | `_common/pool.py`, `_common/lease.py`, `pool.py`, `voice/pool.py` | loaded workers, load times, a lease per session, a FIFO of waiters per resource, one lock | acquire, release, renew, reaper, eviction, start, stop | acquired by the avatar adapter and the TTS adapter; loads through a factory in a thread |
| Loop-free queue | `_common/loopqueue.py` | buffer, getter futures, putter futures, closed | put, offer, get, get_nowait, close; delivery by `call_soon_threadsafe` | PCM queue of the adapter, client queues of the sink |
| Avatar stream | `adapter.py`, `runtime/transition.py`, `sinks.py` | epoch, cancel token, PCM queue, consumer task, error streak, degradation | start, stop, push_pcm, cancel_epoch, the consumer loop | leases from the pool, infers with a worker, publishes to a sink |
| Video sink | `ws_sink.py`, `video_protocol.py`, video socket of `publish/ws_routes.py` | epoch, pending boundary, sequence number, client table, a queue per client | publish_frame, cancel_epoch, stop, add/remove client, feedback | called by the adapter; read by one socket task per client |
| Realtime worker | `runtime/worker.py`, `ingest.py`, `llm_turn.py`, `queues.py` | epoch, input and output queue, turn task, TTS tasks | push_frame, advance_epoch, control messages, turn and TTS tasks | TTS adapter, avatar stream, ASR/VAD/EOU |
| Duplex session | `duplex.py`, audio socket of `publish/ws_routes.py` | out queue, renew tasks, running flag | start, stop, push_pcm, output drain, barge-in | realtime worker, both pools, sink |
| TTS adapter and voice worker | `tts.py`, `voice/worker.py` | lease, cancel token, segments, inference lock | acquire, synthesize(_stream), cancel_epoch, release | voice pool; called by TTS tasks |
| Avatar workers | `worker.py`, `static_worker.py`, `musetalk_worker.py` | inference lock, frame index | synthesize_video_stream | called by the consumer of the avatar stream |
| Session lifecycle | `pipeline.py`, `publish/session_manager.py`, `publish/state.py` | session tables | open, close, shutdown, limits | pools, adapters, sinks |
| Adaptive quality | `adaptive.py` | tier, streaks | update | called by the sink on client feedback |
| Region codec and player | `region_codec.py`, `web/player.js` | last background hash; the player's canvas and sequence number | encode; decode, gap detection | through the lossy client queues |
| Audio input, remote adapters | `audio_in/*` | detector states; connection, buffers and tasks of the ASR client | push, detect, reconnect | called by the realtime worker |
| Text source | `text_source.py` | the text not yet passed on | chunk, end of stream | read by the turn task |
| Everything else | publish plumbing, tools, face processing, networks | none shared between tasks | - | - |

Hard behaviours, by place (PROJECT.json lists each at its line under `hazards`):

* **Pool**: grants race with timeouts and cancellations; the reaper works from a snapshot taken
  outside the lock; loads hold the lock across an await while `stop` and the expiry of leases go on.
* **Queues**: hand-offs of the loop-free queue are resolved futures that arrive one loop turn later; the
  bounded queue of the worker is purged under a consumer that is already awake.
* **Avatar stream**: epoch checks before awaits, a thread that returns after a barge-in, a transition
  sentinel that must lead its epoch, a consumer that may die.
* **Sink and player**: lossy queues against keyframe and boundary flags, and against an encoder with
  one base for all clients; a client that registers after stop; decodes that overtake one another.
* **Realtime worker, duplex session, TTS**: one speech task per sentence, all writing to one queue; a
  cancelled task leaves a thread in the engine or a generator suspended under its lock.
* **Lifecycle**: a start of several awaits that may fail, expire or be shut down between any two; renew
  loops that look at a flag which is set later; leases known by session id.
* **Audio input**: detectors that are reset in part; a reconnect between a question and its answer.
* **Avatar worker**: a stopped session's thread moves the frame index of the next session.

What makes each component correct: one live lease per worker, FIFO grants, no lost wake-up, a hard
load cap (pool); nobody waits for what is there (queue); nothing stale is shown, the transition comes
before the speech (avatar stream); epochs ascend and their change is marked (sink); a mouth is drawn on
its own background (player); sentences in order, no old audio after a flush, every sentence ends
(worker and duplex); leases stay with those who renew them and come back from everybody else
(lifecycle); what the worker acts on is current (audio input); quality comes back, and only when
verified (adaptive quality); the engine comes free and the picture does not jump (avatar worker).

## Modules

| Module | Models | Uses |
|---|---|---|
| `WorkerPool` | the pool with its reaper | - |
| `FairLease` | what the pool promises: a fair, exclusive lease service | - |
| `WorkerPoolFair` | the refinement mapping from `WorkerPool` to `FairLease` | both |
| `LoopFreeQueue` | the operations of the loop-free queue, as operators | - |
| `VideoSink` | the sink and its sockets | `LoopFreeQueue` |
| `AvatarStream` | the adapter and its consumer, publishing to the sink | `VideoSink` |
| `RegionPlayer` | the region codec, publishing to the sink, and the browsers' players | `VideoSink` |
| `BoundedQueue` | the operations of `BoundedAsyncQueue`, as operators | - |
| `SpeechTasks` | turns, speech tasks, TTS adapter, voice worker with lock and threads | `BoundedQueue` |
| `RealtimeWorker` | the worker's loop, control messages, `advance_epoch` | `SpeechTasks` |
| `DuplexSession` | drain task, downlink, audio sockets, stop | `RealtimeWorker` |
| `SessionLifecycle` | opening, failing, renewing, closing and shutdown of sessions | - |
| `Detectors` | the in-process VAD, EOU and ASR, as operators on records | - |
| `AsrClient` | the remote recogniser's client: supervisor, reader, send tasks | - |
| `AudioInput` | the worker code around either of them | `Detectors`, `AsrClient` |
| `AdaptiveQuality` | aggregator and controller under several players | - |
| `SentenceStream` | how text chunks become pieces | - |
| `AvatarWorker` | inference lock, threads and frame index of an avatar worker | - |
| `..._proofs` | lemmas and theorems about the module they are named after (`WorkerPoolService_proofs`: more about `WorkerPool`; `VideoSink_proofs`: the queue and the sink, for both of its drivers) | |
| `Parts_proofs`, `EarsFace_proofs` | theorems about `SessionLifecycle`, `AdaptiveQuality`, `SentenceStream`; about `AudioInput`, `AvatarWorker` | |
| `MCWorkerPool`, `MCAvatarStream`, `MCRegionPlayer`, `MCDuplexSession` | instances for TLC | |
| `MCParts`, `MCEarsFace` | instances of several components that share no state | |

`MCParts` (lifecycle, quality tier, sentence stream) and `MCEarsFace` (audio input, avatar worker)
explore their components one at a time in one run: the first state picks the component that moves,
the others rest in a state where none of their fair steps is enabled, so that their fairness asks nothing.

A definition whose name has a suffix after an underscore (`AtCap_OffByOne`) is a faulty variant of the
definition that follows it. It is used by nothing; replacing the definition by it must break a property.

### WorkerPool

Everything runs on one loop, so a step is the code between two awaits. `loader` is the acquire that
holds `_lock` across `_load_worker`'s await; steps that need the lock wait for it. A lease is expired
or not, a call's deadline has passed or not: time is a step of the environment. An acquire is
a *call*: idle, loading, queued, granted, refused, timed out (between `wait_for` and the lock it needs
to remove its waiter), abandoned (cancelled with its waiter still queued, `pool.py:325-332`) or detached
(cancelled while its factory runs, `CancelLoad`: the lock is free, the thread goes on until `ThreadEnds`, `pool.py:542`).
`Dispatched` is `_dispatch_waiter_locked`, `Released` `_release_locked`, `LeasedOrQueued` the tail of
`acquire`, and they compose as the code calls them. `ReapScan` and `ReapOne` are the snapshot and the
locked pops of `_reap_expired`. `MayExpire`, `MayCancel` and `MayOverlap` say what clients may do.

### LoopFreeQueue, VideoSink, AvatarStream, RegionPlayer

A queue is a record: the buffer, the waiting getters, the items `handed` to a getter and still on their
way, the blocked putters. `GetterGone` is a getter that is cancelled or times out, and loses what was on
its way. `VideoSink` gives every client such a queue; `PublishFrame` is `publish_frame` to the letter
of its order (epoch, boundary flag, encode, sequence number, offers). The sink has two drivers.

`AvatarStream` is the adapter: `PushChecks`/`PushPuts`/`PushEnds` are `push_pcm` up to its await, the
put, and its end; `CancelEpoch` is one step, as it is in the code; the consumer's places (`loop`,
`getting`, `infer`, `frames`, `transition`) are its awaits. Each `await publish_frame` counts as a point
where others run, as it is with publishers other than the WebSocket sink. `shown` is a history variable. What it
publishes is not stale by the check that stands before each publication, so no property is spent on that; what
`NoWorkForStale` asks is that an interrupted epoch costs the model no further batch, which rests on the drained
queue, the token of the chunk in hand and the check behind a blocked put together.

`RegionPlayer` publishes frames of any epoch through the encoder, which sends a canvas or a mouth by
comparing with its one `base`; `player` is what `player.js` keeps per connection. Decodes end in any
order, or never. `drawn.sure` says that the player had no way to know that something was missing: without it the
code does draw a mouth on another background, see the divergences below.

### SpeechTasks, RealtimeWorker, DuplexSession

One asyncio program in three layers. In `SpeechTasks` a *turn* is `_run_llm_turn`; `PieceArrives` creates
a task per sentence, which goes through `starting` (created, not run), `queued` (at `_infer_lock`),
`thread` (awaiting a chunk), `pushing` (awaiting the avatar). A cancellation (`CancelTtsTasks`, the only
one in the code) ends a task where it is, or dooms it when it awaits something that swallows the
cancellation first (`MaySwallow`); its thread stays in `threads`, and a suspended generator keeps the
lock (`closing`) until the loop closes it. `token` is the adapter's single cancel token, which belongs to
the stream that started last. `RealtimeWorker` adds `_run`, with control before microphone, and `AdvanceEpoch`, shared by the
control message (which queues a flush in the same step) and by the socket (which does not). The
detectors' results are a choice here; `AudioInput` has them in full. `DuplexSession` adds the drain task, the downlink queue
and the sockets; `session` runs through `stop`.

### SessionLifecycle

`object[r].at` is the await at which `start` or `stop` of the session of request `r` is; `renewer` its two
renew loops: created (`new`), running, over, or ended by an exception. The two pools appear as what
`FairLease` guarantees: a worker has one holder, known by its session id. All requests compete for one
voice and one avatar. A failed start undoes nothing, as in the code; the reaper (`Expires`) takes what
nobody renews. `MaxSessions` is compared when a request arrives and counted when it is open.
`RenewedLeaseHeld` speaks of sessions whose renew loop runs: one whose loop ended before the session was
running (`duplex.py:183`) may lose its worker. `NoOrphans` excepts failed starts, whose consumer runs on.

### Detectors, AsrClient, AudioInput

The detectors are records with an operator per method; a sound level is one of the three that the
thresholds tell apart, and a recognised text is the epoch in which it was heard. `AsrClient` follows
`_connect_once`, `_supervise`, `_read_loop`, the send tasks under `_send_lock`, and `close`, with the
connections numbered; the service at the other end is external. `AudioInput` processes frames and
advances the epoch with one or the other. A session never uses the supervisor: it calls plain `connect`
(`duplex.py:190`), after which a drop is final (`ears = "connect"` in `InputInit`). The supervisor
and `HearsAgain` are about callers of the library's `connect_with_reconnect`, as in `tests/audio_in/test_reconnect.py`.

### AdaptiveQuality, SentenceStream, AvatarWorker

The tier controller with gap rates of three kinds and an average that is low or high: an exponential
average lies between its old value and the sample, which is all `AveragesAfter` says. `SentenceStream`
is `split_sentences` and the loop around it over five kinds of characters; a piece that has been passed
on is known by its first and last position in the answer. `AvatarWorker` is one call of
`synthesize_video_stream` per batch, its thread in three steps (gather the latents, paste, advance), and
what `cancel_epoch` and `stop` of the adapter do to it; a picture is the pair of reference frames that
its face and its body come from. `shown` and `skipped` are history variables: the frame of the last picture, and
how many pictures interruptions have cut away since, for which the index has gone on all the same.

## Runs

| Run | Instance | Question |
|---|---|---|
| `pool_open` | 2 sessions, 3 resources, 2 calls, cap 2, eviction above 1 | Are the tables consistent, and grants in order, with expiry, cancellation and overlapping acquires? |
| `pool_live` | 2 sessions, 2 resources, 2 calls, cap 2, no cancellation | Does every acquire end, and is every expired lease reclaimed? |
| `pool_fair` | 3 sessions, 3 resources, 3 calls, cap 2, clients that keep the rules | Is the pool a `FairLease`? Do its loads stay within the cap? |
| `pool_shared` | the same, leases may expire | Violation: two sessions lease one worker. |
| `stream_open` | 2 producers, queue of 2, 3 epochs, chunks of up to 2 batches, 2 transition frames, everything may raise, nobody connected | Is no interrupted epoch inferred, does nobody wait in vain, does the transition lead? |
| `stream_client` | 1 producer, queue of 1, 3 epochs, 1 client with a queue of 2 | Does the order survive to the client? Is every transition played or superseded? Does every socket end? |
| `player` | 2 players, queues of 1, 3 frames, 2 epochs, 2 backgrounds, 2 decodes | Do epochs ascend and carry their mark? Is a mouth drawn on its own background? |
| `talk` | 2 turns of 2 and 1 sentences, output queue of 2, history of 2, an interruption by socket or message | Are sentences heard in order, does the lock follow the synthesis, does the history hold pairs? |
| `talk_end` | 2 turns, 2 and 1 chunks, output queue of 1, failing engine, interruption by message | Does the drain take every flush, and nothing old after it? Does the drain survive, does every sentence end? |
| `engine` | the same | Violation: two threads are inside the voice engine. |
| `parts` | 2 duplex and 1 push session, limit 1; 2 players, 5 tiers; texts of 5 characters | Do leases stay and come back, does shutdown end? Does quality return, and only when verified? Are long sentences spoken? |
| `ears_face` | 3 connections, 3 epochs; 2 sessions on one avatar worker of 4 reference frames, batches of 2 | Does the worker act on what is current, and the supervised client hear again? Does the picture jump no further than what was cut away, and the engine come free? |

What the violations say of the code:

* `pool_shared`: `acquire` renews an existing lease in place (`pool.py:284-288`) without asking whether
  it has expired, though another session may hold the worker since (`295-298`). `pool.py:24-25`
  promises one session per worker.
* `engine`: cancelling a task that awaits `asyncio.to_thread` (`voice/worker.py:212`) gives up the lock
  while the thread is still inside the engine, which `voice/worker.py:17-19` calls not thread-safe. The
  avatar worker does the same (`worker.py:179`): see the last point below.

### Divergences seen while modelling, without a run

The models behave like the code in each of these; the constant named shows the divergence.

* `MaySend = TRUE` with `DrainAlive`: a socket's `cancel` or `epoch` (`ws_routes.py:135-154`) purges the
  output queue without a flush event; a drain task that is already awake pops an empty deque
  (`queues.py:58`) and dies. For interruptions by control messages `DrainAlive` is checked and proved.
* `sentence_stream` takes a piece out of its buffer before it finds it too short (`text_source.py:83-87`):
  an answer that is one short sentence with its mark, such as "好。", is never spoken, against the
  docstring (`76-77`). `LongSentencesSpoken` is stated of sentences of `min_piece_chars` characters.
* The session limit is compared per table and before the awaits of `start` (`session_manager.py:53`);
  opens that overlap all pass, and push and duplex sessions count apart (README.md:182).
* The tier gets worse after `MIN_HOLD_REPORTS // 2` reports (`adaptive.py:135`), not `MIN_HOLD_REPORTS`
  (`112`). With four players of whom one is congested, the healthy reports of the others form the
  streak that restores the tier, again and again (`adaptive.py:142`; README.md:54 says it does not flap).
* The keyframe a client connected for may be dropped by its full queue after its request was cleared
  (`ws_sink.py:270-277`); the next keyframe interval repairs it.
* `MayFailEncode = TRUE`: the pending boundary is cleared before the frame is encoded
  (`ws_sink.py:230-254`), and an encoder that fails loses it.
* The error streak of the adapter is reset only when already degraded (`adapter.py:391-393`).
* Push sessions never renew their avatar; a failed start keeps its leases until they expire
  (`FailedLeaseEnds` says that they do). With an odd `HistoryLimit` the history starts with an answer.
* Two sessions under one id (`IdOf` not injective): the release of the old one takes the worker of the new.
* A remote final result that was buffered before an interruption is answered after it
  (`remote_asr.py:62`); `close` during a first `connect` leaves that connection open
  (`realtime_asr_client.py:90`). `MayStall = TRUE`: a send that hangs on a lost connection until the next
  one is up clears the flag of the new one, and nobody reconnects it.
* The downlink queue is not purged by an interruption, and when full it loses the flush: `duplex.py:325` does not
  look at the answer of `try_enqueue`. So `FlushTaken` and `NothingAfterFlush` end at the drain: they say that the drain takes
  the flush of every interruption and no older audio after it, not that a client hears of it.
* `MayCancel = TRUE` with `WithinLoadCap` or `LoadsSerialized`: an acquire that is cancelled while its factory runs
  (`pool.py:542`) gives up the pool's lock, and the thread runs on. The next load overlaps it, though `pool.py:17-20` says
  that loads are serialized because GPU initialization is not thread-safe; and the load of the thread is not counted, so the
  workers loaded and being loaded can be one more than `max_workers`, the "hard load cap" (`pool.py:38`). Both are
  checked or proved for acquires that are not cancelled, and the theorems say so.
* A lost frame does damage with the region codec. When the full frame of another background is dropped for a client
  (`ws_sink.py:277`), the patches after it are encoded against it and drawn on the old background, until the next full frame:
  against `region_codec.py:17-19` ("a lost frame never corrupts the stream; the next frame restores correctness"),
  `ws_sink.py:21-23` and README.md:53. The player sees the gap and asks for a keyframe, but draws meanwhile
  (`player.js:156-192`). Dropping `d.sure` from `PictureMatches` shows it; the property is stated of frames before which
  the player has seen no gap.
* A client that loses the very frame that carries the boundary flag sees only the gap in the numbers: `BoundaryIsMarked`
  speaks of frames with consecutive numbers.
* The avatar does jump. `_infer_batch` advances the index for a whole batch (`musetalk_worker.py:402`) of which an
  interruption shows a part, and the transition is drawn on the neutral frame (`:453`); `SmoothMotion` bounds the first jump by
  the number of pictures cut away and leaves transition frames out. The thread of a stopped session moves the index
  under the batch of the next one, whose mouths may then be drawn on other frames than they were computed for:
  these batches (`shaken`) are excepted.

### Bounds and why they are enough

* Three sessions are the fewest with a holder, a first and a second in line, which order and
  overtaking need; with overlapping and cancelled acquires two sessions already give two waiters and
  a holder that differs. Two resources make a session move from one to the other and make eviction
  choose; a third puts the load cap to the test. One more worker object than can be loaded lets a resource be loaded anew.
  `pool_live` leaves cancellation out (its graph is too large otherwise), but keeps the other way to a
  lease nobody uses, a timeout that wins against a grant. Sessions, calls and workers are symmetric; symmetry is used for safety only.
* Three epochs are an interruption of an interruption. Queues of one and two fill up, drop, block a
  producer and hold more than one item. One batch in flight and one to come is what the token checks tell apart.
* `SeqMod` is the code's 2^16 where the player looks for gaps; it is 1, no number, in the stream runs, which do not.
* `talk` has two sentences of one turn and one of the next, which order and the lock need, and `talk_end` two
  chunks of one sentence, which a cancellation between chunks needs; one interruption separates old from new.
  A history of two messages is trimmed by the second turn.
* Three sessions on one worker of each kind: one holds, one waits or times out, one starts when it is free.
* Three connections are two reconnects, the second after a first that worked; queues of two messages and two
  results hold one of each side of a drop.
* Two players make one streak of two sources; tiers and streaks have the code's lengths.
* Texts of five characters with a minimum of two hold two full sentences and a rest, cut into chunks of one or two.
* Four reference frames and batches of two put the turns of the back-and-forth at a batch's end and, once a silent
  or a failing batch has gone between, at any; an interruption that cuts one picture away still bounds the next
  (two frames of four are up to three apart).
* `MaxSeq`, `MaxEpoch`, `MaxConnections`, `MaxOut`, `MaxReplies`, `MaxGap`, `MaxText`, `MaxDecoding`, `Pieces`
  and `Chunks` bound the environment, not the code.
* `CHECK_DEADLOCK FALSE` stands where the system really stops: sessions that are closed, texts that are
  over, streams without clients.

Type invariants (`TypeOK`, `SinkTypeOK`, `StreamTypeOK`, `DuplexTypeOK`) are proved, and the runs spend their
time on the others.

### Fairness

* Pool: the factory returns or raises, whether its task still waits for it or not, timers fire, tasks that can run do run; `asyncio.Lock` is FIFO,
  so steps that need it get strong fairness. Nothing is assumed of clients.
* Sink and stream: socket tasks run and their half-second timers fire; the consumer's task runs and
  inference returns. Nothing is assumed of producers, of clients, or that a session is ever stopped.
* Duplex session: tasks run, threads return, generators are finalized, a stop that began goes on. Nothing is
  assumed of clients, of the network, or that a model ends its answer.
* Lifecycle: tasks and the reaper run, a shutdown closes what is registered. Starts are fair, as acquire has a timeout.
* Audio input: timers and tasks run; the service lets an attempt succeed again and again (strong fairness
  of the handshake, which is enabled again at each attempt).
* Adaptive quality: every player reports again and again, by its half-second timer (`player.js`).
* Avatar worker: threads return, the consumer's task goes on, generators are finalized.

## Proofs

`WorkerPool_proofs` proves, for any sets of sessions, calls and workers and any finite set of resources,
`PoolTypes`, `PoolQueues`, `PoolStaffed`, `PoolPinned` and `PoolLoadsSerialized`. They need one another:
that a queue has a worker needs that eviction sees its queue, hence that waiters are queued where they
say, hence the types; so the inductive invariant `IInv` is their conjunction, put as predicates of the
record `Pool` (`PoolOK`), of the worker tables (`TablesOK`) and of the loader (`LoadsOK`), because within
one step the code rewrites leases, queues and calls several times. `DispatchedOK`, `ReleasedOK` and
`LeasedOrQueuedOK` say that each rewriting keeps `PoolOK`; every action is then a composition of
them, with a lemma of its own (`AcquireLoadedOK`, `LoadReturnsOK`, `RemoveWaiterOK`, ...), and
`NextIInv` puts them together. `LeastNat` (the first eligible waiter exists) comes from the well-foundedness of `<`.

`WorkerPoolService_proofs` builds on it, with five results; each condition is a part of the statement:

* `PoolLoadCap`, for `~MayCancel`, as is `PoolLoadsSerialized`: a load in flight is counted, and an eviction can only lower
  the count. With cancellation neither holds of the code, as a detached thread is in no table.
* `PoolGrantsInOrder`, an action property: `DispatchedInOrder` for one dispatch, lifted to each action that dispatches.
* `PoolExclusive`, for `~MayExpire` (the run `pool_shared` shows the promise broken when a lease expires): all leases
  stay alive and of different resources (`Kept`), as a dispatch follows the end of the only lease of its resource and the
  tail of `acquire` grants only when none is alive; and by `PoolPinned` different resources have different workers.
* `PoolNoLostWakeup`, for `~MayOverlap` and `~MayCancel`, leases that expire included, from `Awaited`: a queue has a
  lease (`Waited`); a session has one call (`OneAcquire`); and a session whose call is loading or queued holds no lease
  (`EmptyHanded`). Without the last a grant could replace the lease another queue waits for, and nobody would dispatch it.
* `PoolImplementsFairLease`, for all three: step by step, the pool is the service `FairLease`. Each rewriting of the
  record moves each resource as one step of the service or leaves it (`Moves`): `DispatchedFair`, `ReleasedFair`,
  `LeasedOrQueuedFair`; a migrating session steps at two resources at once. The mapping takes sessions for calls,
  so the proof needs `OneAcquire`; the holder is well defined by `Kept`; and a call that leaves its
  queue by itself has timed out, hence is late (`TimedLate`). A `stop` is the service's `Close`.

`DuplexSession_proofs` proves six results, each from an invariant of its own:

* `LockFollowsSynthesis` from `LockInv`: besides types (`SpeechTyped`) and the equivalence itself, that whoever is
  still to be started is in `ready`, that whoever queues for the lock is `queued`, and that sentences to come have
  no task yet. Without these a created or a queued task could take the lock on another's behalf.
* `NothingFollowsFlush` from `OutputInv`: the queue's epoch is the session's, every piece of speech in it is of
  that epoch, and no flush, queued or already sent, is newer: the purge, the flush and the epoch move in one step.
* `DrainStaysAlive` from `AliveInv`, for `~MaySend`: a drain task that has been woken finds an item. Every purge is
  followed by a flush into a queue that has just been emptied, so there is room for it.
* `HistoryKeepsPairs` from `PairsInv`, for an even `HistoryLimit`: question and answer are appended together or not at all.
* `SentencesStayInOrder` from `LineInv` and `SaidInv`. `LineInv`: the holder of the inference lock, its queue and the
  ready tasks stand in one line, by sentence within a turn; a task joins at its end and never overtakes. `SaidInv`:
  the queued audio and what was last passed on are in order, and nobody in the line is of an earlier sentence than
  what has been emitted. The first needs the lock to be FIFO, the second a chunk to be emitted while it is held.
* `DuplexTypeCorrect` from `DuplexTyped`. The declared types bound the epochs, which no step does by itself: an epoch
  moves when a control message is taken, long after it was sent. `ControlInv` counts: the epoch and the interruptions
  still queued (`Asked`) together never exceed those asked for. What is created, queued or spoken is of the current
  epoch or before (`TasksInv`, `EventsInv`, `FramesInv`), and no queue holds more than its capacity. It also proves
  that a purge finds no frame to keep (`FramesPurged`).

`Parts_proofs` has three sections.

* `SessionLifecycle`: `LifecycleTypeCorrect`, and for sessions with ids of their own (`OwnId`)
  `RenewedLeaseIsHeld`, `OrphansNever` and `ClosedGaveBack`, for any number of sessions. `LifecycleInv` adds to what
  they say that a session at a stage holds the leases it has taken and not given back unless its loop is over,
  that no renew loop is dead, that loops have ended when a session is closed, that a session runs exactly while
  it is open, that what is open is registered and the tables hold only that, and that nobody is being started after a
  shutdown. So the stage `broken` (stop ended by the exception of a renewal, `duplex.py:216`) is never reached.
* `AdaptiveQuality`: `AdaptiveTyped` and `RecoveryIsVerified`, for any numbers of players and tiers
  and any streak, from `StreakInv`: the last `streak` reports were healthy.
* `SentenceStream`: `LongSentencesAreSpoken`, for any texts, however cut into chunks, and any minimum. The buffer is
  the answer behind the last end of a sentence that has arrived (`BufferIsRest`); what has left the buffer is covered
  by pieces, which ascend (`PiecesAscend`, `ReachedSpoken`), unless a sentence was short. That there is a last end of a
  sentence before a position comes from the well-foundedness of `<` (`WFMin`), not from induction.

`EarsFace_proofs` has two.

* `AudioInput`: `ActsOnCurrentAlways`, for the in-process detectors and for the remote ones, with any numbers of
  connections and epochs. `HeardNow`: what the recogniser has pending was heard in this epoch, and an
  utterance that waits for its end has seen the speech end in it, or will. `HeardHere`: until the client is closed, a result on its way or in the buffer came over the connection in use;
  a reconnect therefore has to empty the buffer before the next connection is up, and it does.
* `AvatarWorker`: `MovesSmoothly`, for any number of reference frames, batch sizes and sessions. The invariant `Smooth`
  says of a session that is not stopped that whatever is to be shown next, whether the shared index, a thread or the
  returned frames have it, is within reach of the picture shown last: next to it, or one frame further for every picture cut away
  since (`Follows`). It rests on lemmas about the back-and-forth index, by the uniqueness of quotient and remainder:
  `MirrorReach`, `n` steps of the index move the frame by at most `n`, over every turn; `MirrorRange`, no two frames are
  further apart than `Length - 1`; and `CutAwayReaches`, the rest of a batch that is cut away adds its length to the reach.

`VideoSink_proofs` has no theorem of a specification, as queue and sink are driven by others. For each
operation of the loop-free queue it proves what it keeps of `Served`, that getters wait only when there is
no item, and putters only when there is no room; and for each step of sink and sockets, that the frames on their
way to a client (seen last, handed over, queued) stay in whatever order they are in, as `Lined` says for any relation: an
offer that discards the oldest frame, and a timeout that returns a frame to the queue, keep it. The order of
the epochs, of the boundary marks and of the mouth frames are instances, so `SinkInv` holds for both drivers.

`AvatarStream_proofs` proves, for any number of producers and any capacity:

* `StreamTypeCorrect` and `NobodyIsStuck` from `StreamTyped`: types, that a producer or a consumer that is at work
  has a chunk, and `Served` of the PCM queue.
* `StaleIsNotInferred`, from `StreamTyped` and `TokenTells`: the token of the chunk in hand is cancelled as soon as the chunk is stale, so that the
  next batch of a chunk whose thread was running is not started; a chunk that is taken is compared with the epoch.
* `TransitionsLead` from `OrderInv`: `cancel_epoch` puts the sentinel into a queue it has just emptied, so it is at its
  head (`SentinelsLead`), and whatever is ahead of it, on its way to the consumer or in its hands, is older
  (`NothingAhead`); only the consumer ever waits for items (`OneConsumer`), so a handed-off item cannot be overtaken.
* `StreamEpochsAscend`, the instance of the sink's order for this driver.
* `MouthClosesFirst`, the end-to-end form of `TransitionsLead`: in what a client is to see, speech of an epoch never comes
  before the transition of that epoch, from `MouthInv`: frames stand in this order (`MouthOrder`), and
  none is ahead of what was shown last.

`RegionPlayer_proofs` proves, for any number of players, with frames and patches lost anywhere:

* `EpochsAlwaysAscend`, `ClientsAreServed` and `SinkTypeCorrect` from `SinkInv`.
* `BoundariesAreMarked`, if `~MayFailEncode` and `MaxSeq < SeqMod`, from `BoundaryInv`: of two frames with consecutive
  numbers and different epochs the second is a marked keyframe; and the next frame will be, whenever the sink's epoch
  has moved since the last. An encoder that fails has used up the mark, and numbers of 16 bits that
  come round may hide a gap: the theorem says which conditions the protocol needs.
* `PicturesMatch`, under the same conditions, from `PictureInv`: the background of each sequence number (`wire`)
  explains what the encoder holds as its base, and what each player has drawn or is decoding. A mouth
  is then drawn on another background only after a gap the player has noticed (`sure`).

Assumptions: the named ASSUMEs of the modules (limits and capacities are natural numbers; `None` is no lease, sentence,
frame or number; resources are finite), and the conditions named above, each a part of the theorem's statement.

Every invariant and every action property that a passing run checks is stated by a theorem, and so is the refinement.
Only model-checked is liveness, as fairness and ENABLED are out of the prover's reach: `AcquireEnds`,
`ExpiredIsReclaimed`, `SentinelConsumed`, `EveryClientEnds`, `EverySentenceEnds`, `FlushTaken`, `FailedLeaseEnds`,
`ShutdownEnds`, `QualityReturns`, `HearsAgain`, `EngineComesFree`. They hold for the bounds above.

## Not modelled

* Within what is modelled: payloads, presentation times, counters, what a tier does to a frame, the re-spawn
  of the consumer for another event loop (embedding in a test portal), a getter whose loop is closed, TTS back ends
  without `synthesize_stream`, push-to-talk and echo cancellation (they change which frames count, not what happens then),
  the microphone's re-chunking, a voice pool owned by one session, the acknowledgements of the remote service.
* `runtime/valley.py`: the cut at an acoustic valley needs a TTS adapter with `pending_audio_tail`, and the one in use has none.
* `StaticAvatarWorker` and `BoundedFrameBuffer`: the first keeps no state, nothing uses the second.
* Face processing, neural networks, avatar preparation, the codec's pixels, NLMS: numeric code that shares no
  state between tasks; a model of it would show nothing.
* HTTP plumbing, authentication, settings, metrics, the scripts (two fifths of the implementation
  lines, most of them evaluation harnesses), command-line and batch tools: sequential I/O around the components above. This is why the map covers
  an eighth of all lines: it covers most of the code that runs concurrently.
