------------------------------ MODULE WorkerPool ------------------------------
(***************************************************************************)
(* The generic worker pool (liveavatar/_common/pool.py, leases in          *)
(* _common/lease.py), which hands GPU workers to sessions.  The avatar     *)
(* pool and the voice pool are this class with other factories.            *)
(*                                                                         *)
(* Everything runs on one asyncio loop, so a step is the code between two  *)
(* awaits.  `self._lock' is held across an await in one place only, the    *)
(* asyncio.to_thread of _load_worker: `loader' is the call that holds it   *)
(* there, and an operation that needs the lock is enabled when there is no *)
(* loader.  Time is abstract: a lease is expired or not, a call's deadline *)
(* has passed or not, and a step of the environment makes it so.           *)
(***************************************************************************)
EXTENDS Integers, Sequences, FiniteSets

CONSTANTS
    Sessions,      \* session ids
    Resources,     \* the ids of the discovered resources (_resources)
    Calls,         \* tasks that may be running `acquire'
    Workers,       \* worker objects; a load makes a fresh one
    Preloaded,     \* _preloaded_resource_ids
    MaxWorkers,    \* _max_workers, the load cap
    MaxLoaded,     \* _max_loaded_workers, the eviction threshold; 0 = unlimited
    MayExpire,     \* whether a lease may outlive its TTL without a renewal
    MayCancel,     \* whether the task of a pending acquire may be cancelled
    MayOverlap,    \* whether one session may have two acquires outstanding
    None           \* no session, resource, worker, lease or call

(***************************************************************************)
(* MaxWorkers may be any natural number, 0 included: int(config) is not    *)
(* validated by the pool.                                                  *)
(***************************************************************************)
ASSUME PoolAssumption ==
    /\ Preloaded \subseteq Resources
    /\ MaxWorkers \in Nat /\ MaxLoaded \in Nat
    /\ {MayExpire, MayCancel, MayOverlap} \subseteq BOOLEAN
    /\ None \notin Sessions \cup Resources \cup Calls \cup Workers
    /\ None \notin [resource : Resources, worker : Workers, expired : BOOLEAN]
    /\ IsFiniteSet(Resources)

VARIABLES
    phase,      \* "starting" (preloading) | "running" | "stopped"
    workers,    \* _workers: the worker loaded for a resource
    older,      \* the order of _loaded_at: <<a, b>> when a was loaded before b
    leases,     \* _leases: the lease of a session
    queues,     \* _waiters: the FIFO of calls waiting for a resource
    calls,      \* what each acquire task is doing
    loader,     \* the call that is loading a worker with _lock held
    reaping     \* the sessions _reap_expired still has to visit

vars == <<phase, workers, older, leases, queues, calls, loader, reaping>>

-----------------------------------------------------------------------------
(* Leases and calls.                                                       *)

Lease == [resource : Resources, worker : Workers, expired : BOOLEAN]

NewLease(r, w) == [resource |-> r, worker |-> w, expired |-> FALSE]

(***************************************************************************)
(* A call's status.  queued: awaiting the future of a waiter that is in    *)
(* its queue.  granted, refused: dispatch or stop has resolved the future  *)
(* and the task has not run yet.  timedout: wait_for gave up and the task  *)
(* is about to take the lock and remove its waiter.  abandoned: the task   *)
(* was cancelled and its waiter is still queued.  detached: the task was   *)
(* cancelled while the factory ran in its thread, and the thread goes on.  *)
(***************************************************************************)
(* The task of the call is over; its waiter or its thread is left behind.  *)
LeftBehind == IF MayCancel THEN {"abandoned", "detached"} ELSE {}

Statuses ==
    {"idle", "loading", "queued", "granted", "refused", "timedout"} \cup LeftBehind

IdleCall == [status |-> "idle", session |-> None, resource |-> None, late |-> FALSE]

ActiveCall == [status   : Statuses \ {"idle"},
               session  : Sessions,
               resource : Resources,
               late     : BOOLEAN]

CallOf(s, r, st) == [status |-> st, session |-> s, resource |-> r, late |-> FALSE]

Outstanding(s) == {c \in Calls : calls[c].session = s /\ calls[c].status \notin LeftBehind}

InQueue(c, r) == \E i \in DOMAIN queues[r] : queues[r][i] = c

Loaded == {r \in Resources : workers[r] # None}

(* The calls whose factory thread is running.                              *)
Building == {c \in Calls : calls[c].status \in {"loading", "detached"}}

\* Mutant: one worker too many.
AtCap_OffByOne == Cardinality(Loaded) > MaxWorkers

AtCap == Cardinality(Loaded) >= MaxWorkers

(* A worker object no load has produced, or that nothing refers to now.    *)
FreshWorkers ==
    {w \in Workers : /\ \A r \in Resources : workers[r] # w
                     /\ \A s \in Sessions : leases[s] # None => leases[s].worker # w}

-----------------------------------------------------------------------------
(***************************************************************************)
(* The state that the code under the lock rewrites, as one record: leases, *)
(* queues and calls.  _release_locked, _dispatch_waiter_locked and the     *)
(* tail of acquire follow one another within a step.                       *)
(***************************************************************************)
Pool == [leases |-> leases, queues |-> queues, calls |-> calls]

Install(p) == leases' = p.leases /\ queues' = p.queues /\ calls' = p.calls

(* What becomes of a call whose waiter is popped off its queue.            *)
Resolved(k) ==
    CASE k.status = "queued" /\ k.late  -> [k EXCEPT !.status = "refused"]
      [] k.status = "queued" /\ ~k.late -> [k EXCEPT !.status = "granted"]
      [] k.status = "abandoned"         -> IdleCall
      [] OTHER                          -> k

Eligible(p, q) == {i \in 1..Len(q) : ~p.calls[q[i]].late}

(***************************************************************************)
(* _dispatch_waiter_locked(r): waiters are popped until one has not passed *)
(* its deadline; that one gets a lease, whether or not somebody still      *)
(* awaits its future and whatever lease its session holds.                 *)
(***************************************************************************)
\* Mutant: the queue is served from its other end.
Popped_Lifo(p, q) ==
    IF Eligible(p, q) = {}
    THEN Len(q)
    ELSE CHOOSE i \in Eligible(p, q) : \A j \in Eligible(p, q) : i >= j

Popped(p, q) ==
    IF Eligible(p, q) = {}
    THEN Len(q)
    ELSE CHOOSE i \in Eligible(p, q) : \A j \in Eligible(p, q) : i <= j

Dispatched(p, r) ==
    LET q == p.queues[r]
        n == Popped(p, q)
    IN  IF workers[r] = None
        THEN p
        ELSE [leases |-> IF Eligible(p, q) = {}
                         THEN p.leases
                         ELSE [p.leases EXCEPT ![p.calls[q[n]].session] = NewLease(r, workers[r])],
              queues |-> [p.queues EXCEPT ![r] = SubSeq(q, n + 1, Len(q))],
              calls  |-> [c \in Calls |-> IF \E i \in 1..n : q[i] = c
                                          THEN Resolved(p.calls[c])
                                          ELSE p.calls[c]]]

\* Mutant: the lease is dropped and nobody is woken.
Released_NoDispatch(p, s) == [p EXCEPT !.leases[s] = None]

(* _release_locked(s).                                                     *)
Released(p, s) ==
    IF p.leases[s] = None
    THEN p
    ELSE Dispatched([p EXCEPT !.leases[s] = None], p.leases[s].resource)

\* Mutant: the test of expiry is the wrong way round.
Busy_ExpiredOnly(p, w) ==
    \E s \in Sessions : /\ p.leases[s] # None
                        /\ p.leases[s].worker = w
                        /\ p.leases[s].expired

(* The test of acquire: a lease that has not expired names this worker.    *)
Busy(p, w) ==
    \E s \in Sessions : /\ p.leases[s] # None
                        /\ p.leases[s].worker = w
                        /\ ~p.leases[s].expired

\* Mutant: a new waiter goes to the head of the queue.
LeasedOrQueued_AtHead(p, c, s, r, w) ==
    IF Busy(p, w)
    THEN [p EXCEPT !.queues[r] = <<c>> \o @, !.calls[c] = CallOf(s, r, "queued")]
    ELSE [p EXCEPT !.leases[s] = NewLease(r, w), !.calls[c] = IdleCall]

(* The tail of acquire, once the worker w of r is there.                   *)
LeasedOrQueued(p, c, s, r, w) ==
    IF Busy(p, w)
    THEN [p EXCEPT !.queues[r] = Append(@, c), !.calls[c] = CallOf(s, r, "queued")]
    ELSE [p EXCEPT !.leases[s] = NewLease(r, w), !.calls[c] = IdleCall]

-----------------------------------------------------------------------------
(* acquire(s, r), by call c.                                               *)

MayAcquire(c, s) ==
    /\ phase # "starting"
    /\ loader = None
    /\ calls[c].status = "idle"
    /\ MayOverlap \/ Outstanding(s) = {}

HoldsLeaseOn(s, r) == leases[s] # None /\ leases[s].resource = r

(* The session holds a lease on r already: renewed in place, even when it  *)
(* has expired.                                                            *)
AcquireRenews(c, s, r) ==
    /\ MayAcquire(c, s)
    /\ HoldsLeaseOn(s, r)
    /\ leases' = [leases EXCEPT ![s].expired = FALSE]
    /\ UNCHANGED <<phase, workers, older, queues, calls, loader, reaping>>

(* The worker is loaded: the session migrates and is served or queued.     *)
AcquireLoaded(c, s, r) ==
    /\ MayAcquire(c, s)
    /\ ~HoldsLeaseOn(s, r)
    /\ workers[r] # None
    /\ Install(LeasedOrQueued(Released(Pool, s), c, s, r, workers[r]))
    /\ UNCHANGED <<phase, workers, older, loader, reaping>>

(* The worker is not loaded and the cap is reached: GpuMemoryExhausted,    *)
(* after the old lease is gone.                                            *)
AcquireAtCap(c, s, r) ==
    /\ MayAcquire(c, s)
    /\ ~HoldsLeaseOn(s, r)
    /\ workers[r] = None
    /\ AtCap
    /\ Install(Released(Pool, s))
    /\ UNCHANGED <<phase, workers, older, loader, reaping>>

(* The worker is not loaded: the factory runs in a thread, under the lock. *)
AcquireLoads(c, s, r) ==
    /\ MayAcquire(c, s)
    /\ ~HoldsLeaseOn(s, r)
    /\ workers[r] = None
    /\ ~AtCap
    /\ Install([Released(Pool, s) EXCEPT !.calls[c] = CallOf(s, r, "loading")])
    /\ loader' = c
    /\ UNCHANGED <<phase, workers, older, reaping>>

(* The worker w enters _workers and _loaded_at as the youngest.            *)
AddWorker(r, w) ==
    /\ workers' = [workers EXCEPT ![r] = w]
    /\ older' = older \cup {<<a, r>> : a \in Loaded}

LoadReturns(c) ==
    /\ loader = c
    /\ loader' = None
    /\ LET s == calls[c].session
           r == calls[c].resource
       IN  \E w \in FreshWorkers :
               /\ AddWorker(r, w)
               /\ Install(LeasedOrQueued(Pool, c, s, r, w))
    /\ UNCHANGED <<phase, reaping>>

(* The factory raises.                                                     *)
LoadFails(c) ==
    /\ loader = c
    /\ loader' = None
    /\ calls' = [calls EXCEPT ![c] = IdleCall]
    /\ UNCHANGED <<phase, workers, older, leases, queues, reaping>>

(* The task is cancelled while it awaits the thread: the lock comes free,  *)
(* the thread runs on.                                                     *)
CancelLoad(c) ==
    /\ MayCancel
    /\ loader = c
    /\ loader' = None
    /\ calls' = [calls EXCEPT ![c].status = "detached"]
    /\ UNCHANGED <<phase, workers, older, leases, queues, reaping>>

(* Nobody takes what that thread returns: its worker reaches no table.     *)
ThreadEnds(c) ==
    /\ calls[c].status = "detached"
    /\ calls' = [calls EXCEPT ![c] = IdleCall]
    /\ UNCHANGED <<phase, workers, older, leases, queues, loader, reaping>>

-----------------------------------------------------------------------------
(* The wait for the future.                                                *)

\* Mutant: the wait for the future has no timeout.
DeadlinePasses_Never(c) == FALSE

DeadlinePasses(c) ==
    /\ calls[c].status \in {"queued", "granted", "abandoned"}
    /\ ~calls[c].late
    /\ calls' = [calls EXCEPT ![c].late = TRUE]
    /\ UNCHANGED <<phase, workers, older, leases, queues, loader, reaping>>

(* The task runs after its future was resolved: acquire returns the lease  *)
(* or raises.                                                              *)
AcquireResumes(c) ==
    /\ calls[c].status \in {"granted", "refused"}
    /\ calls' = [calls EXCEPT ![c] = IdleCall]
    /\ UNCHANGED <<phase, workers, older, leases, queues, loader, reaping>>

(* wait_for's timer fires.  It can win against a future that was resolved  *)
(* in the same turn of the loop (asyncio.timeout, Python 3.12 and later).  *)
WaitTimesOut(c) ==
    /\ calls[c].status \in {"queued", "granted"}
    /\ calls[c].late
    /\ calls' = [calls EXCEPT ![c].status = "timedout"]
    /\ UNCHANGED <<phase, workers, older, leases, queues, loader, reaping>>

\* Mutant: the timed out call pops the head of the queue.
Removed_Head(q, c) == IF q = <<>> THEN q ELSE Tail(q)

(* deque.remove, for a waiter that may be gone already.                    *)
Removed(q, c) ==
    IF \E i \in 1..Len(q) : q[i] = c
    THEN LET i == CHOOSE j \in 1..Len(q) : q[j] = c
         IN  SubSeq(q, 1, i - 1) \o SubSeq(q, i + 1, Len(q))
    ELSE q

(* The handler of TimeoutError takes the lock, removes its waiter if it is *)
(* still queued, and raises PoolExhausted.                                 *)
RemoveWaiter(c) ==
    /\ calls[c].status = "timedout"
    /\ loader = None
    /\ queues' = [queues EXCEPT ![calls[c].resource] = Removed(@, c)]
    /\ calls' = [calls EXCEPT ![c] = IdleCall]
    /\ UNCHANGED <<phase, workers, older, leases, loader, reaping>>

(* The task is cancelled: CancelledError passes through the handler, so a  *)
(* queued waiter stays where it is and a granted lease stays granted.      *)
CancelAcquire(c) ==
    /\ MayCancel
    /\ calls[c].status \in {"queued", "granted", "refused", "timedout"}
    /\ calls' = [calls EXCEPT ![c] = IF InQueue(c, calls[c].resource)
                                     THEN [@ EXCEPT !.status = "abandoned"]
                                     ELSE IdleCall]
    /\ UNCHANGED <<phase, workers, older, leases, queues, loader, reaping>>

-----------------------------------------------------------------------------
(* release, renew and expiry.                                              *)

Release(s) ==
    /\ leases[s] # None
    /\ loader = None
    /\ Install(Released(Pool, s))
    /\ UNCHANGED <<phase, workers, older, loader, reaping>>

(* renew(s) takes no lock and looks at no deadline.                        *)
Renew(s) ==
    /\ leases[s] # None
    /\ leases' = [leases EXCEPT ![s].expired = FALSE]
    /\ UNCHANGED <<phase, workers, older, queues, calls, loader, reaping>>

LeaseExpires(s) ==
    /\ MayExpire
    /\ leases[s] # None
    /\ leases' = [leases EXCEPT ![s].expired = TRUE]
    /\ UNCHANGED <<phase, workers, older, queues, calls, loader, reaping>>

-----------------------------------------------------------------------------
(* The reaper task: _reap_expired, then _evict_overflow.                   *)

\* Mutant: the comparison with the deadline is the wrong way round.
ExpiredSessions_Live == {s \in Sessions : leases[s] # None /\ ~leases[s].expired}

ExpiredSessions == {s \in Sessions : leases[s] # None /\ leases[s].expired}

(* The expired sessions are collected without the lock.                    *)
ReapScan ==
    /\ phase = "running"
    /\ reaping = {}
    /\ reaping' = ExpiredSessions
    /\ UNCHANGED <<phase, workers, older, leases, queues, calls, loader>>

(* Each of them is released under the lock, whatever its lease is by then. *)
ReapOne(s) ==
    /\ s \in reaping
    /\ loader = None
    /\ reaping' = reaping \ {s}
    /\ Install(Released(Pool, s))
    /\ UNCHANGED <<phase, workers, older, loader>>

\* Mutant: a resource is evicted whoever uses it.
Evictable_Used(r) == workers[r] # None

(* A resource whose worker may be unloaded.                                *)
Evictable(r) ==
    /\ workers[r] # None
    /\ \A s \in Sessions : ~HoldsLeaseOn(s, r)
    /\ queues[r] = <<>>

Unload(E) ==
    /\ workers' = [r \in Resources |-> IF r \in E THEN None ELSE workers[r]]
    /\ older' = {p \in older : p[1] \notin E /\ p[2] \notin E}

(* Of the evictable workers, the least recently loaded ones go until no    *)
(* more than MaxLoaded are left or none can go.                            *)
EvictOverflow ==
    /\ phase = "running"
    /\ reaping = {}
    /\ loader = None
    /\ MaxLoaded > 0
    /\ Cardinality(Loaded) > MaxLoaded
    /\ LET idle == {r \in Resources : Evictable(r)}
           over == Cardinality(Loaded) - MaxLoaded
       IN  \E E \in SUBSET idle :
               /\ E # {}
               /\ IF over <= Cardinality(idle) THEN Cardinality(E) = over ELSE E = idle
               /\ \A a \in E, b \in idle \ E : <<a, b>> \in older
               /\ Unload(E)
    /\ UNCHANGED <<phase, leases, queues, calls, loader, reaping>>

EvictWorker(r) ==
    /\ loader = None
    /\ Evictable(r)
    /\ Unload({r})
    /\ UNCHANGED <<phase, leases, queues, calls, loader, reaping>>

-----------------------------------------------------------------------------
(* start and stop.                                                         *)

(* start loads without the lock; _ensure_pipeline keeps every acquire out  *)
(* until start has returned.                                               *)
Preload(r) ==
    /\ phase = "starting"
    /\ r \in Preloaded
    /\ workers[r] = None
    /\ ~AtCap
    /\ \E w \in FreshWorkers : AddWorker(r, w)
    /\ UNCHANGED <<phase, leases, queues, calls, loader, reaping>>

(* A preload that fails is logged and skipped.                             *)
StartReturns ==
    /\ phase = "starting"
    /\ phase' = "running"
    /\ UNCHANGED <<workers, older, leases, queues, calls, loader, reaping>>

(* stop takes no lock: a load in flight goes on and leases its worker.     *)
Stop ==
    /\ phase = "running"
    /\ phase' = "stopped"
    /\ reaping' = {}
    /\ leases' = [s \in Sessions |-> None]
    /\ queues' = [r \in Resources |-> <<>>]
    /\ calls' = [c \in Calls |->
                    CASE calls[c].status = "queued"    -> [calls[c] EXCEPT !.status = "refused"]
                      [] calls[c].status = "abandoned" -> IdleCall
                      [] OTHER                         -> calls[c]]
    /\ UNCHANGED <<workers, older, loader>>

-----------------------------------------------------------------------------

Init ==
    /\ phase = "starting"
    /\ workers = [r \in Resources |-> None]
    /\ older = {}
    /\ leases = [s \in Sessions |-> None]
    /\ queues = [r \in Resources |-> <<>>]
    /\ calls = [c \in Calls |-> IdleCall]
    /\ loader = None
    /\ reaping = {}

Acquire(c, s, r) ==
    \/ AcquireRenews(c, s, r)
    \/ AcquireLoaded(c, s, r)
    \/ AcquireAtCap(c, s, r)
    \/ AcquireLoads(c, s, r)

CallStep(c) ==
    \/ LoadReturns(c)
    \/ LoadFails(c)
    \/ CancelLoad(c)
    \/ ThreadEnds(c)
    \/ DeadlinePasses(c)
    \/ AcquireResumes(c)
    \/ WaitTimesOut(c)
    \/ RemoveWaiter(c)
    \/ CancelAcquire(c)

SessionStep(s) ==
    \/ Release(s)
    \/ Renew(s)
    \/ LeaseExpires(s)
    \/ ReapOne(s)

Next ==
    \/ \E c \in Calls, s \in Sessions, r \in Resources : Acquire(c, s, r)
    \/ \E c \in Calls : CallStep(c)
    \/ \E s \in Sessions : SessionStep(s)
    \/ ReapScan
    \/ EvictOverflow
    \/ \E r \in Resources : EvictWorker(r) \/ Preload(r)
    \/ StartReturns
    \/ Stop

Spec == Init /\ [][Next]_vars

-----------------------------------------------------------------------------
(* Properties.                                                             *)

(* Type invariant of the pool's tables.                                    *)
TypeOK ==
    /\ phase \in {"starting", "running", "stopped"}
    /\ workers \in [Resources -> Workers \cup {None}]
    /\ older \in SUBSET (Resources \X Resources)
    /\ leases \in [Sessions -> Lease \cup {None}]
    /\ queues \in [Resources -> Seq(Calls)]
    /\ calls \in [Calls -> ActiveCall \cup {IdleCall}]
    /\ loader \in Calls \cup {None}
    /\ reaping \in SUBSET Sessions

(* A queue holds nothing but waiters of its resource, each of them once.   *)
QueuesHoldWaiters ==
    /\ \A r \in Resources : \A i \in 1..Len(queues[r]) :
          /\ calls[queues[r][i]].resource = r
          /\ calls[queues[r][i]].status \in {"queued", "timedout", "abandoned"}
    /\ \A r \in Resources : \A i, j \in 1..Len(queues[r]) :
          queues[r][i] = queues[r][j] => i = j

(* Every call that awaits an unresolved future has its waiter queued.      *)
WaitersAreQueued ==
    \A c \in Calls :
        calls[c].status \in {"queued", "abandoned"} => InQueue(c, calls[c].resource)

(* No path through dispatch, timeout, cancellation, eviction or stop pops  *)
(* a waiter (_waiters) and leaves its future unresolved, or resolves the   *)
(* future and leaves the waiter to be served a second time.                *)
QueueDiscipline == QueuesHoldWaiters /\ WaitersAreQueued

(* _dispatch_waiter_locked gives up when the worker is gone (pool.py:382), *)
(* so a resource somebody waits for must keep its worker: neither eviction *)
(* path strands a queue.                                                   *)
WaitersHaveWorker ==
    \A r \in Resources : queues[r] # <<>> => workers[r] # None

(* _workers, _loaded_at and _leases agree: a lease names the worker that   *)
(* is loaded for its resource ("loaded once and never switched",           *)
(* pool.py:16-17), no worker object serves two resources, and _loaded_at   *)
(* orders exactly the loaded resources.                                    *)
WorkerTablesAgree ==
    /\ \A s \in Sessions : leases[s] # None => workers[leases[s].resource] = leases[s].worker
    /\ \A r, q \in Resources : workers[r] # None /\ workers[r] = workers[q] => r = q
    /\ \A r, q \in Resources :
          (<<r, q>> \in older \/ <<q, r>> \in older)
              <=> (r # q /\ workers[r] # None /\ workers[q] # None)

(***************************************************************************)
(* max_workers is the hard load cap (pool.py:38), counting the workers     *)
(* that are loaded and the factory threads that are building one, while no *)
(* acquire is cancelled.  A cancelled one takes its thread out of the      *)
(* pool's books, and one more load than the cap may then be in flight.     *)
(***************************************************************************)
WithinLoadCap == Cardinality(Loaded) + Cardinality(Building) <= MaxWorkers

(* First-touch initialization serializes pool-wide, because GPU init is    *)
(* not thread-safe (pool.py:18-20): no two factory threads run at once.    *)
(* The code keeps this only while no acquire is cancelled.                 *)
LoadsSerialized == \A c, d \in Building : c = d

(* Of the waiters of a resource, dispatch serves the first whose deadline  *)
(* has not passed: the queue is FIFO for those still willing to wait.      *)
GrantInOrder ==
    [][\A c \in Calls :
          calls[c].status = "queued" /\ calls'[c].status = "granted" =>
              LET q == queues[calls[c].resource]
              IN  \A i, j \in 1..Len(q) : i < j /\ q[j] = c => calls[q[i]].late]_vars

(* A worker is leased to at most one session (pool.py:26-27), counting the *)
(* leases that have not expired.                                           *)
ExclusiveWorker ==
    \A s, t \in Sessions :
        /\ leases[s] # None /\ ~leases[s].expired
        /\ leases[t] # None /\ ~leases[t].expired
        /\ leases[s].worker = leases[t].worker
        => s = t

(* A queue always has a lease to wait for, whose release or expiry will    *)
(* dispatch it: acquire queues only behind a lease, and no lease goes away *)
(* without a dispatch.                                                     *)
NoLostWakeup ==
    \A r \in Resources : queues[r] # <<>> => \E s \in Sessions : HoldsLeaseOn(s, r)

(***************************************************************************)
(* Fairness: the factory returns or raises, timers fire, a task that can   *)
(* run does run, and asyncio.Lock serves its waiters in FIFO order, hence  *)
(* strong fairness for the steps that need the lock.  Nothing is assumed   *)
(* of clients: they need not release, renew or cancel.                     *)
(***************************************************************************)
Fairness ==
    /\ \A c \in Calls :
          /\ WF_vars(LoadReturns(c) \/ LoadFails(c))
          /\ WF_vars(ThreadEnds(c))
          /\ WF_vars(DeadlinePasses(c))
          /\ WF_vars(AcquireResumes(c) \/ WaitTimesOut(c))
          /\ SF_vars(RemoveWaiter(c))
    /\ WF_vars(ReapScan)
    /\ \A s \in Sessions : SF_vars(ReapOne(s))

FairSpec == Spec /\ Fairness

(* Every acquire returns or raises in the end, unless its task was         *)
(* cancelled: no future is left pending and no lock is left held.          *)
AcquireEnds ==
    \A c \in Calls :
        calls[c].status \notin LeftBehind \cup {"idle"}
            ~> calls[c].status \in LeftBehind \cup {"idle"}

(* While the pool runs, a lease that has expired and is not renewed is     *)
(* reclaimed, the leases granted to calls nobody awaits among them.        *)
ExpiredIsReclaimed ==
    \A s \in Sessions :
        leases[s] # None /\ leases[s].expired
            ~> leases[s] = None \/ ~leases[s].expired \/ phase = "stopped"
=============================================================================
