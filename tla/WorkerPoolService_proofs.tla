---------------------- MODULE WorkerPoolService_proofs ----------------------
(***************************************************************************)
(* What the worker pool gives the sessions, proved from its inductive      *)
(* invariant (WorkerPool_proofs): the load cap, the order of grants, one   *)
(* session per worker when no lease expires, somebody to wait for, and,    *)
(* with all of these, that it implements FairLease.                        *)
(***************************************************************************)
EXTENDS WorkerPool_proofs, WorkerPoolFair

-----------------------------------------------------------------------------
(* The load cap.                                                           *)

(* The number of loaded workers, for a table that loses some of them.      *)
LEMMA LoadedFinite ==
    ASSUME PoolAssumption
    PROVE  /\ IsFiniteSet(Loaded) /\ Cardinality(Loaded) \in Nat
           /\ \A S \in SUBSET Loaded : Cardinality(S) \in Nat /\ Cardinality(S) <= Cardinality(Loaded)
<1>1. IsFiniteSet(Loaded)
  <2>1. Loaded \subseteq Resources
    BY DEF Loaded
  <2> QED
    BY <2>1, FS_Subset, Zenon DEF PoolAssumption
<1>2. Cardinality(Loaded) \in Nat
  BY <1>1, FS_CardinalityType, Zenon
<1>3. \A S \in SUBSET Loaded : Cardinality(S) \in Nat /\ Cardinality(S) <= Cardinality(Loaded)
  BY <1>1, FS_Subset, FS_CardinalityType, Zenon
<1> QED
  BY <1>1, <1>2, <1>3

(* The cap as the pool keeps its books: the load that holds the lock counts*)
(* with the loaded workers, a thread whose acquire was cancelled does not. *)
WithinBooks == Cardinality(Loaded) + (IF loader = None THEN 0 ELSE 1) <= MaxWorkers

LEMMA InitCap ==
    ASSUME PoolAssumption, Init
    PROVE  WithinBooks
<1>1. Loaded = {} /\ loader = None
  BY DEF Init, Loaded
<1>2. Cardinality(Loaded) = 0
  BY <1>1, FS_EmptySet, Zenon
<1> QED
  BY <1>1, <1>2 DEF WithinBooks, PoolAssumption

(* A step that loads nothing new and starts no load stays within the cap.  *)
LEMMA FewerLoaded ==
    ASSUME PoolAssumption, WithinBooks, Loaded' \subseteq Loaded, loader' \in {loader, None}
    PROVE  WithinBooks'
<1>1. Cardinality(Loaded') \in Nat /\ Cardinality(Loaded') <= Cardinality(Loaded) /\ Cardinality(Loaded) \in Nat
  BY LoadedFinite
<1> QED
  BY <1>1 DEF WithinBooks, PoolAssumption

(* A worker enters the table where there was none.                         *)
LEMMA OneMoreLoaded ==
    ASSUME PoolAssumption, TablesOK(workers, older), NEW r \in Resources, workers[r] = None,
           NEW w \in FreshWorkers, AddWorker(r, w)
    PROVE  Cardinality(Loaded') = Cardinality(Loaded) + 1
<1>1. w # None
  BY DEF FreshWorkers, PoolAssumption
<1>2. Loaded' = Loaded \cup {r} /\ r \notin Loaded
  BY <1>1 DEF Loaded, TablesOK, AddWorker
<1>3. IsFiniteSet(Loaded)
  BY LoadedFinite
<1> QED
  BY <1>2, <1>3, FS_AddElement, Zenon

LEMMA NextCap ==
    ASSUME PoolAssumption, IInv, WithinBooks, [Next]_vars
    PROVE  WithinBooks'
<1>1. Cardinality(Loaded) \in Nat /\ MaxWorkers \in Nat
  BY LoadedFinite DEF PoolAssumption
<1>2. CASE workers' = workers /\ loader' \in {loader, None}
  BY <1>2, FewerLoaded DEF Loaded
<1>3. ASSUME NEW c \in Calls, NEW s \in Sessions, NEW r \in Resources, AcquireLoads(c, s, r)
      PROVE  WithinBooks'
  <2>1. loader = None /\ loader' = c /\ workers' = workers /\ ~(Cardinality(Loaded) >= MaxWorkers)
    BY <1>3 DEF AcquireLoads, MayAcquire, AtCap
  <2>2. Loaded' = Loaded
    BY <2>1 DEF Loaded
  <2> QED
    BY <1>1, <2>1, <2>2 DEF WithinBooks
<1>4. ASSUME NEW c \in Calls, LoadReturns(c)
      PROVE  WithinBooks'
  <2>1. loader = c /\ loader # None /\ loader' = None
    BY <1>4 DEF LoadReturns, PoolAssumption
  <2>2. PICK w \in FreshWorkers : AddWorker(calls[c].resource, w)
    BY <1>4 DEF LoadReturns
  <2>3. calls[c].resource \in Resources /\ workers[calls[c].resource] = None
    BY <2>1, LoadingCall
  <2>4. TablesOK(workers, older)
    BY DEF IInv
  <2>5. Cardinality(Loaded') = Cardinality(Loaded) + 1
    BY <2>2, <2>3, <2>4, OneMoreLoaded
  <2> QED
    BY <1>1, <2>1, <2>5 DEF WithinBooks
<1>5. ASSUME NEW r \in Resources, Preload(r)
      PROVE  WithinBooks'
  <2>1. PICK w \in FreshWorkers : AddWorker(r, w)
    BY <1>5 DEF Preload
  <2>2. /\ workers[r] = None /\ TablesOK(workers, older)
        /\ ~(Cardinality(Loaded) >= MaxWorkers)
        /\ loader = None /\ loader' = None
    BY <1>5, IInvImplies DEF Preload, AtCap, IInv, LoaderOK
  <2>3. Cardinality(Loaded') = Cardinality(Loaded) + 1
    BY <2>1, <2>2, OneMoreLoaded
  <2> QED
    BY <1>1, <2>2, <2>3 DEF WithinBooks
<1>6. ASSUME NEW E, Unload(E), loader' = loader
      PROVE  WithinBooks'
  <2>1. Loaded' \subseteq Loaded
    BY <1>6 DEF Unload, Loaded
  <2> QED
    BY <1>6, <2>1, FewerLoaded
<1>7. CASE \E c \in Calls, s \in Sessions, r \in Resources : Acquire(c, s, r)
  BY <1>2, <1>3, <1>7 DEF Acquire, AcquireRenews, AcquireLoaded, AcquireAtCap
<1>8. CASE \E c \in Calls : CallStep(c)
  BY <1>2, <1>4, <1>8 DEF CallStep, LoadFails, CancelLoad, ThreadEnds, DeadlinePasses, AcquireResumes, WaitTimesOut,
     RemoveWaiter, CancelAcquire
<1>9. CASE \E s \in Sessions : SessionStep(s)
  BY <1>2, <1>9 DEF SessionStep, Release, Renew, LeaseExpires, ReapOne
<1>10. CASE ReapScan \/ StartReturns \/ Stop \/ UNCHANGED vars
  BY <1>2, <1>10 DEF ReapScan, StartReturns, Stop, vars
<1>11. CASE EvictOverflow
  <2>1. PICK E : Unload(E)
    BY <1>11 DEF EvictOverflow
  <2> QED
    BY <1>6, <1>11, <2>1 DEF EvictOverflow
<1>12. CASE \E r \in Resources : EvictWorker(r) \/ Preload(r)
  BY <1>5, <1>6, <1>12 DEF EvictWorker
<1> QED
  BY <1>7, <1>8, <1>9, <1>10, <1>11, <1>12 DEF Next

(* While no acquire is cancelled, the workers that are loaded and the      *)
(* factory threads that are building one never exceed max_workers          *)
(* (pool.py:38), by preloading, by first-touch loading or by the two       *)
(* together, whatever is evicted in between.                               *)
THEOREM PoolLoadCap == ~MayCancel => (Spec => []WithinLoadCap)
<1> SUFFICES ASSUME ~MayCancel
             PROVE  Spec => []WithinLoadCap
  OBVIOUS
<1>1. Init => WithinBooks
  BY PoolAssumption, InitCap
<1>2. IInv /\ WithinBooks /\ [Next]_vars => WithinBooks'
  BY PoolAssumption, NextCap
<1>3. IInv /\ WithinBooks => WithinLoadCap
  <2>1. SUFFICES ASSUME IInv, WithinBooks PROVE WithinLoadCap
    OBVIOUS
  <2>2. Building = IF loader = None THEN {} ELSE {loader}
    BY <2>1, PoolAssumption, OnlyTheLoader
  <2>3. Cardinality({}) = 0 /\ Cardinality({loader}) = 1
    BY FS_EmptySet, FS_Singleton, Zenon
  <2>4. Cardinality(Building) = IF loader = None THEN 0 ELSE 1
    BY <2>2, <2>3
  <2> QED
    BY <2>1, <2>4 DEF WithinBooks, WithinLoadCap
<1> QED
  BY <1>1, <1>2, <1>3, PoolInvariant, PTL DEF Spec

-----------------------------------------------------------------------------
(* The order of grants.                                                    *)

(* The waiters before c in its queue have all passed their deadlines.      *)
FirstWilling(p, c) ==
    \A i, j \in 1..Len(p.queues[p.calls[c].resource]) :
        i < j /\ p.queues[p.calls[c].resource][j] = c => p.calls[p.queues[p.calls[c].resource][i]].late

(* Every call that p waits with and f has granted was first.               *)
InOrder(p, f) ==
    \A c \in Calls : p.calls[c].status = "queued" /\ f[c].status = "granted" => FirstWilling(p, c)

LEMMA PoppedFirst ==
    ASSUME NEW p, NEW q \in Seq(Calls)
    PROVE  \A i \in Eligible(p, q) : Popped(p, q) <= i
<1> DEFINE T == Eligible(p, q)
           n == Popped(p, q)
<1>1. T # {} => n = CHOOSE i \in T : \A j \in T : i <= j
  BY DEF Popped
<1>2. T \subseteq Nat
  BY DEF Eligible
<1> HIDE DEF T, n
<1>3. T # {} => \E i \in T : \A j \in T : i <= j
  BY <1>2, LeastNat
<1>4. T # {} => \A i \in T : n <= i
  BY <1>1, <1>3, Zenon
<1> QED
  BY <1>4 DEF T, n

LEMMA DispatchedInOrder ==
    ASSUME NEW p, PoolOK(p, workers), NEW r \in Resources
    PROVE  InOrder(p, Dispatched(p, r).calls)
<1> DEFINE q == p.queues[r]
           n == Popped(p, q)
<1>1. SUFFICES ASSUME NEW c \in Calls, p.calls[c].status = "queued",
                      Dispatched(p, r).calls[c].status = "granted"
               PROVE  FirstWilling(p, c)
  BY DEF InOrder
<1>2. workers[r] # None
  BY <1>1 DEF Dispatched
<1>3. /\ p.queues \in [Resources -> Seq(Calls)]
      /\ HoldWaiters(p) /\ Distinct(p)
  BY DEF PoolOK, PoolType
<1>4. q \in Seq(Calls) /\ Len(q) \in Nat
  BY <1>3
<1>5. Dispatched(p, r).calls[c] = IF \E i \in 1..n : q[i] = c THEN Resolved(p.calls[c]) ELSE p.calls[c]
  BY <1>2 DEF Dispatched
<1>6. /\ n \in 0..Len(q)
      /\ Eligible(p, q) # {} => n \in Eligible(p, q)
      /\ Eligible(p, q) = {} => n = Len(q)
  BY <1>4, PoppedBound, Zenon
<1>7. \A i \in Eligible(p, q) : n <= i
  BY <1>4, PoppedFirst, Zenon
<1> HIDE DEF q, n
<1>8. PICK k \in 1..n : q[k] = c
  BY <1>1, <1>5
<1>9. ~p.calls[c].late
  BY <1>1, <1>5, <1>8 DEF Resolved
<1>10. k \in 1..Len(q) /\ k \in Eligible(p, q)
  BY <1>4, <1>6, <1>8, <1>9 DEF Eligible
<1>11. \A i \in 1..Len(q) : i < k => p.calls[q[i]].late
  BY <1>4, <1>6, <1>7, <1>8, <1>10 DEF Eligible
<1>12. p.calls[c].resource = r
  BY <1>3, <1>8, <1>10 DEF HoldWaiters, q
<1>13. \A j \in 1..Len(q) : q[j] = c => j = k
  BY <1>3, <1>8, <1>10 DEF Distinct, q
<1> QED
  BY <1>11, <1>12, <1>13 DEF FirstWilling, q

LEMMA ReleasedInOrder ==
    ASSUME IInv, NEW s \in Sessions
    PROVE  InOrder(Pool, Released(Pool, s).calls)
<1> DEFINE p == Pool
           r == p.leases[s].resource
           e == [p EXCEPT !.leases[s] = None]
<1>1. PoolOK(p, workers) /\ p \in PoolType
  BY DEF IInv, PoolOK
<1> HIDE DEF p
<1>2. CASE p.leases[s] = None
  <2>1. Released(p, s) = p
    BY <1>2 DEF Released
  <2> QED
    BY <2>1 DEF InOrder, p
<1>3. CASE p.leases[s] # None
  <2>1. /\ p = [leases |-> p.leases, queues |-> p.queues, calls |-> p.calls]
        /\ p.leases \in [Sessions -> Lease \cup {None}]
    BY <1>1 DEF PoolType
  <2>3. r \in Resources
    BY <1>3, <2>1 DEF Lease
  <2>4. Released(p, s) = Dispatched(e, r)
    BY <1>3 DEF Released
  <2>5. PoolOK(e, workers) /\ e.queues = p.queues /\ e.calls = p.calls
    BY <1>1, LeaseDroppedOK
  <2> HIDE DEF e, r
  <2>7. InOrder(e, Dispatched(e, r).calls)
    BY <2>3, <2>5, DispatchedInOrder
  <2>8. InOrder(p, Released(p, s).calls)
    BY <2>4, <2>5, <2>7 DEF InOrder, FirstWilling
  <2> QED
    BY <2>8 DEF p
<1> QED
  BY <1>2, <1>3

(* The acquiring or loading call is granted nothing by the tail of         *)
(* acquire, which resolves no future.                                      *)
LEMMA NextInOrder ==
    ASSUME PoolAssumption, IInv, [Next]_vars
    PROVE  InOrder(Pool, calls')
<1>1. calls \in [Calls -> ActiveCall \cup {IdleCall}] /\ Pool.calls = calls
  BY DEF IInv, PoolOK, PoolType, Pool
<1>2. CASE calls' = calls
  BY <1>1, <1>2 DEF InOrder
<1>3. ASSUME NEW s \in Sessions, Install(Released(Pool, s))
      PROVE  InOrder(Pool, calls')
  BY <1>3, ReleasedInOrder DEF Install
<1>4. ASSUME NEW c \in Calls, NEW k, calls' = [calls EXCEPT ![c] = k], k.status # "granted" \/ calls[c].status # "queued"
      PROVE  InOrder(Pool, calls')
  BY <1>1, <1>4 DEF InOrder
<1>5. ASSUME NEW c \in Calls, NEW s \in Sessions, NEW r \in Resources, AcquireLoaded(c, s, r)
      PROVE  InOrder(Pool, calls')
  <2> DEFINE p == Released(Pool, s)
  <2>1. /\ MayAcquire(c, s) /\ workers[r] # None
        /\ calls' = LeasedOrQueued(p, c, s, r, workers[r]).calls
    BY <1>5 DEF AcquireLoaded, Install
  <2>2. calls[c].status = "idle"
    BY <2>1 DEF MayAcquire
  <2>3. PoolOK(p, workers) /\ SameLoads(calls, p.calls) /\ InOrder(Pool, p.calls)
    BY ReleasedPool, ReleasedInOrder
  <2> HIDE DEF p
  <2>4. p.calls[c].status \in {"idle", "loading"}
    BY <2>2, <2>3 DEF SameLoads
  <2>5. workers \in [Resources -> Workers \cup {None}]
    BY DEF IInv, TablesOK
  <2>6. \A d \in Calls : d # c => calls'[d] = p.calls[d]
    BY <2>1, <2>3, <2>4, <2>5, LeasedOrQueuedOK
  <2> QED
    BY <1>1, <2>2, <2>3, <2>6 DEF InOrder
<1>6. ASSUME NEW c \in Calls, NEW s \in Sessions, NEW r \in Resources, AcquireLoads(c, s, r)
      PROVE  InOrder(Pool, calls')
  <2> DEFINE p == Released(Pool, s)
             k == CallOf(s, r, "loading")
  <2>1. calls[c].status = "idle" /\ calls' = [p EXCEPT !.calls[c] = k].calls
    BY <1>6 DEF AcquireLoads, MayAcquire, Install
  <2>2. PoolOK(p, workers) /\ InOrder(Pool, p.calls)
    BY ReleasedPool, ReleasedInOrder
  <2> HIDE DEF p, k
  <2>3. /\ p = [leases |-> p.leases, queues |-> p.queues, calls |-> p.calls]
        /\ p.calls \in [Calls -> ActiveCall \cup {IdleCall}]
    BY <2>2 DEF PoolOK, PoolType
  <2>4. [p EXCEPT !.calls[c] = k].calls = [p.calls EXCEPT ![c] = k]
    BY <2>3
  <2>5. \A d \in Calls : d # c => calls'[d] = p.calls[d]
    BY <2>1, <2>3, <2>4
  <2> QED
    BY <1>1, <2>1, <2>2, <2>5 DEF InOrder
<1>7. ASSUME NEW c \in Calls, LoadReturns(c)
      PROVE  InOrder(Pool, calls')
  <2> DEFINE s == calls[c].session
             r == calls[c].resource
  <2>1. PICK w \in FreshWorkers : AddWorker(r, w) /\ Install(LeasedOrQueued(Pool, c, s, r, w))
    BY <1>7 DEF LoadReturns
  <2>2. calls[c].status = "loading" /\ s \in Sessions /\ r \in Resources /\ workers[r] = None
    BY <1>7, LoadingCall DEF LoadReturns
  <2> HIDE DEF s, r
  <2>3. PoolOK(Pool, workers) /\ TablesOK(workers, older)
    BY DEF IInv
  <2>4. TablesOK(workers', older') /\ workers'[r] # None /\ workers'[r] = w /\ PoolOK(Pool, workers')
    BY <2>1, <2>2, <2>3, AddWorkerOK
  <2>5. workers' \in [Resources -> Workers \cup {None}]
    BY <2>4 DEF TablesOK
  <2>6. \A d \in Calls : d # c => LeasedOrQueued(Pool, c, s, r, w).calls[d] = calls[d]
    BY <1>1, <2>2, <2>4, <2>5, LeasedOrQueuedOK
  <2>7. \A d \in Calls : d # c => calls'[d] = calls[d]
    BY <2>1, <2>6 DEF Install
  <2> QED
    BY <1>1, <2>2, <2>7 DEF InOrder
<1>8. ASSUME NEW c \in Calls, CallStep(c)
      PROVE  InOrder(Pool, calls')
  <2>1. IdleCall.status = "idle"
    BY DEF IdleCall
  <2>2. CASE LoadFails(c) \/ ThreadEnds(c) \/ AcquireResumes(c) \/ RemoveWaiter(c)
    BY <1>4, <2>1, <2>2 DEF LoadFails, ThreadEnds, AcquireResumes, RemoveWaiter
  <2>3. CASE DeadlinePasses(c) /\ calls[c].status # "queued"
    BY <1>4, <2>3 DEF DeadlinePasses
  <2>4. CASE DeadlinePasses(c) /\ calls[c].status = "queued"
    <3>1. calls[c] \in ActiveCall
      BY <1>1, <2>4, ActiveCallType
    <3>2. [calls[c] EXCEPT !.late = TRUE].status = "queued"
      BY <2>4, <3>1 DEF ActiveCall
    <3> QED
      BY <1>4, <2>4, <3>2 DEF DeadlinePasses
  <2>5. CASE WaitTimesOut(c)
    <3>1. calls[c] \in ActiveCall
      BY <1>1, <2>5, ActiveCallType DEF WaitTimesOut
    <3>2. [calls[c] EXCEPT !.status = "timedout"].status = "timedout"
      BY <3>1 DEF ActiveCall
    <3> QED
      BY <1>4, <2>5, <3>2 DEF WaitTimesOut
  <2>6. CASE CancelAcquire(c)
    <3>1. calls[c] \in ActiveCall
      BY <1>1, <2>6, ActiveCallType DEF CancelAcquire
    <3>2. [calls[c] EXCEPT !.status = "abandoned"].status = "abandoned"
      BY <3>1 DEF ActiveCall
    <3> QED
      BY <1>4, <2>1, <2>6, <3>2 DEF CancelAcquire
  <2>7. CASE CancelLoad(c)
    <3>1. calls[c] \in ActiveCall
      BY <1>1, <2>7, LoadingCall DEF CancelLoad
    <3>2. [calls[c] EXCEPT !.status = "detached"].status = "detached"
      BY <3>1 DEF ActiveCall
    <3> QED
      BY <1>4, <2>7, <3>2 DEF CancelLoad
  <2> QED
    BY <1>7, <1>8, <2>2, <2>3, <2>4, <2>5, <2>6, <2>7 DEF CallStep
<1>9. ASSUME NEW c \in Calls, NEW s \in Sessions, NEW r \in Resources, Acquire(c, s, r)
      PROVE  InOrder(Pool, calls')
  BY <1>2, <1>3, <1>5, <1>6, <1>9 DEF Acquire, AcquireRenews, AcquireAtCap
<1>10. ASSUME NEW s \in Sessions, SessionStep(s)
       PROVE  InOrder(Pool, calls')
  BY <1>2, <1>3, <1>10 DEF SessionStep, Release, Renew, LeaseExpires, ReapOne
<1>11. CASE Stop
  <2>1. ASSUME NEW c \in Calls, calls[c].status = "queued"
        PROVE  calls'[c].status # "granted"
    <3>1. calls'[c] = [calls[c] EXCEPT !.status = "refused"]
      BY <1>11, <2>1 DEF Stop
    <3>2. calls[c] \in ActiveCall
      BY <1>1, <2>1, ActiveCallType
    <3> QED
      BY <3>1, <3>2 DEF ActiveCall
  <2> QED
    BY <1>1, <2>1 DEF InOrder
<1> QED
  BY <1>2, <1>8, <1>9, <1>10, <1>11 DEF Next, ReapScan, EvictOverflow, EvictWorker, Preload,
     StartReturns, vars

(* Waiters are served in the order they came, the late ones passed over:   *)
(* no release, expiry or migration grants a lease out of turn.             *)
THEOREM PoolGrantsInOrder == Spec => GrantInOrder
<1>1. IInv /\ [Next]_vars =>
          [\A c \in Calls :
              calls[c].status = "queued" /\ calls'[c].status = "granted" =>
                  LET q == queues[calls[c].resource]
                  IN  \A i, j \in 1..Len(q) : i < j /\ q[j] = c => calls[q[i]].late]_vars
  <2>1. SUFFICES ASSUME IInv, [Next]_vars
        PROVE  \A c \in Calls :
                   calls[c].status = "queued" /\ calls'[c].status = "granted" =>
                       LET q == queues[calls[c].resource]
                       IN  \A i, j \in 1..Len(q) : i < j /\ q[j] = c => calls[q[i]].late
    OBVIOUS
  <2>2. InOrder(Pool, calls')
    BY <2>1, PoolAssumption, NextInOrder
  <2>3. Pool.calls = calls /\ Pool.queues = queues
    BY DEF Pool
  <2> QED
    BY <2>2, <2>3 DEF InOrder, FirstWilling
<1> QED
  BY <1>1, PoolInvariant, PTL DEF Spec, GrantInOrder

-----------------------------------------------------------------------------
(* One session per worker, when leases are kept alive.                     *)

(* All leases in the table ls are alive, and of different resources.       *)
Kept(ls) ==
    /\ \A s \in Sessions : ls[s] # None => ~ls[s].expired
    /\ \A s, t \in Sessions :
          ls[s] # None /\ ls[t] # None /\ ls[s].resource = ls[t].resource => s = t

(* A session that gets a lease of a resource nobody holds, in the place of *)
(* whatever lease it had, keeps the table so.                              *)
LEMMA GrantKept ==
    ASSUME NEW ls \in [Sessions -> Lease \cup {None}], Kept(ls), NEW s \in Sessions,
           NEW k \in Lease, ~k.expired,
           \A t \in Sessions : ls[t] # None => ls[t].resource # k.resource
    PROVE  Kept([ls EXCEPT ![s] = k])
<1> DEFINE m == [ls EXCEPT ![s] = k]
<1>1. m[s] = k /\ \A t \in Sessions : t # s => m[t] = ls[t]
  OBVIOUS
<1> HIDE DEF m
<1>2. \A t \in Sessions : m[t] # None => ~m[t].expired
  BY <1>1 DEF Kept
<1>3. ASSUME NEW t \in Sessions, NEW u \in Sessions, m[t] # None, m[u] # None, m[t].resource = m[u].resource
      PROVE  t = u
  BY <1>1, <1>3 DEF Kept
<1>4. Kept(m)
  BY <1>2, <1>3 DEF Kept
<1> QED
  BY <1>4 DEF m

(* A dispatch follows the end of the only lease of its resource.           *)
LEMMA DispatchedKept ==
    ASSUME PoolAssumption, workers \in [Resources -> Workers \cup {None}],
           NEW p, PoolOK(p, workers), NEW r \in Resources, Kept(p.leases),
           \A t \in Sessions : p.leases[t] # None => p.leases[t].resource # r
    PROVE  Kept(Dispatched(p, r).leases)
<1>1. CASE Dispatched(p, r).leases = p.leases
  BY <1>1
<1>2. ASSUME NEW s \in Sessions, workers[r] # None,
             Dispatched(p, r).leases = [p.leases EXCEPT ![s] = NewLease(r, workers[r])]
      PROVE  Kept(Dispatched(p, r).leases)
  <2>1. /\ NewLease(r, workers[r]) \in Lease /\ NewLease(r, workers[r]).resource = r
        /\ ~NewLease(r, workers[r]).expired
    BY <1>2 DEF NewLease, Lease
  <2>2. p.leases \in [Sessions -> Lease \cup {None}]
    BY DEF PoolOK, PoolType
  <2> QED
    BY <1>2, <2>1, <2>2, GrantKept
<1> QED
  BY <1>1, <1>2, DispatchedOK

LEMMA ReleasedKept ==
    ASSUME PoolAssumption, IInv, Kept(leases), NEW s \in Sessions
    PROVE  Kept(Released(Pool, s).leases)
<1> DEFINE p == Pool
           r == p.leases[s].resource
           e == [p EXCEPT !.leases[s] = None]
<1>1. PoolOK(p, workers) /\ p.leases = leases /\ workers \in [Resources -> Workers \cup {None}]
  BY DEF IInv, Pool, TablesOK
<1> HIDE DEF p
<1>2. CASE p.leases[s] = None
  BY <1>1, <1>2 DEF Released, p
<1>3. CASE p.leases[s] # None
  <2>1. /\ p = [leases |-> p.leases, queues |-> p.queues, calls |-> p.calls]
        /\ p.leases \in [Sessions -> Lease \cup {None}]
    BY <1>1 DEF PoolOK, PoolType
  <2>2. r \in Resources
    BY <1>3, <2>1 DEF Lease
  <2>3. PoolOK(e, workers)
    BY <1>1, LeaseDroppedOK
  <2>4. e.leases = [p.leases EXCEPT ![s] = None]
    BY <2>1
  <2>5. Released(p, s) = Dispatched(e, r)
    BY <1>3 DEF Released
  <2>6. e.leases[s] = None /\ \A t \in Sessions : t # s => e.leases[t] = p.leases[t]
    BY <2>1, <2>4
  <2> HIDE DEF e
  <2>7. Kept(e.leases)
    BY <1>1, <2>6 DEF Kept
  <2>8. \A t \in Sessions : e.leases[t] # None => e.leases[t].resource # r
    BY <1>1, <1>3, <2>6 DEF Kept
  <2> HIDE DEF r
  <2>9. Kept(Dispatched(e, r).leases)
    BY <1>1, <2>2, <2>3, <2>7, <2>8, DispatchedKept
  <2> QED
    BY <2>5, <2>9 DEF p
<1> QED
  BY <1>2, <1>3

(* The tail of acquire grants only what no lease names, for a lease names  *)
(* the worker of its resource.                                             *)
LEMMA LeasedOrQueuedKept ==
    ASSUME PoolAssumption, NEW ws, NEW p, PoolOK(p, ws), Kept(p.leases),
           NEW c \in Calls, NEW s \in Sessions, NEW r \in Resources,
           ws[r] \in Workers
    PROVE  Kept(LeasedOrQueued(p, c, s, r, ws[r]).leases)
<1> DEFINE k == NewLease(r, ws[r])
<1>1. /\ p = [leases |-> p.leases, queues |-> p.queues, calls |-> p.calls]
      /\ p.leases \in [Sessions -> Lease \cup {None}]
      /\ Named(p, ws)
  BY DEF PoolOK, PoolType
<1>2. CASE Busy(p, ws[r])
  <2>1. LeasedOrQueued(p, c, s, r, ws[r]).leases = p.leases
    BY <1>1, <1>2 DEF LeasedOrQueued
  <2> QED
    BY <2>1
<1>3. CASE ~Busy(p, ws[r])
  <2>1. LeasedOrQueued(p, c, s, r, ws[r]).leases = [p.leases EXCEPT ![s] = k]
    BY <1>1, <1>3 DEF LeasedOrQueued
  <2>2. k \in Lease /\ k.resource = r /\ ~k.expired
    BY DEF NewLease, Lease
  <2>3. ASSUME NEW t \in Sessions, p.leases[t] # None
        PROVE  p.leases[t].resource # r
    <3>1. ~p.leases[t].expired
      BY <2>3 DEF Kept
    <3>2. p.leases[t].worker # ws[r]
      BY <1>3, <2>3, <3>1 DEF Busy
    <3> QED
      BY <1>1, <2>3, <3>2 DEF Named
  <2> HIDE DEF k
  <2> QED
    BY <1>1, <2>1, <2>2, <2>3, GrantKept
<1> QED
  BY <1>2, <1>3

(* A renewal leaves a live lease as it is.                                 *)
LEMMA RenewedKept ==
    ASSUME IInv, Kept(leases), NEW s \in Sessions, leases' = [leases EXCEPT ![s].expired = FALSE],
           leases[s] # None
    PROVE  Kept(leases')
<1>1. leases \in [Sessions -> Lease \cup {None}] /\ leases[s] \in Lease
  BY DEF IInv, PoolOK, PoolType, Pool
<1>2. leases[s] = [resource |-> leases[s].resource, worker |-> leases[s].worker, expired |-> leases[s].expired]
  BY <1>1 DEF Lease
<1>3. leases'[s].resource = leases[s].resource /\ ~leases'[s].expired
  BY <1>1, <1>2
<1>4. \A t \in Sessions : t # s => leases'[t] = leases[t]
  BY <1>1
<1> QED
  BY <1>3, <1>4 DEF Kept

LEMMA NextKept ==
    ASSUME PoolAssumption, ~MayExpire, IInv, Kept(leases), [Next]_vars
    PROVE  Kept(leases')
<1>1. CASE leases' = leases
  BY <1>1
<1>2. ASSUME NEW s \in Sessions, Install(Released(Pool, s))
      PROVE  Kept(leases')
  BY <1>2, ReleasedKept DEF Install
<1>3. ASSUME NEW c \in Calls, NEW s \in Sessions, NEW r \in Resources, AcquireLoaded(c, s, r)
      PROVE  Kept(leases')
  <2> DEFINE p == Released(Pool, s)
  <2>1. workers[r] # None /\ leases' = LeasedOrQueued(p, c, s, r, workers[r]).leases
    BY <1>3 DEF AcquireLoaded, Install
  <2>2. PoolOK(p, workers) /\ Kept(p.leases)
    BY ReleasedPool, ReleasedKept
  <2>3. workers[r] \in Workers
    BY <2>1 DEF IInv, TablesOK
  <2> HIDE DEF p
  <2> QED
    BY <2>1, <2>2, <2>3, LeasedOrQueuedKept
<1>4. ASSUME NEW c \in Calls, NEW s \in Sessions, NEW r \in Resources, AcquireLoads(c, s, r)
      PROVE  Kept(leases')
  <2> DEFINE p == Released(Pool, s)
             k == CallOf(s, r, "loading")
  <2>1. leases' = [p EXCEPT !.calls[c] = k].leases
    BY <1>4 DEF AcquireLoads, Install
  <2>2. PoolOK(p, workers) /\ Kept(p.leases)
    BY ReleasedPool, ReleasedKept
  <2> HIDE DEF p, k
  <2>3. p = [leases |-> p.leases, queues |-> p.queues, calls |-> p.calls]
    BY <2>2 DEF PoolOK, PoolType
  <2>4. [p EXCEPT !.calls[c] = k].leases = p.leases
    BY <2>3
  <2> QED
    BY <2>1, <2>2, <2>4
<1>5. ASSUME NEW c \in Calls, LoadReturns(c)
      PROVE  Kept(leases')
  <2> DEFINE s == calls[c].session
             r == calls[c].resource
  <2>1. PICK w \in FreshWorkers : AddWorker(r, w) /\ Install(LeasedOrQueued(Pool, c, s, r, w))
    BY <1>5 DEF LoadReturns
  <2>2. calls[c].status = "loading" /\ s \in Sessions /\ r \in Resources /\ workers[r] = None
    BY <1>5, LoadingCall DEF LoadReturns
  <2> HIDE DEF s, r
  <2>3. PoolOK(Pool, workers) /\ TablesOK(workers, older) /\ Pool.leases = leases
    BY DEF IInv, Pool
  <2>4. TablesOK(workers', older') /\ workers'[r] # None /\ workers'[r] = w /\ PoolOK(Pool, workers')
    BY <2>1, <2>2, <2>3, AddWorkerOK
  <2>5. workers'[r] \in Workers
    BY <2>2, <2>4 DEF TablesOK
  <2>6. Kept(LeasedOrQueued(Pool, c, s, r, w).leases)
    BY <2>2, <2>3, <2>4, <2>5, LeasedOrQueuedKept
  <2> QED
    BY <2>1, <2>6 DEF Install
<1>6. ASSUME NEW c \in Calls, NEW s \in Sessions, NEW r \in Resources, Acquire(c, s, r)
      PROVE  Kept(leases')
  <2>1. CASE AcquireRenews(c, s, r)
    BY <2>1, RenewedKept DEF AcquireRenews, HoldsLeaseOn
  <2> QED
    BY <1>2, <1>3, <1>4, <1>6, <2>1 DEF Acquire, AcquireAtCap
<1>7. ASSUME NEW c \in Calls, CallStep(c)
      PROVE  Kept(leases')
  BY <1>1, <1>5, <1>7 DEF CallStep, LoadFails, CancelLoad, ThreadEnds, DeadlinePasses, AcquireResumes, WaitTimesOut, RemoveWaiter,
     CancelAcquire
<1>8. ASSUME NEW s \in Sessions, SessionStep(s)
      PROVE  Kept(leases')
  <2>1. CASE Renew(s)
    BY <2>1, RenewedKept DEF Renew
  <2> QED
    BY <1>2, <1>8, <2>1 DEF SessionStep, Release, LeaseExpires, ReapOne
<1>9. CASE Stop
  BY <1>9 DEF Stop, Kept
<1> QED
  BY <1>1, <1>6, <1>7, <1>8, <1>9 DEF Next, ReapScan, EvictOverflow, EvictWorker, Preload, StartReturns, vars

(* If no lease outlives its deadline, a worker is leased to one session at *)
(* a time (pool.py:24-25), whatever is cancelled, times out, is evicted or *)
(* overlaps; what breaks the promise in the code is expiry alone.          *)
THEOREM PoolExclusive == ~MayExpire => (Spec => []ExclusiveWorker)
<1> SUFFICES ASSUME ~MayExpire
             PROVE  Spec => []ExclusiveWorker
  OBVIOUS
<1> DEFINE AllKept == Kept(leases)
<1>1. Init => AllKept
  BY DEF Init, Kept
<1>2. IInv /\ AllKept /\ [Next]_vars => AllKept'
  BY PoolAssumption, NextKept
<1>3. IInv /\ AllKept => ExclusiveWorker
  <2>1. SUFFICES ASSUME IInv, Kept(leases), NEW s \in Sessions, NEW t \in Sessions,
                        leases[s] # None, leases[t] # None, leases[s].worker = leases[t].worker
                 PROVE  s = t
    BY DEF ExclusiveWorker
  <2>2. leases[s] \in Lease /\ leases[t] \in Lease
    BY <2>1 DEF IInv, PoolOK, PoolType, Pool
  <2>3. leases[s].resource \in Resources /\ leases[t].resource \in Resources /\ leases[s].worker # None
    BY <2>2, PoolAssumption DEF Lease, PoolAssumption
  <2>4. leases[s].resource = leases[t].resource
    BY <2>1, <2>3, IInvImplies DEF WorkerTablesAgree
  <2> QED
    BY <2>1, <2>4 DEF Kept
<1> HIDE DEF AllKept
<1> QED
  BY <1>1, <1>2, <1>3, PoolInvariant, PTL DEF Spec
-----------------------------------------------------------------------------
(* Somebody to wait for, when no session has two acquires outstanding.     *)

Waited(p) ==
    \A r \in Resources : p.queues[r] # <<>> =>
        \E s \in Sessions : p.leases[s] # None /\ p.leases[s].resource = r

(* Of one session there is one call at most.                               *)
OneAcquire(f) ==
    /\ \A c \in Calls : f[c].status # "abandoned"
    /\ \A c, d \in Calls :
          f[c].status # "idle" /\ f[d].status # "idle" /\ f[c].session = f[d].session => c = d

(* The call c is loading or its waiter is in a queue.                      *)
Wants(p, c) ==
    \/ p.calls[c].status = "loading"
    \/ \E r \in Resources : \E i \in 1..Len(p.queues[r]) : p.queues[r][i] = c

(* A session whose call is loading or queued has no lease: acquire has     *)
(* released the old one, so that a grant replaces none.                    *)
EmptyHanded(p) == \A c \in Calls : Wants(p, c) => p.leases[p.calls[c].session] = None

Apart(p) == OneAcquire(p.calls) /\ EmptyHanded(p)

Awaited(p) == Waited(p) /\ Apart(p)

(* From f to g calls end or go on for the session they are of, the late    *)
(* ones late, and none begins.                                             *)
FewerCalls(f, g) ==
    \A c \in Calls : g[c].status # "idle" =>
        /\ f[c].status # "idle"
        /\ g[c].session = f[c].session
        /\ g[c].status # "abandoned"
        /\ f[c].late => g[c].late

LEMMA WantsCall ==
    ASSUME NEW p, NEW ws, PoolOK(p, ws), NEW c \in Calls, Wants(p, c)
    PROVE  p.calls[c].status \in Waiting \cup {"loading"}
BY DEF PoolOK, HoldWaiters, Wants

(* What only takes calls, waiters or leases away keeps sessions apart.     *)
LEMMA ApartFewer ==
    ASSUME NEW p, NEW e, NEW ws, PoolOK(e, ws), Apart(p), FewerCalls(p.calls, e.calls),
           \A c \in Calls : Wants(e, c) => Wants(p, c),
           \A s : e.leases[s] # None => p.leases[s] # None
    PROVE  Apart(e)
<1>1. ASSUME NEW c \in Calls, Wants(e, c)
      PROVE  e.leases[e.calls[c].session] = None
  <2>1. e.calls[c].status # "idle"
    BY <1>1, WantsCall DEF Waiting
  <2>2. e.calls[c].session = p.calls[c].session
    BY <2>1 DEF FewerCalls
  <2>3. p.leases[p.calls[c].session] = None
    BY <1>1 DEF Apart, EmptyHanded
  <2> QED
    BY <2>2, <2>3
<1>2. OneAcquire(e.calls)
  <2>1. ASSUME NEW c \in Calls
        PROVE  e.calls[c].status # "abandoned"
    BY DEF FewerCalls
  <2>2. ASSUME NEW c \in Calls, NEW d \in Calls, e.calls[c].status # "idle", e.calls[d].status # "idle",
               e.calls[c].session = e.calls[d].session
        PROVE  c = d
    BY <2>2 DEF FewerCalls, Apart, OneAcquire
  <2> QED
    BY <2>1, <2>2 DEF OneAcquire
<1> QED
  BY <1>1, <1>2 DEF Apart, EmptyHanded

(* So does a lease for a session none of whose calls wants one.            *)
LEMMA ApartGrant ==
    ASSUME NEW p, NEW e, Apart(p), e.calls = p.calls, e.queues = p.queues, NEW s,
           \A t \in Sessions : t # s => e.leases[t] = p.leases[t],
           \A c \in Calls : Wants(p, c) => p.calls[c].session \in Sessions \ {s}
    PROVE  Apart(e)
<1>1. ASSUME NEW c \in Calls, Wants(e, c)
      PROVE  e.leases[e.calls[c].session] = None
  <2>1. Wants(p, c)
    BY <1>1 DEF Wants
  <2> QED
    BY <2>1 DEF Apart, EmptyHanded
<1> QED
  BY <1>1 DEF Apart, EmptyHanded

(* Dispatch resolves calls, of the sessions they were of.                  *)
LEMMA ResolvedFewer ==
    ASSUME NEW k, k.status # "abandoned", k \in ActiveCall \cup {IdleCall}, Resolved(k).status # "idle"
    PROVE  /\ k.status # "idle"
           /\ Resolved(k).session = k.session
           /\ Resolved(k).status # "abandoned"
           /\ k.late => Resolved(k).late
           /\ Resolved(k).status = "timedout" => Resolved(k) = k
<1>1. CASE k.status = "queued"
  <2>1. k \in ActiveCall /\ k.late \in BOOLEAN
    BY <1>1, ActiveCallType
  <2>2. Resolved(k) = IF k.late THEN [k EXCEPT !.status = "refused"] ELSE [k EXCEPT !.status = "granted"]
    BY <1>1, <2>1 DEF Resolved
  <2> QED
    BY <1>1, <2>1, <2>2 DEF ActiveCall
<1>2. CASE k.status # "queued"
  <2>1. Resolved(k) = k
    BY <1>2 DEF Resolved
  <2> QED
    BY <2>1
<1> QED
  BY <1>1, <1>2

(* What dispatch does, from p to d: the first n waiters of r leave their   *)
(* queue, and the lease, if there is one, is for the n-th.                 *)
Serves(p, r, d, n) ==
    /\ \A x \in Resources : x # r => d.queues[x] = p.queues[x]
    /\ Len(d.queues[r]) = Len(p.queues[r]) - n
    /\ \A i \in 1..Len(d.queues[r]) :
          n + i \in 1..Len(p.queues[r]) /\ d.queues[r][i] = p.queues[r][n + i]
    /\ \A c \in Calls : d.calls[c] = p.calls[c] \/ d.calls[c] = Resolved(p.calls[c])
    /\ \/ /\ d.leases = p.leases
          /\ n = Len(p.queues[r])
          /\ \A i \in 1..Len(p.queues[r]) : p.calls[p.queues[r][i]].late
       \/ /\ n \in 1..Len(p.queues[r])
          /\ ~p.calls[p.queues[r][n]].late
          /\ \A i \in 1..(n - 1) : p.calls[p.queues[r][i]].late
          /\ d.leases = [p.leases EXCEPT ![p.calls[p.queues[r][n]].session] = NewLease(r, workers[r])]

LEMMA DispatchServes ==
    ASSUME NEW p, PoolOK(p, workers), NEW r \in Resources, workers[r] # None
    PROVE  \E n \in 0..Len(p.queues[r]) : Serves(p, r, Dispatched(p, r), n)
<1> DEFINE q == p.queues[r]
           n == Popped(p, q)
           d == Dispatched(p, r)
<1>1. q \in Seq(Calls) /\ Len(q) \in Nat /\ p.queues \in [Resources -> Seq(Calls)]
  BY DEF PoolOK, PoolType
<1>2. /\ n \in 0..Len(q)
      /\ Eligible(p, q) # {} => n \in Eligible(p, q)
      /\ Eligible(p, q) = {} => n = Len(q)
      /\ \A i \in Eligible(p, q) : n <= i
  BY <1>1, PoppedBound, PoppedFirst, Zenon
<1>3. /\ d.leases = IF Eligible(p, q) = {} THEN p.leases
                    ELSE [p.leases EXCEPT ![p.calls[q[n]].session] = NewLease(r, workers[r])]
      /\ d.queues = [p.queues EXCEPT ![r] = SubSeq(q, n + 1, Len(q))]
      /\ d.calls = [c \in Calls |-> IF \E i \in 1..n : q[i] = c THEN Resolved(p.calls[c]) ELSE p.calls[c]]
  BY DEF Dispatched
<1> HIDE DEF n, d
<1>4. d.queues[r] = SubSeq(q, n + 1, Len(q)) /\ \A x \in Resources : x # r => d.queues[x] = p.queues[x]
  BY <1>1, <1>3
<1> HIDE DEF q
<1>5. /\ Len(d.queues[r]) = Len(q) - n
      /\ \A i \in 1..Len(d.queues[r]) : n + i \in 1..Len(q) /\ d.queues[r][i] = q[n + i]
  BY <1>1, <1>2, <1>4
<1>6. \A c \in Calls : d.calls[c] = p.calls[c] \/ d.calls[c] = Resolved(p.calls[c])
  BY <1>3, Zenon
<1>7. \/ /\ d.leases = p.leases
         /\ n = Len(q)
         /\ \A i \in 1..Len(q) : p.calls[q[i]].late
      \/ /\ n \in 1..Len(q)
         /\ ~p.calls[q[n]].late
         /\ \A i \in 1..(n - 1) : p.calls[q[i]].late
         /\ d.leases = [p.leases EXCEPT ![p.calls[q[n]].session] = NewLease(r, workers[r])]
  <2>1. CASE Eligible(p, q) = {}
    BY <1>2, <1>3, <2>1 DEF Eligible
  <2>2. CASE Eligible(p, q) # {}
    <3>1. n \in 1..Len(q) /\ ~p.calls[q[n]].late
      BY <1>2, <2>2 DEF Eligible
    <3>2. ASSUME NEW i \in 1..(n - 1)
          PROVE  p.calls[q[i]].late
      <4>1. i \in 1..Len(q) /\ ~(n <= i)
        BY <1>1, <3>1
      <4> QED
        BY <1>2, <4>1 DEF Eligible
    <3> QED
      BY <1>3, <2>2, <3>1, <3>2
  <2> QED
    BY <2>1, <2>2
<1> QED
  BY <1>2, <1>4, <1>5, <1>6, <1>7, Zenon DEF Serves, q, d

(* A dispatch that follows the end of a lease leaves somebody to wait for, *)
(* or nobody waiting.                                                      *)
LEMMA DispatchedAwaited ==
    ASSUME PoolAssumption, workers \in [Resources -> Workers \cup {None}],
           NEW p, PoolOK(p, workers), NEW r \in Resources, Apart(p),
           \A x \in Resources : x # r /\ p.queues[x] # <<>> =>
               \E s \in Sessions : p.leases[s] # None /\ p.leases[s].resource = x
    PROVE  /\ Awaited(Dispatched(p, r))
           /\ FewerCalls(p.calls, Dispatched(p, r).calls)
<1> DEFINE d == Dispatched(p, r)
           q == p.queues[r]
<1>1. /\ p.leases \in [Sessions -> Lease \cup {None}]
      /\ p.queues \in [Resources -> Seq(Calls)]
      /\ p.calls \in [Calls -> ActiveCall \cup {IdleCall}]
      /\ HoldWaiters(p) /\ Distinct(p) /\ Staffed(p, workers)
  BY DEF PoolOK, PoolType
<1>2. CASE workers[r] = None
  <2>1. d = p /\ p.queues[r] = <<>>
    <3>1. p.queues[r] = <<>>
      BY <1>1, <1>2 DEF Staffed
    <3> QED
      BY <1>2, <3>1 DEF Dispatched
  <2>2. FewerCalls(p.calls, p.calls)
    BY DEF FewerCalls, Apart, OneAcquire
  <2> QED
    BY <2>1, <2>2 DEF Awaited, Waited
<1>3. CASE workers[r] # None
  <2>0. PICK n \in 0..Len(q) : Serves(p, r, d, n)
    BY <1>3, DispatchServes
  <2>1. /\ \A x \in Resources : x # r => d.queues[x] = p.queues[x]
        /\ Len(d.queues[r]) = Len(q) - n
        /\ \A i \in 1..Len(d.queues[r]) : n + i \in 1..Len(q) /\ d.queues[r][i] = q[n + i]
        /\ \A c \in Calls : d.calls[c] = p.calls[c] \/ d.calls[c] = Resolved(p.calls[c])
        /\ \/ d.leases = p.leases /\ n = Len(q)
           \/ /\ n \in 1..Len(q)
              /\ d.leases = [p.leases EXCEPT ![p.calls[q[n]].session] = NewLease(r, workers[r])]
    BY <2>0, Zenon DEF Serves
  <2>2. PoolOK(d, workers) /\ SameLoads(p.calls, d.calls)
    BY DispatchedOK
  <2> HIDE DEF d, q
  <2>3. FewerCalls(p.calls, d.calls)
    <3>1. SUFFICES ASSUME NEW c \in Calls, d.calls[c].status # "idle"
                   PROVE  /\ p.calls[c].status # "idle"
                          /\ d.calls[c].session = p.calls[c].session
                          /\ d.calls[c].status # "abandoned"
                          /\ p.calls[c].late => d.calls[c].late
      BY DEF FewerCalls
    <3>2. p.calls[c] \in ActiveCall \cup {IdleCall} /\ p.calls[c].status # "abandoned"
      BY <1>1 DEF Apart, OneAcquire
    <3>3. CASE d.calls[c] = p.calls[c]
      BY <3>1, <3>2, <3>3
    <3>4. CASE d.calls[c] = Resolved(p.calls[c])
      <4>1. Resolved(p.calls[c]).status # "idle"
        BY <3>1, <3>4
      <4>2. /\ p.calls[c].status # "idle"
            /\ Resolved(p.calls[c]).session = p.calls[c].session
            /\ Resolved(p.calls[c]).status # "abandoned"
            /\ p.calls[c].late => Resolved(p.calls[c]).late
        BY <3>2, <4>1, ResolvedFewer
      <4> QED
        BY <3>4, <4>2
    <3> QED
      BY <2>1, <3>3, <3>4
  <2>4. \A c \in Calls : Wants(d, c) => Wants(p, c)
    <3>1. SUFFICES ASSUME NEW c \in Calls, Wants(d, c)
                   PROVE  Wants(p, c)
      OBVIOUS
    <3>2. CASE d.calls[c].status = "loading"
      BY <2>2, <3>2 DEF SameLoads, Wants
    <3>3. ASSUME NEW x \in Resources, NEW i \in 1..Len(d.queues[x]), d.queues[x][i] = c
          PROVE  Wants(p, c)
      <4>1. CASE x = r
        BY <2>1, <3>3, <4>1 DEF Wants, q
      <4>2. CASE x # r
        BY <2>1, <3>3, <4>2 DEF Wants
      <4> QED
        BY <4>1, <4>2
    <3> QED
      BY <3>1, <3>2, <3>3 DEF Wants
  <2>5. CASE d.leases = p.leases /\ n = Len(q)
    <3>1. Apart(d)
      BY <2>2, <2>3, <2>4, <2>5, ApartFewer
    <3>2. d.queues[r] = <<>>
      <4>1. d.queues[r] \in Seq(Calls) /\ Len(d.queues[r]) = 0
        BY <1>1, <2>1, <2>2, <2>5 DEF PoolOK, PoolType, q
      <4> QED
        BY <4>1
    <3>3. Waited(d)
      BY <2>1, <2>5, <3>2 DEF Waited
    <3> QED
      BY <2>3, <3>1, <3>3 DEF Awaited, d
  <2>6. CASE n \in 1..Len(q) /\ d.leases = [p.leases EXCEPT ![p.calls[q[n]].session] = NewLease(r, workers[r])]
    <3> DEFINE c == q[n]
               s == p.calls[c].session
               e == [d EXCEPT !.leases = p.leases]
    <3>1. c \in Calls /\ p.calls[c].resource = r /\ p.calls[c].status \in Waiting
      BY <1>1, <2>6 DEF HoldWaiters, q
    <3>2. s \in Sessions /\ p.calls[c].status # "idle"
      BY <1>1, <3>1, ActiveCallType DEF Waiting
    <3>3. p.leases[s] = None
      <4>1. Wants(p, c)
        BY <2>6 DEF Wants, q
      <4> QED
        BY <3>1, <4>1 DEF Apart, EmptyHanded
    <3>4. ~Wants(d, c)
      <4>1. d.calls[c].status # "loading"
        BY <2>2, <3>1 DEF SameLoads, Waiting
      <4>2. ASSUME NEW x \in Resources, NEW i \in 1..Len(d.queues[x]), d.queues[x][i] = c
            PROVE  FALSE
        <5>1. CASE x = r
          <6>1. n + i \in 1..Len(q) /\ q[n + i] = q[n] /\ n + i # n
            BY <2>1, <2>6, <4>2, <5>1
          <6> QED
            BY <1>1, <2>6, <6>1, Zenon DEF Distinct, q
        <5>2. CASE x # r
          BY <1>1, <2>1, <3>1, <4>2, <5>2 DEF HoldWaiters
        <5> QED
          BY <5>1, <5>2
      <4> QED
        BY <4>1, <4>2 DEF Wants
    <3> HIDE DEF c, s
    <3>5. d.leases = [p.leases EXCEPT ![s] = NewLease(r, workers[r])]
      BY <2>6 DEF c, s
    <3>6. d = [leases |-> d.leases, queues |-> d.queues, calls |-> d.calls]
      BY <2>2 DEF PoolOK, PoolType
    <3>7. e.leases = p.leases /\ e.queues = d.queues /\ e.calls = d.calls
      BY <3>6
    <3> HIDE DEF e
    <3>8. Apart(e)
      <4>1. ASSUME NEW x \in Calls, Wants(d, x)
            PROVE  /\ d.calls[x].status # "idle"
                   /\ d.calls[x].session = p.calls[x].session
                   /\ p.leases[p.calls[x].session] = None
        <5>1. d.calls[x].status # "idle"
          BY <2>2, <4>1, WantsCall DEF Waiting
        <5> QED
          BY <2>3, <2>4, <4>1, <5>1 DEF FewerCalls, Apart, EmptyHanded
      <4>2. OneAcquire(e.calls)
        BY <2>3, <3>7 DEF FewerCalls, Apart, OneAcquire
      <4>3. \A x \in Calls : Wants(e, x) => Wants(d, x)
        BY <3>7 DEF Wants
      <4> QED
        BY <3>7, <4>1, <4>2, <4>3 DEF Apart, EmptyHanded
    <3>9. Apart(d)
      <4>1. ASSUME NEW x \in Calls, Wants(e, x)
            PROVE  e.calls[x].session \in Sessions \ {s}
        <5>1. Wants(d, x)
          BY <3>7, <4>1 DEF Wants
        <5>2. d.calls[x].status # "idle"
          BY <2>2, <5>1, WantsCall DEF Waiting
        <5>3. x # c
          BY <3>4, <5>1
        <5>4. p.calls[x].status # "idle" /\ p.calls[x].session = d.calls[x].session
          BY <2>3, <5>2 DEF FewerCalls
        <5>5. p.calls[x].session \in Sessions
          BY <1>1, <5>4, ActiveCallType
        <5> QED
          BY <3>1, <3>2, <3>7, <5>3, <5>4, <5>5 DEF Apart, OneAcquire, s
      <4>2. \A t \in Sessions : t # s => d.leases[t] = e.leases[t]
        BY <1>1, <3>5, <3>7
      <4> QED
        BY <3>7, <3>8, <4>1, <4>2, ApartGrant
    <3>10. /\ d.leases[s] = NewLease(r, workers[r])
           /\ d.leases[s] # None /\ d.leases[s].resource = r
           /\ \A t \in Sessions : p.leases[t] # None => d.leases[t] = p.leases[t]
      <4>1. NewLease(r, workers[r]).resource = r
        BY DEF NewLease
      <4>2. NewLease(r, workers[r]) # None
        <5>1. NewLease(r, workers[r]) \in Lease
          BY <1>3 DEF NewLease, Lease
        <5> QED
          BY <5>1, PoolAssumption DEF PoolAssumption, Lease
      <4> QED
        BY <1>1, <3>2, <3>3, <3>5, <4>1, <4>2
    <3>11. Waited(d)
      BY <2>1, <3>2, <3>10 DEF Waited
    <3> QED
      BY <2>3, <3>9, <3>11 DEF Awaited, d
  <2> QED
    BY <2>1, <2>5, <2>6
<1> QED
  BY <1>2, <1>3

(* A session without a call is granted nothing.                            *)
LEMMA DispatchPassesBy ==
    ASSUME NEW p, PoolOK(p, workers), NEW r \in Resources, NEW s \in Sessions, p.leases[s] = None,
           \A c \in Calls : p.calls[c].status # "idle" => p.calls[c].session # s
    PROVE  Dispatched(p, r).leases[s] = None
<1> DEFINE d == Dispatched(p, r)
<1>1. CASE workers[r] = None
  BY <1>1 DEF Dispatched
<1>2. CASE workers[r] # None
  <2>1. PICK n \in 0..Len(p.queues[r]) : Serves(p, r, d, n)
    BY <1>2, DispatchServes
  <2> HIDE DEF d
  <2>2. CASE d.leases = p.leases
    BY <2>2 DEF d
  <2>3. CASE /\ n \in 1..Len(p.queues[r])
             /\ d.leases = [p.leases EXCEPT ![p.calls[p.queues[r][n]].session] = NewLease(r, workers[r])]
    <3>1. p.leases \in [Sessions -> Lease \cup {None}] /\ p.queues[r] \in Seq(Calls) /\ HoldWaiters(p)
      BY DEF PoolOK, PoolType
    <3>2. p.queues[r][n] \in Calls /\ p.calls[p.queues[r][n]].status \in Waiting
      BY <2>3, <3>1 DEF HoldWaiters
    <3>3. p.calls[p.queues[r][n]].session # s
      BY <3>2 DEF Waiting
    <3>4. d.leases[s] = p.leases[s]
      BY <2>3, <3>1, <3>3
    <3> QED
      BY <3>4 DEF d
  <2> QED
    BY <2>1, <2>2, <2>3 DEF Serves
<1> QED
  BY <1>1, <1>2

LEMMA ReleasedAwaited ==
    ASSUME PoolAssumption, IInv, Awaited(Pool), NEW s \in Sessions
    PROVE  /\ Awaited(Released(Pool, s))
           /\ FewerCalls(calls, Released(Pool, s).calls)
           /\ (\A c \in Calls : calls[c].status # "idle" => calls[c].session # s)
                 => Released(Pool, s).leases[s] = None
<1> DEFINE p == Pool
           r == p.leases[s].resource
           e == [p EXCEPT !.leases[s] = None]
<1>1. /\ PoolOK(p, workers) /\ p.calls = calls /\ workers \in [Resources -> Workers \cup {None}]
      /\ Awaited(p)
  BY DEF IInv, Pool, TablesOK
<1> HIDE DEF p
<1>2. FewerCalls(p.calls, p.calls)
  BY <1>1 DEF FewerCalls, Awaited, Apart, OneAcquire
<1>3. CASE p.leases[s] = None
  <2>1. Released(p, s) = p
    BY <1>3 DEF Released
  <2> QED
    BY <1>1, <1>2, <1>3, <2>1 DEF p
<1>4. CASE p.leases[s] # None
  <2>1. /\ p = [leases |-> p.leases, queues |-> p.queues, calls |-> p.calls]
        /\ p.leases \in [Sessions -> Lease \cup {None}]
    BY <1>1 DEF PoolOK, PoolType
  <2>2. r \in Resources
    BY <1>4, <2>1 DEF Lease
  <2>3. PoolOK(e, workers) /\ e.queues = p.queues /\ e.calls = p.calls
    BY <1>1, LeaseDroppedOK
  <2>4. e.leases = [p.leases EXCEPT ![s] = None]
    BY <2>1
  <2>5. Released(p, s) = Dispatched(e, r)
    BY <1>4 DEF Released
  <2>6. e.leases[s] = None /\ \A t \in Sessions : t # s => e.leases[t] = p.leases[t]
    BY <2>1, <2>4
  <2> HIDE DEF e
  <2>7. Apart(e)
    <3>1. ASSUME NEW c \in Calls, Wants(e, c)
          PROVE  e.leases[e.calls[c].session] = None
      <4>1. p.calls[c].status # "idle" /\ Wants(p, c)
        BY <2>3, <3>1, WantsCall DEF Wants, Waiting
      <4>2. p.calls[c].session \in Sessions
        BY <1>1, <4>1, ActiveCallType DEF PoolOK, PoolType
      <4>3. p.leases[p.calls[c].session] = None
        BY <1>1, <4>1 DEF Awaited, Apart, EmptyHanded
      <4> QED
        BY <2>3, <2>6, <4>2, <4>3
    <3> QED
      BY <1>1, <2>3, <3>1 DEF Awaited, Apart, EmptyHanded
  <2>8. ASSUME NEW x \in Resources, x # r, e.queues[x] # <<>>
        PROVE  \E t \in Sessions : e.leases[t] # None /\ e.leases[t].resource = x
    <3>1. PICK t \in Sessions : p.leases[t] # None /\ p.leases[t].resource = x
      BY <1>1, <2>3, <2>8 DEF Awaited, Waited
    <3> QED
      BY <2>6, <2>8, <3>1
  <2> HIDE DEF r
  <2>9. Awaited(Dispatched(e, r)) /\ FewerCalls(e.calls, Dispatched(e, r).calls)
    BY <1>1, <2>2, <2>3, <2>7, <2>8, DispatchedAwaited
  <2>10. (\A c \in Calls : e.calls[c].status # "idle" => e.calls[c].session # s)
            => Dispatched(e, r).leases[s] = None
    BY <2>2, <2>3, <2>6, DispatchPassesBy
  <2> QED
    BY <1>1, <2>3, <2>5, <2>9, <2>10 DEF p
<1> QED
  BY <1>3, <1>4

(* The tail of acquire queues only behind a lease of this resource.        *)
LEMMA LeasedOrQueuedAwaited ==
    ASSUME PoolAssumption, NEW ws \in [Resources -> Workers \cup {None}],
           \A q, x \in Resources : ws[q] # None /\ ws[q] = ws[x] => q = x,
           NEW p, PoolOK(p, ws), Awaited(p),
           NEW c \in Calls, NEW s \in Sessions, NEW r \in Resources, ws[r] # None,
           p.calls[c].status \in {"idle", "loading"}, p.leases[s] = None,
           \A d \in Calls : d # c /\ p.calls[d].status # "idle" => p.calls[d].session # s
    PROVE  Awaited(LeasedOrQueued(p, c, s, r, ws[r]))
<1> DEFINE l == LeasedOrQueued(p, c, s, r, ws[r])
           k == CallOf(s, r, "queued")
           q == p.queues[r]
<1>1. /\ p \in PoolType /\ Named(p, ws) /\ HoldWaiters(p)
      /\ p.leases \in [Sessions -> Lease \cup {None}]
      /\ p.queues \in [Resources -> Seq(Calls)]
      /\ p.calls \in [Calls -> ActiveCall \cup {IdleCall}]
  BY DEF PoolOK, PoolType
<1>2. k.status = "queued" /\ k.session = s /\ IdleCall.status = "idle"
  BY DEF CallOf, IdleCall
<1>3. \A d \in Calls : Wants(p, d) => p.calls[d].status # "idle" /\ p.calls[d].session \in Sessions
  BY <1>1, WantsCall, ActiveCallType DEF Waiting
<1>4. Waited(p) /\ OneAcquire(p.calls) /\ EmptyHanded(p)
  BY DEF Awaited, Apart
<1>5. CASE Busy(p, ws[r])
  <2>1. l = [leases |-> p.leases,
             queues |-> [p.queues EXCEPT ![r] = Append(q, c)],
             calls  |-> [p.calls EXCEPT ![c] = k]]
    BY <1>1, <1>5 DEF LeasedOrQueued, PoolType
  <2>2. /\ l.leases = p.leases
        /\ l.queues[r] = Append(q, c) /\ \A x \in Resources : x # r => l.queues[x] = p.queues[x]
        /\ l.calls[c] = k /\ \A d \in Calls : d # c => l.calls[d] = p.calls[d]
    BY <1>1, <2>1
  <2>3. /\ Len(Append(q, c)) = Len(q) + 1 /\ Len(q) \in Nat
        /\ \A i \in 1..Len(q) : Append(q, c)[i] = q[i]
        /\ Append(q, c)[Len(q) + 1] = c
    BY <1>1
  <2> HIDE DEF l, k
  <2>4. PICK t \in Sessions : p.leases[t] # None /\ p.leases[t].worker = ws[r]
    BY <1>5 DEF Busy
  <2>5. p.leases[t].resource = r
    <3>1. p.leases[t].resource \in Resources /\ ws[p.leases[t].resource] = ws[r]
      BY <1>1, <2>4 DEF Lease, Named
    <3> QED
      BY <3>1
  <2>6. Waited(l)
    BY <1>4, <2>2, <2>4, <2>5 DEF Waited
  <2>7. OneAcquire(l.calls)
    <3>1. \A d \in Calls : l.calls[d].status # "abandoned"
      BY <1>2, <1>4, <2>2 DEF OneAcquire
    <3>2. ASSUME NEW d \in Calls, NEW x \in Calls, l.calls[d].status # "idle", l.calls[x].status # "idle",
                 l.calls[d].session = l.calls[x].session
          PROVE  d = x
      BY <1>2, <1>4, <2>2, <3>2 DEF OneAcquire
    <3> QED
      BY <3>1, <3>2 DEF OneAcquire
  <2>8. ASSUME NEW d \in Calls, d # c, Wants(l, d)
        PROVE  Wants(p, d)
    <3>1. CASE l.calls[d].status = "loading"
      BY <2>2, <2>8, <3>1 DEF Wants
    <3>2. ASSUME NEW x \in Resources, NEW i \in 1..Len(l.queues[x]), l.queues[x][i] = d
          PROVE  Wants(p, d)
      <4>1. CASE x = r
        <5>0. i \in 1..(Len(q) + 1) /\ Append(q, c)[i] = d
          BY <2>2, <2>3, <3>2, <4>1
        <5>1. i \in 1..Len(q) /\ q[i] = d
          <6>1. i # Len(q) + 1
            BY <2>3, <2>8, <5>0
          <6> HIDE DEF q
          <6>2. i \in 1..Len(q)
            BY <2>3, <5>0, <6>1
          <6> QED
            BY <2>3, <5>0, <6>2
        <5> QED
          BY <5>1 DEF Wants
      <4>2. CASE x # r
        BY <2>2, <3>2, <4>2 DEF Wants
      <4> QED
        BY <4>1, <4>2
    <3> QED
      BY <2>8, <3>1, <3>2 DEF Wants
  <2>9. EmptyHanded(l)
    BY <1>2, <1>4, <2>2, <2>8 DEF EmptyHanded
  <2> QED
    BY <2>6, <2>7, <2>9 DEF Awaited, Apart, l
<1>6. CASE ~Busy(p, ws[r])
  <2>1. l = [leases |-> [p.leases EXCEPT ![s] = NewLease(r, ws[r])],
             queues |-> p.queues,
             calls  |-> [p.calls EXCEPT ![c] = IdleCall]]
    BY <1>1, <1>6 DEF LeasedOrQueued, PoolType
  <2>2. /\ \A t \in Sessions : t # s => l.leases[t] = p.leases[t]
        /\ l.queues = p.queues
        /\ l.calls[c] = IdleCall /\ \A d \in Calls : d # c => l.calls[d] = p.calls[d]
    BY <1>1, <2>1
  <2> HIDE DEF l, k, q
  <2>3. Waited(l)
    <3>1. ASSUME NEW x \in Resources, l.queues[x] # <<>>
          PROVE  \E t \in Sessions : l.leases[t] # None /\ l.leases[t].resource = x
      <4>1. PICK t \in Sessions : p.leases[t] # None /\ p.leases[t].resource = x
        BY <1>4, <2>2, <3>1 DEF Waited
      <4>2. t # s
        BY <4>1
      <4> QED
        BY <2>2, <4>1, <4>2
    <3> QED
      BY <3>1 DEF Waited
  <2>4. OneAcquire(l.calls)
    <3>1. \A d \in Calls : l.calls[d].status # "abandoned"
      BY <1>2, <1>4, <2>2 DEF OneAcquire
    <3>2. ASSUME NEW d \in Calls, NEW x \in Calls, l.calls[d].status # "idle", l.calls[x].status # "idle",
                 l.calls[d].session = l.calls[x].session
          PROVE  d = x
      BY <1>2, <1>4, <2>2, <3>2 DEF OneAcquire
    <3> QED
      BY <3>1, <3>2 DEF OneAcquire
  <2>5. EmptyHanded(l)
    <3>1. ASSUME NEW d \in Calls, Wants(l, d)
          PROVE  l.leases[l.calls[d].session] = None
      <4>1. d # c
        <5>1. ASSUME NEW x \in Resources, NEW i \in 1..Len(p.queues[x])
              PROVE  p.queues[x][i] # c
          <6>1. p.calls[p.queues[x][i]].status \in Waiting
            BY <1>1 DEF HoldWaiters
          <6> QED
            BY <6>1 DEF Waiting
        <5> QED
          BY <1>2, <2>2, <3>1, <5>1 DEF Wants
      <4>2. Wants(p, d) /\ l.calls[d] = p.calls[d]
        BY <2>2, <3>1, <4>1 DEF Wants
      <4>3. p.calls[d].session \in Sessions /\ p.calls[d].session # s
        BY <1>3, <4>1, <4>2
      <4> QED
        BY <1>4, <2>2, <4>2, <4>3 DEF EmptyHanded
    <3> QED
      BY <3>1 DEF EmptyHanded
  <2> QED
    BY <2>3, <2>4, <2>5 DEF Awaited, Apart, l
<1> QED
  BY <1>5, <1>6

(* The step of a call that begins nothing, and that leaves the leases and, *)
(* except for its own waiter, the queues alone.                            *)
LEMMA CallStepAwaited ==
    ASSUME PoolAssumption, IInv, IInv', Awaited(Pool), NEW c \in Calls, NEW k,
           calls' = [calls EXCEPT ![c] = k], leases' = leases,
           k.status # "idle" => /\ calls[c].status # "idle" /\ k.session = calls[c].session
                                /\ k.status \notin {"abandoned", "loading"}
                                /\ calls[c].late => k.late,
           \A r \in Resources : queues'[r] # <<>> => queues[r] # <<>>,
           \A r \in Resources : \A i \in 1..Len(queues'[r]) :
               \E j \in 1..Len(queues[r]) : queues'[r][i] = queues[r][j]
    PROVE  Awaited(Pool') /\ FewerCalls(calls, calls')
<1> DEFINE p == Pool
           e == [leases |-> leases', queues |-> queues', calls |-> calls']
<1>1. /\ p.leases = leases /\ p.queues = queues /\ p.calls = calls
      /\ e.leases = leases' /\ e.queues = queues' /\ e.calls = calls' /\ e = Pool'
  BY DEF Pool
<1>2. PoolOK(e, workers') /\ calls \in [Calls -> ActiveCall \cup {IdleCall}] /\ Awaited(p)
  BY <1>1 DEF IInv, PoolOK, PoolType
<1> HIDE DEF p, e
<1>3. calls'[c] = k /\ \A d \in Calls : d # c => calls'[d] = calls[d]
  BY <1>2
<1>4. FewerCalls(p.calls, e.calls)
  BY <1>1, <1>2, <1>3 DEF FewerCalls, Awaited, Apart, OneAcquire
<1>5. \A d \in Calls : Wants(e, d) => Wants(p, d)
  <2>1. SUFFICES ASSUME NEW d \in Calls, Wants(e, d)
                 PROVE  Wants(p, d)
    OBVIOUS
  <2>2. CASE e.calls[d].status = "loading"
    BY <1>1, <1>3, <2>2 DEF Wants
  <2>3. ASSUME NEW r \in Resources, NEW i \in 1..Len(queues'[r]), queues'[r][i] = d
        PROVE  Wants(p, d)
    BY <1>1, <2>3 DEF Wants
  <2> QED
    BY <1>1, <2>1, <2>2, <2>3 DEF Wants
<1>6. Apart(e)
  BY <1>1, <1>2, <1>4, <1>5, ApartFewer DEF Awaited
<1>7. Waited(e)
  BY <1>1, <1>2 DEF Awaited, Waited
<1> QED
  BY <1>1, <1>4, <1>6, <1>7 DEF Awaited

(* A lease whose deadline moves is still there.                            *)
LEMMA DeadlineAwaited ==
    ASSUME PoolAssumption, IInv, Awaited(Pool), NEW s \in Sessions, leases[s] # None, NEW b \in BOOLEAN,
           leases' = [leases EXCEPT ![s].expired = b], UNCHANGED <<queues, calls>>
    PROVE  Awaited(Pool')
<1>1. leases \in [Sessions -> Lease \cup {None}] /\ leases[s] \in Lease
  BY DEF IInv, PoolOK, PoolType, Pool
<1>2. leases[s] = [resource |-> leases[s].resource, worker |-> leases[s].worker, expired |-> leases[s].expired]
  BY <1>1 DEF Lease
<1>3. /\ leases'[s].resource = leases[s].resource
      /\ leases'[s] \in Lease
      /\ \A t \in Sessions : t # s => leases'[t] = leases[t]
  BY <1>1, <1>2 DEF Lease
<1>4. leases'[s] # None
  BY <1>3, PoolAssumption DEF PoolAssumption, Lease
<1> DEFINE p == Pool
           e == [leases |-> leases', queues |-> queues', calls |-> calls']
<1>5. /\ p.leases = leases /\ p.queues = queues /\ p.calls = calls
      /\ e.leases = leases' /\ e.queues = queues /\ e.calls = calls /\ e = Pool'
      /\ PoolOK(p, workers) /\ Awaited(p)
  BY DEF Pool, IInv
<1> HIDE DEF p, e
<1>6. Waited(e)
  BY <1>3, <1>4, <1>5 DEF Awaited, Waited
<1>7. ASSUME NEW c \in Calls, Wants(e, c)
      PROVE  e.leases[e.calls[c].session] = None
  <2>1. Wants(p, c)
    BY <1>5, <1>7 DEF Wants
  <2>2. p.calls[c].status # "idle" /\ leases[calls[c].session] = None
    BY <1>5, <2>1, WantsCall DEF Waiting, Awaited, Apart, EmptyHanded
  <2>3. calls[c].session \in Sessions
    BY <1>5, <2>2, ActiveCallType DEF PoolOK, PoolType
  <2>4. calls[c].session # s
    BY <2>2
  <2> QED
    BY <1>3, <1>5, <2>2, <2>3, <2>4
<1> QED
  BY <1>5, <1>6, <1>7 DEF Awaited, Apart, EmptyHanded

(* When acquire begins, its session has no call, and no lease after the    *)
(* release.                                                                *)
LEMMA AcquireAlone ==
    ASSUME PoolAssumption, ~MayOverlap, ~MayCancel, IInv, Awaited(Pool),
           NEW c \in Calls, NEW s \in Sessions, MayAcquire(c, s)
    PROVE  LET p == Released(Pool, s)
           IN  /\ PoolOK(p, workers) /\ Awaited(p)
               /\ p.leases[s] = None
               /\ p.calls[c].status = "idle"
               /\ \A d \in Calls : p.calls[d].status # "idle" => p.calls[d].session # s
<1> DEFINE p == Released(Pool, s)
<1>1. \A d \in Calls : calls[d].status # "idle" => calls[d].session # s
  <2>1. LeftBehind = {}
    BY DEF LeftBehind
  <2>2. IdleCall.status = "idle" /\ Outstanding(s) = {}
    BY DEF MayAcquire, IdleCall
  <2> QED
    BY <2>1, <2>2 DEF Outstanding
<1>2. PoolOK(p, workers) /\ SameLoads(calls, p.calls)
  BY ReleasedPool
<1>3. Awaited(p) /\ FewerCalls(calls, p.calls) /\ p.leases[s] = None
  BY <1>1, ReleasedAwaited
<1>4. calls[c].status = "idle"
  BY DEF MayAcquire
<1> HIDE DEF p
<1>5. p.calls[c].status = "idle"
  BY <1>2, <1>4 DEF SameLoads
<1>6. \A d \in Calls : p.calls[d].status # "idle" => p.calls[d].session # s
  BY <1>1, <1>3 DEF FewerCalls
<1> QED
  BY <1>2, <1>3, <1>5, <1>6 DEF p

LEMMA AcquireAwaited ==
    ASSUME PoolAssumption, ~MayOverlap, ~MayCancel, IInv, Awaited(Pool),
           NEW c \in Calls, NEW s \in Sessions, NEW r \in Resources, Acquire(c, s, r)
    PROVE  Awaited(Pool')
<1> DEFINE p == Released(Pool, s)
<1>1. CASE AcquireRenews(c, s, r)
  BY <1>1, DeadlineAwaited DEF AcquireRenews, HoldsLeaseOn
<1>2. ASSUME NEW e, Awaited(e), Install(e),
             e = [leases |-> e.leases, queues |-> e.queues, calls |-> e.calls]
      PROVE  Awaited(Pool')
  BY <1>2 DEF Install, Pool
<1>3. ASSUME MayAcquire(c, s)
      PROVE  /\ PoolOK(p, workers) /\ Awaited(p)
             /\ p.leases[s] = None
             /\ p.calls[c].status = "idle"
             /\ \A d \in Calls : p.calls[d].status # "idle" => p.calls[d].session # s
             /\ p = [leases |-> p.leases, queues |-> p.queues, calls |-> p.calls]
             /\ p.calls \in [Calls -> ActiveCall \cup {IdleCall}]
  BY <1>3, AcquireAlone DEF PoolOK, PoolType
<1> HIDE DEF p
<1>4. CASE AcquireAtCap(c, s, r)
  BY <1>2, <1>3, <1>4 DEF AcquireAtCap, p
<1>5. CASE AcquireLoaded(c, s, r)
  <2> DEFINE l == LeasedOrQueued(p, c, s, r, workers[r])
  <2>1. MayAcquire(c, s) /\ workers[r] # None /\ Install(l)
    BY <1>5 DEF AcquireLoaded, p
  <2>2. /\ workers \in [Resources -> Workers \cup {None}]
        /\ \A q, x \in Resources : workers[q] # None /\ workers[q] = workers[x] => q = x
    BY DEF IInv, TablesOK
  <2>3. Awaited(l)
    BY <1>3, <2>1, <2>2, LeasedOrQueuedAwaited
  <2>4. PoolOK(l, workers)
    BY <1>3, <2>1, <2>2, LeasedOrQueuedOK
  <2> HIDE DEF l
  <2> QED
    BY <1>2, <2>1, <2>3, <2>4 DEF PoolOK, PoolType
<1>6. CASE AcquireLoads(c, s, r)
  <2> DEFINE k == CallOf(s, r, "loading")
             e == [p EXCEPT !.calls[c] = k]
  <2>1. MayAcquire(c, s) /\ Install(e)
    BY <1>6 DEF AcquireLoads, p
  <2>2. k.status = "loading" /\ k.session = s
    BY DEF CallOf
  <2> HIDE DEF k
  <2>3. /\ e = [leases |-> p.leases, queues |-> p.queues, calls |-> [p.calls EXCEPT ![c] = k]]
        /\ e.leases = p.leases /\ e.queues = p.queues
        /\ e.calls[c] = k /\ \A d \in Calls : d # c => e.calls[d] = p.calls[d]
    BY <1>3, <2>1
  <2>4. Waited(p) /\ OneAcquire(p.calls) /\ EmptyHanded(p)
    BY <1>3, <2>1 DEF Awaited, Apart
  <2> HIDE DEF e
  <2>5. Waited(e)
    BY <2>3, <2>4 DEF Waited
  <2>6. OneAcquire(e.calls)
    <3>1. \A d \in Calls : e.calls[d].status # "abandoned"
      BY <2>2, <2>3, <2>4 DEF OneAcquire
    <3>2. ASSUME NEW d \in Calls, NEW x \in Calls, e.calls[d].status # "idle", e.calls[x].status # "idle",
                 e.calls[d].session = e.calls[x].session
          PROVE  d = x
      BY <1>3, <2>1, <2>2, <2>3, <2>4, <3>2 DEF OneAcquire
    <3> QED
      BY <3>1, <3>2 DEF OneAcquire
  <2>7. EmptyHanded(e)
    <3>1. ASSUME NEW d \in Calls, Wants(e, d)
          PROVE  e.leases[e.calls[d].session] = None
      <4>1. CASE d = c
        BY <1>3, <2>1, <2>2, <2>3, <4>1
      <4>2. CASE d # c
        BY <2>3, <2>4, <3>1, <4>2 DEF EmptyHanded, Wants
      <4> QED
        BY <4>1, <4>2
    <3> QED
      BY <3>1 DEF EmptyHanded
  <2>8. e = [leases |-> e.leases, queues |-> e.queues, calls |-> e.calls]
    BY <2>3
  <2> QED
    BY <1>2, <2>1, <2>5, <2>6, <2>7, <2>8 DEF Awaited, Apart
<1> QED
  BY <1>1, <1>4, <1>5, <1>6 DEF Acquire

LEMMA LoadReturnsAwaited ==
    ASSUME PoolAssumption, IInv, Awaited(Pool), NEW c \in Calls, LoadReturns(c)
    PROVE  Awaited(Pool')
<1> DEFINE s == calls[c].session
           r == calls[c].resource
<1>1. PICK w \in FreshWorkers : AddWorker(r, w) /\ Install(LeasedOrQueued(Pool, c, s, r, w))
  BY DEF LoadReturns
<1>2. calls[c].status = "loading" /\ s \in Sessions /\ r \in Resources /\ workers[r] = None
  BY LoadingCall DEF LoadReturns
<1>3. /\ leases[s] = None
      /\ \A d \in Calls : d # c /\ calls[d].status # "idle" => calls[d].session # s
  <2>1. Wants(Pool, c)
    BY <1>2 DEF Wants, Pool
  <2> QED
    BY <1>2, <2>1 DEF Awaited, Apart, OneAcquire, EmptyHanded, Pool
<1> HIDE DEF s, r
<1>4. PoolOK(Pool, workers) /\ TablesOK(workers, older) /\ Pool.leases = leases /\ Pool.calls = calls
  BY DEF IInv, Pool
<1>5. TablesOK(workers', older') /\ workers'[r] # None /\ workers'[r] = w /\ PoolOK(Pool, workers')
  BY <1>1, <1>2, <1>4, AddWorkerOK
<1>6. /\ workers' \in [Resources -> Workers \cup {None}]
      /\ \A q, x \in Resources : workers'[q] # None /\ workers'[q] = workers'[x] => q = x
  BY <1>5 DEF TablesOK
<1>7. calls[c].status \in {"idle", "loading"}
  BY <1>2
<1> DEFINE l == LeasedOrQueued(Pool, c, s, r, w)
<1>8. Awaited(l)
  BY <1>2, <1>3, <1>4, <1>5, <1>6, <1>7, LeasedOrQueuedAwaited
<1>9. PoolOK(l, workers')
  BY <1>2, <1>4, <1>5, <1>6, <1>7, LeasedOrQueuedOK
<1>10. l = [leases |-> l.leases, queues |-> l.queues, calls |-> l.calls]
  BY <1>9 DEF PoolOK, PoolType
<1> HIDE DEF l
<1>11. Install(l)
  BY <1>1 DEF l
<1> QED
  BY <1>8, <1>10, <1>11 DEF Install, Pool

LEMMA CallAwaited ==
    ASSUME PoolAssumption, ~MayCancel, IInv, IInv', Awaited(Pool), NEW c \in Calls, CallStep(c)
    PROVE  Awaited(Pool') /\ (LoadReturns(c) \/ FewerCalls(calls, calls'))
<1>1. CASE LoadReturns(c)
  BY <1>1, LoadReturnsAwaited
<1>2. /\ calls[c] \in ActiveCall \cup {IdleCall}
      /\ calls[c].status # "abandoned"
      /\ IdleCall.status = "idle"
  BY DEF IInv, PoolOK, PoolType, Pool, Awaited, Apart, OneAcquire, IdleCall
<1>3. ASSUME calls' = [calls EXCEPT ![c] = IdleCall], UNCHANGED <<leases, queues>>
      PROVE  Awaited(Pool') /\ FewerCalls(calls, calls')
  BY <1>2, <1>3, CallStepAwaited
<1>4. CASE LoadFails(c) \/ AcquireResumes(c)
  BY <1>3, <1>4 DEF LoadFails, AcquireResumes
<1>5. CASE DeadlinePasses(c)
  <2> DEFINE k == [calls[c] EXCEPT !.late = TRUE]
  <2>1. calls' = [calls EXCEPT ![c] = k] /\ UNCHANGED <<leases, queues>>
        /\ calls[c].status \in {"queued", "granted", "abandoned"}
    BY <1>5 DEF DeadlinePasses
  <2>2. k.status = calls[c].status /\ k.session = calls[c].session /\ k.late
    BY <1>2, <2>1 DEF ActiveCall
  <2> HIDE DEF k
  <2> QED
    BY <1>2, <2>1, <2>2, CallStepAwaited
<1>6. CASE WaitTimesOut(c)
  <2> DEFINE k == [calls[c] EXCEPT !.status = "timedout"]
  <2>1. calls' = [calls EXCEPT ![c] = k] /\ UNCHANGED <<leases, queues>>
        /\ calls[c].status \in {"queued", "granted"}
    BY <1>6 DEF WaitTimesOut
  <2>2. k.status = "timedout" /\ k.session = calls[c].session /\ k.late = calls[c].late
    BY <1>2, <2>1 DEF ActiveCall
  <2> HIDE DEF k
  <2> QED
    BY <1>2, <2>1, <2>2, CallStepAwaited
<1>7. CASE RemoveWaiter(c)
  <2> DEFINE r == calls[c].resource
             t == Removed(queues[r], c)
  <2>1. /\ calls[c].status = "timedout"
        /\ queues' = [queues EXCEPT ![r] = t]
        /\ calls' = [calls EXCEPT ![c] = IdleCall]
        /\ leases' = leases
    BY <1>7 DEF RemoveWaiter
  <2>2. queues \in [Resources -> Seq(Calls)] /\ Distinct(Pool) /\ Pool.queues = queues
    BY DEF IInv, PoolOK, PoolType, Pool
  <2>3. r \in Resources
    BY <2>1, WaitingCall
  <2> HIDE DEF r
  <2>4. queues[r] \in Seq(Calls) /\ \A i, j \in 1..Len(queues[r]) : queues[r][i] = queues[r][j] => i = j
    BY <2>2, <2>3 DEF Distinct
  <2>5. t \in Seq(Calls) /\ \A j \in 1..Len(t) : \E k \in 1..Len(queues[r]) : t[j] = queues[r][k]
    BY <2>4, RemovedElements, Zenon
  <2> HIDE DEF t
  <2>6. queues'[r] = t /\ \A x \in Resources : x # r => queues'[x] = queues[x]
    BY <2>1, <2>2, <2>3
  <2>7. t # <<>> => queues[r] # <<>>
    <3>1. SUFFICES ASSUME t # <<>>
                   PROVE  queues[r] # <<>>
      OBVIOUS
    <3>2. 1 \in 1..Len(t)
      BY <2>5, <3>1
    <3>3. PICK k \in 1..Len(queues[r]) : t[1] = queues[r][k]
      BY <2>5, <3>2
    <3> QED
      BY <2>4, <3>3
  <2>8. \A x \in Resources : queues'[x] # <<>> => queues[x] # <<>>
    BY <2>6, <2>7
  <2>9. ASSUME NEW x \in Resources, NEW i \in 1..Len(queues'[x])
        PROVE  \E j \in 1..Len(queues[x]) : queues'[x][i] = queues[x][j]
    BY <2>5, <2>6, <2>9
  <2> QED
    BY <1>2, <2>1, <2>8, <2>9, CallStepAwaited
<1> QED
  BY <1>1, <1>4, <1>5, <1>6, <1>7, NothingLeftBehind DEF CallStep, CancelAcquire

LEMMA NextAwaited ==
    ASSUME PoolAssumption, ~MayOverlap, ~MayCancel, IInv, Awaited(Pool), [Next]_vars
    PROVE  Awaited(Pool')
<1>1. CASE UNCHANGED <<leases, queues, calls>>
  <2>1. Pool' = Pool
    BY <1>1 DEF Pool
  <2> QED
    BY <2>1
<1>2. IInv'
  BY NextIInv
<1>3. ASSUME NEW s \in Sessions, Install(Released(Pool, s))
      PROVE  Awaited(Pool')
  <2> DEFINE p == Released(Pool, s)
  <2>1. Awaited(p) /\ PoolOK(p, workers)
    BY ReleasedAwaited, ReleasedPool
  <2>2. Install(p)
    BY <1>3
  <2> HIDE DEF p
  <2>3. p = [leases |-> p.leases, queues |-> p.queues, calls |-> p.calls]
    BY <2>1 DEF PoolOK, PoolType
  <2> QED
    BY <2>1, <2>2, <2>3 DEF Install, Pool
<1>4. ASSUME NEW s \in Sessions, SessionStep(s)
      PROVE  Awaited(Pool')
  <2>1. CASE Renew(s) \/ LeaseExpires(s)
    BY <2>1, DeadlineAwaited DEF Renew, LeaseExpires
  <2> QED
    BY <1>3, <1>4, <2>1 DEF SessionStep, Release, ReapOne
<1>5. CASE Stop
  <2> DEFINE p == Pool
             e == [leases |-> leases', queues |-> queues', calls |-> calls']
  <2>1. /\ p.calls = calls /\ p.leases = leases /\ Awaited(p)
        /\ e.leases = leases' /\ e.queues = queues' /\ e.calls = calls' /\ e = Pool'
        /\ PoolOK(e, workers')
    BY <1>2 DEF Pool, IInv
  <2> HIDE DEF p, e
  <2>2. /\ \A s \in Sessions : leases'[s] = None
        /\ \A r \in Resources : queues'[r] = <<>>
    BY <1>5 DEF Stop
  <2>3. ASSUME NEW c \in Calls
        PROVE  /\ calls[c].status # "abandoned"
               /\ calls'[c] = IF calls[c].status = "queued"
                              THEN [calls[c] EXCEPT !.status = "refused"] ELSE calls[c]
    BY <1>5, <2>1 DEF Stop, Awaited, Apart, OneAcquire
  <2>4. ASSUME NEW c \in Calls, calls'[c].status # "idle"
        PROVE  /\ calls[c].status # "idle" /\ calls'[c].session = calls[c].session
               /\ calls'[c].status # "abandoned"
               /\ calls[c].late => calls'[c].late
    <3>1. calls[c] \in ActiveCall \cup {IdleCall}
      BY DEF IInv, PoolOK, PoolType, Pool
    <3>2. CASE calls[c].status = "queued"
      <4>1. calls[c] \in ActiveCall
        BY <3>1, <3>2, ActiveCallType
      <4> QED
        BY <2>3, <3>2, <4>1 DEF ActiveCall
    <3>3. CASE calls[c].status # "queued"
      BY <2>3, <2>4, <3>3
    <3> QED
      BY <3>2, <3>3
  <2>5. FewerCalls(p.calls, e.calls)
    BY <2>1, <2>4 DEF FewerCalls
  <2>6. OneAcquire(e.calls)
    BY <2>1, <2>5 DEF OneAcquire, FewerCalls, Awaited, Apart
  <2>7. EmptyHanded(e)
    <3>1. ASSUME NEW c \in Calls, Wants(e, c)
          PROVE  e.leases[e.calls[c].session] = None
      <4>1. e.calls[c].status # "idle"
        BY <2>1, <3>1, WantsCall DEF Waiting
      <4>2. e.calls[c].session \in Sessions
        BY <2>1, <4>1, ActiveCallType DEF PoolOK, PoolType
      <4> QED
        BY <2>1, <2>2, <4>2
    <3> QED
      BY <3>1 DEF EmptyHanded
  <2>8. Waited(e)
    BY <2>1, <2>2 DEF Waited
  <2> QED
    BY <2>1, <2>6, <2>7, <2>8 DEF Awaited, Apart
<1> QED
  BY <1>1, <1>2, <1>4, <1>5, AcquireAwaited, CallAwaited
     DEF Next, ReapScan, EvictOverflow, EvictWorker, Preload, StartReturns, vars

(* When no session has two acquires outstanding and none is cancelled,     *)
(* whoever is queued for a worker (_waiters) is behind a lease of that     *)
(* worker, the end of which will dispatch it: expiry, timeouts, evictions, *)
(* failed loads and a stop lose no wakeup (pool.py:371-407).               *)
THEOREM PoolNoLostWakeup == ~MayOverlap /\ ~MayCancel => (Spec => []NoLostWakeup)
<1> SUFFICES ASSUME ~MayOverlap, ~MayCancel
             PROVE  Spec => []NoLostWakeup
  OBVIOUS
<1> DEFINE PoolAwaited == Awaited(Pool)
<1>1. Init => PoolAwaited
  <2>1. SUFFICES ASSUME Init
                 PROVE  Awaited(Pool)
    OBVIOUS
  <2>2. /\ Pool.leases = [s \in Sessions |-> None]
        /\ Pool.queues = [r \in Resources |-> <<>>]
        /\ Pool.calls = [c \in Calls |-> IdleCall]
        /\ IdleCall.status = "idle" /\ Len(<<>>) = 0
    BY <2>1 DEF Init, Pool, IdleCall
  <2>3. \A c \in Calls : ~Wants(Pool, c)
    BY <2>2 DEF Wants
  <2>4. OneAcquire(Pool.calls)
    BY <2>2 DEF OneAcquire
  <2> QED
    BY <2>2, <2>3, <2>4 DEF Awaited, Waited, Apart, EmptyHanded
<1>2. IInv /\ PoolAwaited /\ [Next]_vars => PoolAwaited'
  <2>1. SUFFICES ASSUME IInv, Awaited(Pool), [Next]_vars
                 PROVE  Awaited(Pool')
    OBVIOUS
  <2> QED
    BY <2>1, PoolAssumption, NextAwaited
<1>3. PoolAwaited => NoLostWakeup
  BY DEF Awaited, Waited, NoLostWakeup, HoldsLeaseOn, Pool
<1> HIDE DEF PoolAwaited
<1> QED
  BY <1>1, <1>2, <1>3, PoolInvariant, PTL DEF Spec

-----------------------------------------------------------------------------
(* The pool as a fair lease service, for sessions that play by its rules.  *)

(* Holder, line and late sessions of WorkerPoolFair, of a pool record.     *)
Holds(p, s, r) == p.leases[s] # None /\ p.leases[s].resource = r

Holder(p, r) ==
    IF \E s \in Sessions : Holds(p, s, r) THEN CHOOSE s \in Sessions : Holds(p, s, r) ELSE None

Line(p, r) == [i \in 1..Len(p.queues[r]) |-> p.calls[p.queues[r][i]].session]

Queued(p, c) == \E r \in Resources : \E i \in 1..Len(p.queues[r]) : p.queues[r][i] = c

Late(p) == {p.calls[c].session : c \in {d \in Calls : p.calls[d].late /\ Queued(p, d)}}

(* What may become of the resource r from p to e.                          *)
Stays(p, e, r) == Holder(e, r) = Holder(p, r) /\ Line(e, r) = Line(p, r)

Takes(p, e, r) ==
    Holder(p, r) = None /\ Line(p, r) = <<>> /\ Holder(e, r) \in Sessions /\ Line(e, r) = <<>>

Joins(p, e, r) ==
    /\ Holder(p, r) # None
    /\ Holder(e, r) = Holder(p, r)
    /\ \E s \in Sessions : /\ s # Holder(p, r)
                           /\ \A i \in 1..Len(Line(p, r)) : Line(p, r)[i] # s
                           /\ Line(e, r) = Append(Line(p, r), s)

Leaves(p, e, r) ==
    /\ Holder(e, r) = Holder(p, r)
    /\ \E i \in 1..Len(Line(p, r)) :
          /\ Line(p, r)[i] \in Late(p)
          /\ Line(e, r) = SubSeq(Line(p, r), 1, i - 1) \o SubSeq(Line(p, r), i + 1, Len(Line(p, r)))

HandsOver(p, e, r) ==
    \/ \E i \in 1..Len(Line(p, r)) :
          /\ Line(p, r)[i] \notin Late(p)
          /\ \A j \in 1..(i - 1) : Line(p, r)[j] \in Late(p)
          /\ Holder(e, r) = Line(p, r)[i]
          /\ Line(e, r) = SubSeq(Line(p, r), i + 1, Len(Line(p, r)))
    \/ /\ \A i \in 1..Len(Line(p, r)) : Line(p, r)[i] \in Late(p)
       /\ Holder(e, r) = None
       /\ Line(e, r) = <<>>

Moves(p, e, r) ==
    \/ Stays(p, e, r)
    \/ Takes(p, e, r)
    \/ Joins(p, e, r)
    \/ Leaves(p, e, r)
    \/ Holder(p, r) # None /\ HandsOver(p, e, r)

(* Whoever is late stays so as long as it is in line.                      *)
StayLate(p, e) ==
    \A r \in Resources : \A i \in 1..Len(Line(e, r)) :
        Line(e, r)[i] \in Late(p) => Line(e, r)[i] \in Late(e)

LEMMA HolderIs ==
    ASSUME PoolAssumption, NEW p, Kept(p.leases), NEW r
    PROVE  /\ \A s \in Sessions : Holds(p, s, r) <=> Holder(p, r) = s
           /\ Holder(p, r) \in Sessions \cup {None}
           /\ Holder(p, r) = None <=> \A s \in Sessions : ~Holds(p, s, r)
<1>1. None \notin Sessions
  BY DEF PoolAssumption
<1>2. CASE \E s \in Sessions : Holds(p, s, r)
  <2>1. Holder(p, r) \in Sessions /\ Holds(p, Holder(p, r), r)
    BY <1>2, Zenon DEF Holder
  <2>2. \A s \in Sessions : Holds(p, s, r) => s = Holder(p, r)
    BY <2>1 DEF Kept, Holds
  <2> QED
    BY <1>1, <2>1, <2>2
<1>3. CASE ~\E s \in Sessions : Holds(p, s, r)
  BY <1>1, <1>3 DEF Holder
<1> QED
  BY <1>2, <1>3

LEMMA StaysIf ==
    ASSUME PoolAssumption, NEW p, NEW e, Kept(p.leases), Kept(e.leases), NEW r,
           \A s \in Sessions : Holds(e, s, r) <=> Holds(p, s, r),
           e.queues[r] = p.queues[r],
           \A i \in 1..Len(p.queues[r]) :
               e.calls[p.queues[r][i]].session = p.calls[p.queues[r][i]].session
    PROVE  Stays(p, e, r)
<1>1. Holder(e, r) = Holder(p, r)
  <2>1. CASE Holder(p, r) = None
    BY <2>1, HolderIs
  <2>2. CASE Holder(p, r) \in Sessions
    BY <2>2, HolderIs
  <2> QED
    BY <2>1, <2>2, HolderIs
<1>2. Line(e, r) = Line(p, r)
  BY DEF Line
<1> QED
  BY <1>1, <1>2 DEF Stays

(* The line is as long as the queue.                                       *)
LEMMA LineIs ==
    ASSUME NEW p, NEW ws, PoolOK(p, ws), NEW r \in Resources
    PROVE  /\ Line(p, r) \in Seq(Sessions)
           /\ Len(Line(p, r)) = Len(p.queues[r]) /\ Len(Line(p, r)) \in Nat
           /\ \A i \in 1..Len(Line(p, r)) :
                 /\ p.queues[r][i] \in Calls
                 /\ Queued(p, p.queues[r][i])
                 /\ Line(p, r)[i] = p.calls[p.queues[r][i]].session
                 /\ p.calls[p.queues[r][i]].status \in Waiting
<1>1. /\ p.queues[r] \in Seq(Calls) /\ Len(p.queues[r]) \in Nat
      /\ p.calls \in [Calls -> ActiveCall \cup {IdleCall}]
      /\ HoldWaiters(p)
  BY DEF PoolOK, PoolType
<1>2. ASSUME NEW i \in 1..Len(p.queues[r])
      PROVE  /\ p.queues[r][i] \in Calls
             /\ p.calls[p.queues[r][i]].status \in Waiting
             /\ p.calls[p.queues[r][i]].session \in Sessions
  <2>1. p.queues[r][i] \in Calls /\ p.calls[p.queues[r][i]].status \in Waiting
    BY <1>1 DEF HoldWaiters
  <2> QED
    BY <1>1, <2>1, ActiveCallType DEF Waiting
<1>3. Line(p, r) \in [1..Len(p.queues[r]) -> Sessions]
  BY <1>2 DEF Line
<1>4. Line(p, r) \in Seq(Sessions) /\ Len(Line(p, r)) = Len(p.queues[r])
  BY <1>1, <1>3
<1> QED
  BY <1>1, <1>2, <1>4 DEF Line, Queued

(* A session in line is late when its call is: it has no other.            *)
LEMMA LateIs ==
    ASSUME NEW p, NEW ws, PoolOK(p, ws), OneAcquire(p.calls), NEW c \in Calls, Queued(p, c)
    PROVE  p.calls[c].session \in Late(p) <=> p.calls[c].late
<1>1. \A d \in Calls : Queued(p, d) => p.calls[d].status # "idle"
  BY DEF Queued, PoolOK, HoldWaiters, Waiting
<1>2. ASSUME p.calls[c].session \in Late(p)
      PROVE  p.calls[c].late
  <2>1. PICK d \in Calls : p.calls[d].late /\ Queued(p, d) /\ p.calls[d].session = p.calls[c].session
    BY <1>2 DEF Late
  <2>2. d = c
    BY <1>1, <2>1 DEF OneAcquire
  <2> QED
    BY <2>1, <2>2
<1> QED
  BY <1>2 DEF Late

(* A step that adds nobody to a line but a session that was in none.       *)
LEMMA StayLateIf ==
    ASSUME NEW p, NEW e, NEW ps, NEW es, PoolOK(p, ps), PoolOK(e, es), OneAcquire(p.calls),
           \A c \in Calls : Queued(e, c) =>
               \/ /\ p.calls[c].status # "idle"
                  /\ e.calls[c].session = p.calls[c].session
                  /\ p.calls[c].late => e.calls[c].late
               \/ \A d \in Calls : Queued(p, d) => p.calls[d].session # e.calls[c].session
    PROVE  StayLate(p, e)
<1>1. SUFFICES ASSUME NEW r \in Resources, NEW i \in 1..Len(Line(e, r)), Line(e, r)[i] \in Late(p)
               PROVE  Line(e, r)[i] \in Late(e)
  BY DEF StayLate
<1> DEFINE c == e.queues[r][i]
<1>2. c \in Calls /\ Queued(e, c) /\ Line(e, r)[i] = e.calls[c].session
  BY LineIs
<1>3. PICK d \in Calls : p.calls[d].late /\ Queued(p, d) /\ p.calls[d].session = e.calls[c].session
  BY <1>1, <1>2 DEF Late
<1> HIDE DEF c
<1>4. /\ p.calls[c].status # "idle"
      /\ e.calls[c].session = p.calls[c].session
      /\ p.calls[c].late => e.calls[c].late
  BY <1>2, <1>3
<1>5. \A x \in Calls : Queued(p, x) => p.calls[x].status # "idle"
  BY DEF Queued, PoolOK, HoldWaiters, Waiting
<1>6. d = c
  BY <1>2, <1>3, <1>4, <1>5 DEF OneAcquire
<1>7. e.calls[c].late
  BY <1>3, <1>4, <1>6
<1> QED
  BY <1>2, <1>7 DEF Late

LEMMA StayLateFewer ==
    ASSUME NEW p, NEW e, NEW ps, NEW es, PoolOK(p, ps), PoolOK(e, es), OneAcquire(p.calls),
           FewerCalls(p.calls, e.calls)
    PROVE  StayLate(p, e)
<1>1. \A c \in Calls : Queued(e, c) => e.calls[c].status # "idle"
  BY DEF Queued, PoolOK, HoldWaiters, Waiting
<1> QED
  BY <1>1, StayLateIf DEF FewerCalls

(* A dispatch follows the end of the lease of r: it hands r over.          *)
LEMMA DispatchedFair ==
    ASSUME PoolAssumption, workers \in [Resources -> Workers \cup {None}],
           NEW p, PoolOK(p, workers), Apart(p), Kept(p.leases), NEW r \in Resources, workers[r] # None,
           \A s \in Sessions : ~Holds(p, s, r),
           FewerCalls(p.calls, Dispatched(p, r).calls)
    PROVE  LET d == Dispatched(p, r)
           IN  HandsOver(p, d, r) /\ \A x \in Resources : x # r => Stays(p, d, x)
<1> DEFINE d == Dispatched(p, r)
           q == p.queues[r]
<1>1. PoolOK(d, workers)
  BY DispatchedOK
<1>2. Kept(d.leases)
  <2>1. \A t \in Sessions : p.leases[t] # None => p.leases[t].resource # r
    BY DEF Holds
  <2> QED
    BY <2>1, DispatchedKept
<1>3. PICK n \in 0..Len(q) : Serves(p, r, d, n)
  BY DispatchServes
<1> HIDE DEF d
<1>4. FewerCalls(p.calls, d.calls)
  BY DEF d
<1>5. /\ p.leases \in [Sessions -> Lease \cup {None}]
      /\ q \in Seq(Calls) /\ Len(q) \in Nat
      /\ OneAcquire(p.calls)
  BY DEF PoolOK, PoolType, Apart
<1>6. ASSUME NEW x \in Resources, NEW i \in 1..Len(d.queues[x])
      PROVE  d.calls[d.queues[x][i]].session = p.calls[d.queues[x][i]].session
  <2>1. d.queues[x][i] \in Calls /\ d.calls[d.queues[x][i]].status # "idle"
    <3>1. d.queues \in [Resources -> Seq(Calls)] /\ HoldWaiters(d)
      BY <1>1 DEF PoolOK, PoolType
    <3>2. d.calls[d.queues[x][i]].status \in Waiting
      BY <3>1 DEF HoldWaiters
    <3> QED
      BY <3>1, <3>2 DEF Waiting
  <2> QED
    BY <1>4, <2>1 DEF FewerCalls
<1>7. /\ Line(p, r) \in Seq(Sessions) /\ Len(Line(p, r)) = Len(q)
      /\ \A i \in 1..Len(q) : /\ Line(p, r)[i] = p.calls[q[i]].session
                              /\ Line(p, r)[i] \in Sessions
                              /\ Line(p, r)[i] \in Late(p) <=> p.calls[q[i]].late
  <2>1. /\ Line(p, r) \in Seq(Sessions) /\ Len(Line(p, r)) = Len(q)
        /\ \A i \in 1..Len(q) : q[i] \in Calls /\ Queued(p, q[i]) /\ Line(p, r)[i] = p.calls[q[i]].session
    BY LineIs
  <2> HIDE DEF q
  <2>2. ASSUME NEW i \in 1..Len(q)
        PROVE  Line(p, r)[i] \in Late(p) <=> p.calls[q[i]].late
    BY <1>5, <2>1, LateIs
  <2> QED
    BY <1>5, <2>1, <2>2
<1>8. Line(d, r) = SubSeq(Line(p, r), n + 1, Len(Line(p, r)))
  <2>1. /\ Len(d.queues[r]) = Len(q) - n
        /\ \A i \in 1..Len(d.queues[r]) : n + i \in 1..Len(q) /\ d.queues[r][i] = q[n + i]
    BY <1>3, Zenon DEF Serves
  <2>2. /\ Line(d, r) \in Seq(Sessions)
        /\ Len(Line(d, r)) = Len(q) - n
        /\ \A i \in 1..Len(Line(d, r)) : Line(d, r)[i] = d.calls[d.queues[r][i]].session
    <3>1. /\ Line(d, r) \in Seq(Sessions) /\ Len(Line(d, r)) = Len(d.queues[r])
          /\ \A i \in 1..Len(Line(d, r)) : Line(d, r)[i] = d.calls[d.queues[r][i]].session
      BY <1>1, LineIs
    <3> QED
      BY <2>1, <3>1
  <2> HIDE DEF q
  <2>3. ASSUME NEW i \in 1..(Len(q) - n)
        PROVE  Line(d, r)[i] = Line(p, r)[n + i]
    <3>1. i \in 1..Len(d.queues[r]) /\ i \in 1..Len(Line(d, r))
      BY <2>1, <2>2
    <3>2. n + i \in 1..Len(q) /\ d.queues[r][i] = q[n + i]
      BY <2>1, <3>1, Zenon
    <3>3. d.calls[d.queues[r][i]].session = p.calls[d.queues[r][i]].session
      BY <1>6, <3>1
    <3>4. Line(d, r)[i] = d.calls[d.queues[r][i]].session /\ Line(p, r)[n + i] = p.calls[q[n + i]].session
      BY <1>7, <2>2, <3>1, <3>2, Zenon
    <3> QED
      BY <3>2, <3>3, <3>4
  <2>4. /\ SubSeq(Line(p, r), n + 1, Len(Line(p, r))) \in Seq(Sessions)
        /\ Len(SubSeq(Line(p, r), n + 1, Len(Line(p, r)))) = Len(q) - n
        /\ \A i \in 1..(Len(q) - n) : SubSeq(Line(p, r), n + 1, Len(Line(p, r)))[i] = Line(p, r)[n + i]
    BY <1>5, <1>7
  <2> QED
    BY <2>2, <2>3, <2>4, SeqEqual
<1>9. /\ \A x \in Resources : x # r => d.queues[x] = p.queues[x]
      /\ \/ /\ d.leases = p.leases
            /\ n = Len(q)
            /\ \A i \in 1..Len(q) : p.calls[q[i]].late
         \/ /\ n \in 1..Len(q)
            /\ ~p.calls[q[n]].late
            /\ \A i \in 1..(n - 1) : p.calls[q[i]].late
            /\ d.leases = [p.leases EXCEPT ![p.calls[q[n]].session] = NewLease(r, workers[r])]
  BY <1>3, Zenon DEF Serves
<1>10. ASSUME \A x \in Resources, s \in Sessions : x # r => (Holds(d, s, x) <=> Holds(p, s, x))
       PROVE  \A x \in Resources : x # r => Stays(p, d, x)
  <2>1. SUFFICES ASSUME NEW x \in Resources, x # r
                 PROVE  Stays(p, d, x)
    OBVIOUS
  <2>2. d.queues[x] = p.queues[x]
    BY <1>9, <2>1
  <2>3. \A i \in 1..Len(p.queues[x]) : d.calls[p.queues[x][i]].session = p.calls[p.queues[x][i]].session
    BY <1>6, <2>2
  <2> QED
    BY <1>2, <1>10, <2>1, <2>2, <2>3, StaysIf
<1>11. CASE /\ d.leases = p.leases
            /\ n = Len(q)
            /\ \A i \in 1..Len(q) : p.calls[q[i]].late
  <2>1. \A s \in Sessions, x \in Resources : Holds(d, s, x) <=> Holds(p, s, x)
    BY <1>11 DEF Holds
  <2>2. Holder(d, r) = None
    BY <1>2, <2>1, HolderIs
  <2>3. Line(d, r) = <<>>
    <3>1. Line(d, r) \in Seq(Sessions) /\ Len(Line(d, r)) = 0
      <4>1. Len(Line(d, r)) = Len(d.queues[r]) /\ Line(d, r) \in Seq(Sessions)
        BY <1>1, LineIs
      <4>2. Len(d.queues[r]) = Len(q) - n
        BY <1>3, Zenon DEF Serves
      <4> QED
        BY <1>5, <1>11, <4>1, <4>2
    <3> QED
      BY <3>1
  <2>4. \A i \in 1..Len(Line(p, r)) : Line(p, r)[i] \in Late(p)
    BY <1>7, <1>11
  <2> QED
    BY <1>10, <2>1, <2>2, <2>3, <2>4 DEF HandsOver, d
<1>12. CASE /\ n \in 1..Len(q)
            /\ ~p.calls[q[n]].late
            /\ \A i \in 1..(n - 1) : p.calls[q[i]].late
            /\ d.leases = [p.leases EXCEPT ![p.calls[q[n]].session] = NewLease(r, workers[r])]
  <2> DEFINE t == Line(p, r)[n]
             k == NewLease(r, workers[r])
  <2>1. t = p.calls[q[n]].session /\ t \in Sessions /\ t \notin Late(p)
    BY <1>7, <1>12
  <2>2. k # None /\ k.resource = r
    <3>1. k \in Lease /\ k.resource = r
      BY DEF NewLease, Lease
    <3> QED
      BY <3>1, PoolAssumption DEF PoolAssumption, Lease
  <2>3. p.leases[t] = None
    <3>1. q[n] \in Calls /\ Wants(p, q[n])
      BY <1>5, <1>12 DEF Wants
    <3> QED
      BY <2>1, <3>1 DEF Apart, EmptyHanded
  <2> HIDE DEF t, k
  <2>4. d.leases[t] = k /\ \A s \in Sessions : s # t => d.leases[s] = p.leases[s]
    BY <1>5, <1>12, <2>1 DEF k
  <2>5. \A x \in Resources, s \in Sessions : x # r => (Holds(d, s, x) <=> Holds(p, s, x))
    BY <2>1, <2>2, <2>3, <2>4 DEF Holds
  <2>6. Holder(d, r) = t
    <3>1. Holds(d, t, r)
      BY <2>2, <2>4 DEF Holds
    <3> QED
      BY <1>2, <2>1, <3>1, HolderIs
  <2>7. \A j \in 1..(n - 1) : Line(p, r)[j] \in Late(p)
    BY <1>5, <1>7, <1>12
  <2>8. n \in 1..Len(Line(p, r))
    BY <1>7, <1>12
  <2>9. HandsOver(p, d, r)
    BY <1>8, <2>1, <2>6, <2>7, <2>8 DEF HandsOver, t
  <2> QED
    BY <1>10, <2>5, <2>9 DEF d
<1> QED
  BY <1>9, <1>11, <1>12

(* release hands over what the session held, and touches nothing else.     *)
LEMMA ReleasedFair ==
    ASSUME PoolAssumption, IInv, Awaited(Pool), Kept(leases), NEW s \in Sessions
    PROVE  \A x \in Resources :
               \/ Stays(Pool, Released(Pool, s), x)
               \/ Holds(Pool, s, x) /\ HandsOver(Pool, Released(Pool, s), x)
<1> DEFINE p == Pool
           r == p.leases[s].resource
           e == [p EXCEPT !.leases[s] = None]
<1>1. /\ PoolOK(p, workers) /\ workers \in [Resources -> Workers \cup {None}]
      /\ Awaited(p) /\ Kept(p.leases) /\ Kept(Released(p, s).leases)
  BY ReleasedKept DEF IInv, Pool, TablesOK
<1> HIDE DEF p
<1>2. CASE p.leases[s] = None
  <2>1. Released(p, s) = p
    BY <1>2 DEF Released
  <2> QED
    BY <2>1 DEF Stays, p
<1>3. CASE p.leases[s] # None
  <2>1. /\ p = [leases |-> p.leases, queues |-> p.queues, calls |-> p.calls]
        /\ p.leases \in [Sessions -> Lease \cup {None}]
    BY <1>1 DEF PoolOK, PoolType
  <2>2. r \in Resources /\ workers[r] # None /\ Holds(p, s, r)
    <3>1. p.leases[s] \in Lease /\ workers[r] = p.leases[s].worker
      BY <1>1, <1>3, <2>1 DEF PoolOK, Named
    <3> QED
      BY <1>3, <3>1, PoolAssumption DEF Lease, PoolAssumption, Holds
  <2>3. PoolOK(e, workers) /\ e.queues = p.queues /\ e.calls = p.calls
    BY <1>1, LeaseDroppedOK
  <2>4. e.leases = [p.leases EXCEPT ![s] = None]
    BY <2>1
  <2>5. Released(p, s) = Dispatched(e, r)
    BY <1>3 DEF Released
  <2>6. e.leases[s] = None /\ \A t \in Sessions : t # s => e.leases[t] = p.leases[t]
    BY <2>1, <2>4
  <2> HIDE DEF e
  <2>7. Apart(e)
    <3>1. ASSUME NEW c \in Calls, Wants(e, c)
          PROVE  e.leases[e.calls[c].session] = None
      <4>1. p.calls[c].status # "idle" /\ Wants(p, c)
        BY <2>3, <3>1, WantsCall DEF Wants, Waiting
      <4>2. p.calls[c].session \in Sessions
        BY <1>1, <4>1, ActiveCallType DEF PoolOK, PoolType
      <4>3. p.leases[p.calls[c].session] = None
        BY <1>1, <4>1 DEF Awaited, Apart, EmptyHanded
      <4> QED
        BY <2>3, <2>6, <4>2, <4>3
    <3> QED
      BY <1>1, <2>3, <3>1 DEF Awaited, Apart, EmptyHanded
  <2>8. Kept(e.leases)
    BY <1>1, <2>6 DEF Kept
  <2>9. \A t \in Sessions : ~Holds(e, t, r)
    BY <1>1, <1>3, <2>6 DEF Kept, Holds
  <2>10. \A t \in Sessions, x \in Resources : x # r => (Holds(e, t, x) <=> Holds(p, t, x))
    BY <2>6 DEF Holds
  <2> HIDE DEF r
  <2>11. FewerCalls(e.calls, Dispatched(e, r).calls)
    BY <1>1, <2>3, <2>5, ReleasedAwaited DEF p, Pool
  <2>12. HandsOver(e, Dispatched(e, r), r) /\ \A x \in Resources : x # r => Stays(e, Dispatched(e, r), x)
    BY <1>1, <2>2, <2>3, <2>7, <2>8, <2>9, <2>11, DispatchedFair
  <2>13. Late(e) = Late(p) /\ \A x \in Resources : Line(e, x) = Line(p, x)
    BY <2>3 DEF Late, Line, Queued
  <2>14. HandsOver(p, Released(p, s), r)
    BY <2>2, <2>5, <2>12, <2>13, Zenon DEF HandsOver
  <2>15. ASSUME NEW x \in Resources, x # r
         PROVE  Stays(p, Released(p, s), x)
    <3>1. Stays(p, e, x)
      BY <1>1, <2>3, <2>8, <2>10, <2>15, StaysIf
    <3> QED
      BY <2>5, <2>12, <2>15, <3>1 DEF Stays
  <2> QED
    BY <2>2, <2>14, <2>15 DEF p
<1> QED
  BY <1>2, <1>3

(* The tail of acquire takes a free resource or joins the line.            *)
LEMMA LeasedOrQueuedFair ==
    ASSUME PoolAssumption, NEW ws \in [Resources -> Workers \cup {None}],
           \A q, x \in Resources : ws[q] # None /\ ws[q] = ws[x] => q = x,
           NEW p, PoolOK(p, ws), Awaited(p), Kept(p.leases),
           NEW c \in Calls, NEW s \in Sessions, NEW r \in Resources, ws[r] # None,
           p.calls[c].status \in {"idle", "loading"}, p.leases[s] = None,
           \A d \in Calls : d # c /\ p.calls[d].status # "idle" => p.calls[d].session # s
    PROVE  LET l == LeasedOrQueued(p, c, s, r, ws[r])
           IN  /\ Takes(p, l, r) \/ Joins(p, l, r)
               /\ \A x \in Resources : x # r => Stays(p, l, x)
<1> DEFINE l == LeasedOrQueued(p, c, s, r, ws[r])
           k == CallOf(s, r, "queued")
           m == NewLease(r, ws[r])
           q == p.queues[r]
<1>1. /\ p \in PoolType /\ Named(p, ws) /\ HoldWaiters(p)
      /\ p.leases \in [Sessions -> Lease \cup {None}]
      /\ p.queues \in [Resources -> Seq(Calls)]
      /\ p.calls \in [Calls -> ActiveCall \cup {IdleCall}]
      /\ q \in Seq(Calls) /\ Len(q) \in Nat
  BY DEF PoolOK, PoolType
<1>2. PoolOK(l, ws)
  BY LeasedOrQueuedOK
<1>3. Kept(l.leases)
  BY LeasedOrQueuedKept
<1>4. k.session = s /\ m # None /\ m.resource = r
  <2>1. m \in Lease /\ m.resource = r /\ k.session = s
    BY DEF NewLease, Lease, CallOf
  <2> QED
    BY <2>1, PoolAssumption DEF PoolAssumption, Lease
<1>5. \A x \in Resources : \A i \in 1..Len(p.queues[x]) : p.queues[x][i] \in Calls /\ p.queues[x][i] # c
  <2>1. SUFFICES ASSUME NEW x \in Resources, NEW i \in 1..Len(p.queues[x])
                 PROVE  p.queues[x][i] \in Calls /\ p.queues[x][i] # c
    OBVIOUS
  <2>2. p.queues[x][i] \in Calls /\ p.calls[p.queues[x][i]].status \in Waiting
    BY <1>1 DEF HoldWaiters
  <2> QED
    BY <2>2 DEF Waiting
<1>6. /\ Line(p, r) \in Seq(Sessions) /\ Len(Line(p, r)) = Len(q)
      /\ \A i \in 1..Len(Line(p, r)) : Line(p, r)[i] = p.calls[q[i]].session /\ Line(p, r)[i] # s
  <2>1. /\ Line(p, r) \in Seq(Sessions) /\ Len(Line(p, r)) = Len(q)
        /\ \A i \in 1..Len(Line(p, r)) : /\ Line(p, r)[i] = p.calls[q[i]].session
                                         /\ p.calls[q[i]].status # "idle"
    BY LineIs DEF Waiting
  <2> QED
    BY <1>5, <2>1
<1>7. ASSUME \A d \in Calls : d # c => l.calls[d] = p.calls[d],
             NEW x \in Resources, l.queues[x] = p.queues[x],
             \A t \in Sessions : Holds(l, t, x) <=> Holds(p, t, x)
      PROVE  Stays(p, l, x)
  <2>1. \A i \in 1..Len(p.queues[x]) : l.calls[p.queues[x][i]].session = p.calls[p.queues[x][i]].session
    BY <1>5, <1>7
  <2> HIDE DEF l
  <2> QED
    BY <1>3, <1>7, <2>1, StaysIf
<1>8. CASE Busy(p, ws[r])
  <2>1. l = [leases |-> p.leases,
             queues |-> [p.queues EXCEPT ![r] = Append(q, c)],
             calls  |-> [p.calls EXCEPT ![c] = k]]
    BY <1>1, <1>8 DEF LeasedOrQueued, PoolType
  <2>2. /\ l.leases = p.leases
        /\ l.queues[r] = Append(q, c) /\ \A x \in Resources : x # r => l.queues[x] = p.queues[x]
        /\ l.calls[c] = k /\ \A d \in Calls : d # c => l.calls[d] = p.calls[d]
    BY <1>1, <2>1
  <2> HIDE DEF l, k
  <2>3. PICK t \in Sessions : p.leases[t] # None /\ p.leases[t].worker = ws[r]
    BY <1>8 DEF Busy
  <2>4. Holds(p, t, r)
    <3>1. p.leases[t].resource \in Resources /\ ws[p.leases[t].resource] = ws[r]
      BY <1>1, <2>3 DEF Lease, Named
    <3> QED
      BY <2>3, <3>1 DEF Holds
  <2>5. \A u \in Sessions, x \in Resources : Holds(l, u, x) <=> Holds(p, u, x)
    BY <2>2 DEF Holds
  <2>6. Holder(p, r) = t /\ Holder(l, r) = t /\ t # None /\ t # s
    <3>1. t # s
      BY <2>3
    <3> QED
      BY <1>3, <2>4, <2>5, <3>1, HolderIs, PoolAssumption DEF PoolAssumption
  <2>7. Line(l, r) = Append(Line(p, r), s)
    <3>1. /\ Line(l, r) \in Seq(Sessions) /\ Len(Line(l, r)) = Len(l.queues[r])
          /\ \A i \in 1..Len(Line(l, r)) : Line(l, r)[i] = l.calls[l.queues[r][i]].session
      BY <1>2, LineIs
    <3>2. /\ Len(Append(q, c)) = Len(q) + 1
          /\ \A i \in 1..Len(q) : Append(q, c)[i] = q[i]
          /\ Append(q, c)[Len(q) + 1] = c
      BY <1>1
    <3>3. /\ Append(Line(p, r), s) \in Seq(Sessions)
          /\ Len(Append(Line(p, r), s)) = Len(q) + 1
          /\ \A i \in 1..Len(q) : Append(Line(p, r), s)[i] = Line(p, r)[i]
          /\ Append(Line(p, r), s)[Len(q) + 1] = s
      BY <1>1, <1>6
    <3>4. Len(Line(l, r)) = Len(q) + 1
      BY <2>2, <3>1, <3>2
    <3>5. ASSUME NEW i \in 1..(Len(q) + 1)
          PROVE  Line(l, r)[i] = Append(Line(p, r), s)[i]
      <4>0. Line(l, r)[i] = l.calls[Append(q, c)[i]].session
        BY <2>2, <3>1, <3>4
      <4>1. CASE i = Len(q) + 1
        BY <1>4, <2>2, <3>2, <3>3, <4>0, <4>1
      <4>2. CASE i # Len(q) + 1
        <5>1. i \in 1..Len(q)
          BY <1>1, <4>2
        <5>2. q[i] \in Calls /\ q[i] # c
          BY <1>5, <5>1
        <5>3. Line(p, r)[i] = p.calls[q[i]].session
          BY <1>6, <5>1
        <5>4. Append(q, c)[i] = q[i] /\ Append(Line(p, r), s)[i] = Line(p, r)[i]
          BY <3>2, <3>3, <5>1, Zenon
        <5>5. l.calls[q[i]] = p.calls[q[i]]
          BY <2>2, <5>2, Zenon
        <5> QED
          BY <4>0, <5>3, <5>4, <5>5, Zenon
      <4> QED
        BY <4>1, <4>2
    <3> QED
      BY <3>1, <3>3, <3>4, <3>5, SeqEqual
  <2>8. Joins(p, l, r)
    BY <1>6, <2>6, <2>7 DEF Joins
  <2>9. \A x \in Resources : x # r => Stays(p, l, x)
    BY <1>7, <2>2, <2>5
  <2> QED
    BY <2>8, <2>9 DEF l
<1>9. CASE ~Busy(p, ws[r])
  <2>1. l = [leases |-> [p.leases EXCEPT ![s] = m],
             queues |-> p.queues,
             calls  |-> [p.calls EXCEPT ![c] = IdleCall]]
    BY <1>1, <1>9 DEF LeasedOrQueued, PoolType
  <2>2. /\ l.leases[s] = m /\ \A t \in Sessions : t # s => l.leases[t] = p.leases[t]
        /\ l.queues = p.queues
        /\ \A d \in Calls : d # c => l.calls[d] = p.calls[d]
    BY <1>1, <2>1
  <2> HIDE DEF l, k, m
  <2>3. \A t \in Sessions : ~Holds(p, t, r)
    <3>1. ASSUME NEW t \in Sessions, Holds(p, t, r)
          PROVE  FALSE
      <4>1. p.leases[t] # None /\ p.leases[t].worker = ws[r] /\ ~p.leases[t].expired
        BY <1>1, <3>1 DEF Holds, Named, Kept
      <4> QED
        BY <1>9, <4>1 DEF Busy
    <3> QED
      BY <3>1
  <2>4. Holder(p, r) = None
    BY <2>3, HolderIs
  <2>5. q = <<>>
    BY <2>3 DEF Awaited, Waited, Holds
  <2>6. Holder(l, r) = s
    <3>1. Holds(l, s, r)
      BY <1>4, <2>2 DEF Holds
    <3> QED
      BY <1>3, <3>1, HolderIs
  <2>7. Line(p, r) = <<>> /\ Line(l, r) = <<>>
    <3>1. /\ Line(l, r) \in Seq(Sessions) /\ Len(Line(l, r)) = Len(l.queues[r])
          /\ Line(p, r) \in Seq(Sessions) /\ Len(Line(p, r)) = Len(q)
      BY <1>2, <1>6, LineIs
    <3>2. Len(l.queues[r]) = 0 /\ Len(q) = 0
      BY <2>2, <2>5
    <3> QED
      BY <3>1, <3>2
  <2>8. Takes(p, l, r)
    BY <2>4, <2>6, <2>7 DEF Takes
  <2>9. \A t \in Sessions, x \in Resources : x # r => (Holds(l, t, x) <=> Holds(p, t, x))
    BY <1>4, <2>2 DEF Holds
  <2>10. \A x \in Resources : x # r => Stays(p, l, x)
    BY <1>7, <2>2, <2>9
  <2> QED
    BY <2>8, <2>10 DEF l
<1> QED
  BY <1>8, <1>9

(* A call times out only when it is late.                                  *)
TimedLate(f) == \A c \in Calls : f[c].status = "timedout" => f[c].late

(* What a step of the open pool is for the sessions.                       *)
Implements(p, e) ==
    /\ \A r \in Resources : Moves(p, e, r)
    /\ StayLate(p, e)
    /\ TimedLate(e.calls)

LEMMA ReleasedTimed ==
    ASSUME PoolAssumption, IInv, Awaited(Pool), TimedLate(calls), NEW s \in Sessions
    PROVE  TimedLate(Released(Pool, s).calls)
<1> DEFINE p == Pool
           r == p.leases[s].resource
           e == [p EXCEPT !.leases[s] = None]
<1>1. PoolOK(p, workers) /\ OneAcquire(p.calls) /\ TimedLate(p.calls)
  BY DEF IInv, Awaited, Apart, Pool
<1> HIDE DEF p
<1>2. CASE p.leases[s] = None
  BY <1>1, <1>2 DEF Released, p
<1>3. CASE p.leases[s] # None
  <2>1. p.leases \in [Sessions -> Lease \cup {None}] /\ p.calls \in [Calls -> ActiveCall \cup {IdleCall}]
    BY <1>1 DEF PoolOK, PoolType
  <2>2. r \in Resources
    BY <1>3, <2>1 DEF Lease
  <2>3. PoolOK(e, workers) /\ e.calls = p.calls
    BY <1>1, LeaseDroppedOK
  <2>4. Released(p, s) = Dispatched(e, r)
    BY <1>3 DEF Released
  <2> HIDE DEF e, r
  <2>5. CASE workers[r] = None
    <3>1. Dispatched(e, r) = e
      BY <2>5 DEF Dispatched
    <3> QED
      BY <1>1, <2>3, <2>4, <3>1 DEF p
  <2>6. CASE workers[r] # None
    <3>1. PICK n \in 0..Len(e.queues[r]) : Serves(e, r, Dispatched(e, r), n)
      BY <2>2, <2>3, <2>6, DispatchServes
    <3> DEFINE d == Dispatched(e, r)
    <3>2. \A c \in Calls : d.calls[c] = p.calls[c] \/ d.calls[c] = Resolved(p.calls[c])
      BY <2>3, <3>1, Zenon DEF Serves
    <3> HIDE DEF d
    <3>3. ASSUME NEW c \in Calls, d.calls[c].status = "timedout"
          PROVE  d.calls[c].late
      <4>1. CASE d.calls[c] = p.calls[c]
        BY <1>1, <3>3, <4>1 DEF TimedLate
      <4>2. CASE d.calls[c] = Resolved(p.calls[c])
        <5>1. p.calls[c].status # "abandoned" /\ p.calls[c] \in ActiveCall \cup {IdleCall}
          BY <1>1, <2>1 DEF OneAcquire
        <5>2. Resolved(p.calls[c]).status = "timedout"
          BY <3>3, <4>2
        <5>3. Resolved(p.calls[c]) = p.calls[c]
          BY <5>1, <5>2, ResolvedFewer
        <5> QED
          BY <1>1, <4>2, <5>2, <5>3 DEF TimedLate
      <4> QED
        BY <3>2, <4>1, <4>2
    <3> QED
      BY <2>4, <3>3 DEF TimedLate, d, p
  <2> QED
    BY <2>5, <2>6
<1> QED
  BY <1>2, <1>3

(* release, as a step for the sessions.                                    *)
LEMMA ReleasedImplements ==
    ASSUME PoolAssumption, IInv, Awaited(Pool), Kept(leases), TimedLate(calls), NEW s \in Sessions
    PROVE  Implements(Pool, Released(Pool, s))
<1> DEFINE m == Released(Pool, s)
<1>1. PoolOK(Pool, workers) /\ PoolOK(m, workers)
  BY ReleasedPool DEF IInv
<1>2. FewerCalls(Pool.calls, m.calls) /\ OneAcquire(Pool.calls)
  BY ReleasedAwaited DEF Pool, Awaited, Apart
<1>3. TimedLate(m.calls)
  BY ReleasedTimed
<1>4. \A x \in Resources : Stays(Pool, m, x) \/ (Holds(Pool, s, x) /\ HandsOver(Pool, m, x))
  BY ReleasedFair
<1>5. \A x \in Resources : Holds(Pool, s, x) => Holder(Pool, x) # None
  <2>1. Kept(Pool.leases)
    BY DEF Pool
  <2> QED
    BY <2>1, HolderIs, PoolAssumption DEF PoolAssumption
<1> HIDE DEF m
<1>6. StayLate(Pool, m)
  BY <1>1, <1>2, StayLateFewer
<1> QED
  BY <1>3, <1>4, <1>5, <1>6 DEF Implements, Moves, m

(* The deadline of a lease is nothing to the sessions.                     *)
LEMMA DeadlineImplements ==
    ASSUME PoolAssumption, IInv, IInv', Awaited(Pool), Kept(leases), Kept(leases'), TimedLate(calls),
           NEW s \in Sessions, leases[s] # None, NEW b \in BOOLEAN,
           leases' = [leases EXCEPT ![s].expired = b], UNCHANGED <<queues, calls>>
    PROVE  Implements(Pool, Pool')
<1>1. leases \in [Sessions -> Lease \cup {None}] /\ leases[s] \in Lease
  BY DEF IInv, PoolOK, PoolType, Pool
<1>2. leases[s] = [resource |-> leases[s].resource, worker |-> leases[s].worker, expired |-> leases[s].expired]
  BY <1>1 DEF Lease
<1>3. /\ leases'[s].resource = leases[s].resource
      /\ leases'[s] \in Lease
      /\ \A t \in Sessions : t # s => leases'[t] = leases[t]
  BY <1>1, <1>2 DEF Lease
<1>4. leases'[s] # None
  BY <1>3, PoolAssumption DEF PoolAssumption, Lease
<1> DEFINE p == Pool
           e == [leases |-> leases', queues |-> queues', calls |-> calls']
<1>5. /\ p.leases = leases /\ p.queues = queues /\ p.calls = calls
      /\ e.leases = leases' /\ e.queues = queues /\ e.calls = calls /\ e = Pool'
      /\ PoolOK(p, workers) /\ PoolOK(e, workers') /\ OneAcquire(p.calls)
  BY DEF Pool, IInv, Awaited, Apart
<1> HIDE DEF p, e
<1>6. \A t \in Sessions, x \in Resources : Holds(e, t, x) <=> Holds(p, t, x)
  BY <1>3, <1>4, <1>5 DEF Holds
<1>7. \A x \in Resources : Stays(p, e, x)
  BY <1>5, <1>6, StaysIf
<1>8. FewerCalls(p.calls, e.calls)
  BY <1>5 DEF FewerCalls, OneAcquire
<1>9. StayLate(p, e)
  BY <1>5, <1>8, StayLateFewer
<1> QED
  BY <1>5, <1>7, <1>9 DEF Implements, Moves, p

(* A step of a call at which nobody comes to a queue or leaves one.        *)
LEMMA QuietImplements ==
    ASSUME PoolAssumption, IInv, IInv', Awaited(Pool), Kept(leases),
           UNCHANGED <<leases, queues>>, FewerCalls(calls, calls'), TimedLate(calls')
    PROVE  Implements(Pool, Pool')
<1> DEFINE p == Pool
           e == [leases |-> leases', queues |-> queues', calls |-> calls']
<1>1. /\ p.leases = leases /\ p.queues = queues /\ p.calls = calls
      /\ e.leases = leases /\ e.queues = queues /\ e.calls = calls' /\ e = Pool'
      /\ PoolOK(p, workers) /\ PoolOK(e, workers') /\ OneAcquire(p.calls)
  BY DEF Pool, IInv, Awaited, Apart
<1> HIDE DEF p, e
<1>2. \A t \in Sessions, x \in Resources : Holds(e, t, x) <=> Holds(p, t, x)
  BY <1>1 DEF Holds
<1>3. ASSUME NEW x \in Resources, NEW i \in 1..Len(p.queues[x])
      PROVE  e.calls[p.queues[x][i]].session = p.calls[p.queues[x][i]].session
  <2>1. e.queues \in [Resources -> Seq(Calls)] /\ HoldWaiters(e) /\ e.queues = p.queues
    BY <1>1 DEF PoolOK, PoolType
  <2>2. p.queues[x][i] \in Calls /\ e.calls[p.queues[x][i]].status \in Waiting
    BY <2>1 DEF HoldWaiters
  <2>3. e.calls[p.queues[x][i]].status # "idle"
    BY <2>2 DEF Waiting
  <2> QED
    BY <1>1, <2>2, <2>3 DEF FewerCalls
<1>4. \A x \in Resources : Stays(p, e, x)
  BY <1>1, <1>2, <1>3, StaysIf
<1>5. StayLate(p, e)
  BY <1>1, StayLateFewer
<1> QED
  BY <1>1, <1>4, <1>5 DEF Implements, Moves, p

(* A call that has timed out leaves the line, if it is still in it.        *)
LEMMA RemoveImplements ==
    ASSUME PoolAssumption, IInv, IInv', Awaited(Pool), Kept(leases), TimedLate(calls), TimedLate(calls'),
           NEW c \in Calls, RemoveWaiter(c), FewerCalls(calls, calls')
    PROVE  Implements(Pool, Pool')
<1> DEFINE r == calls[c].resource
           q == queues[r]
           t == Removed(q, c)
           p == Pool
           e == [leases |-> leases', queues |-> queues', calls |-> calls']
<1>1. /\ calls[c].status = "timedout"
      /\ queues' = [queues EXCEPT ![r] = t]
      /\ calls' = [calls EXCEPT ![c] = IdleCall]
      /\ leases' = leases
  BY DEF RemoveWaiter
<1>2. /\ queues \in [Resources -> Seq(Calls)] /\ calls \in [Calls -> ActiveCall \cup {IdleCall}]
      /\ Distinct(p) /\ HoldWaiters(p)
  BY DEF IInv, PoolOK, PoolType, Pool
<1>3. r \in Resources
  BY <1>1, WaitingCall
<1>4. /\ p.leases = leases /\ p.queues = queues /\ p.calls = calls
      /\ e.leases = leases /\ e.queues = queues' /\ e.calls = calls' /\ e = Pool'
      /\ PoolOK(p, workers) /\ PoolOK(e, workers') /\ OneAcquire(p.calls)
  BY <1>1 DEF Pool, IInv, Awaited, Apart
<1> HIDE DEF p, e, r
<1>5. q \in Seq(Calls) /\ Len(q) \in Nat /\ \A i, j \in 1..Len(q) : q[i] = q[j] => i = j
  BY <1>2, <1>3, <1>4 DEF Distinct
<1> HIDE DEF q
<1>6. t \in Seq(Calls) /\ \A j \in 1..Len(t) : t[j] # c
  BY <1>5, RemovedElements, Zenon
<1>7. queues'[r] = t /\ \A x \in Resources : x # r => queues'[x] = queues[x]
  BY <1>1, <1>2, <1>3
<1>8. \A d \in Calls : d # c => calls'[d] = calls[d]
  BY <1>1, <1>2
<1>9. \A s \in Sessions, x \in Resources : Holds(e, s, x) <=> Holds(p, s, x)
  BY <1>4 DEF Holds
<1>10. ASSUME NEW x \in Resources, \A i \in 1..Len(queues[x]) : queues[x][i] # c, queues'[x] = queues[x]
       PROVE  Stays(p, e, x)
  <2>1. \A i \in 1..Len(queues[x]) : queues[x][i] \in Calls
    BY <1>2
  <2>2. \A i \in 1..Len(queues[x]) : calls'[queues[x][i]] = calls[queues[x][i]]
    BY <1>8, <1>10, <2>1
  <2> QED
    BY <1>4, <1>9, <1>10, <2>2, StaysIf
<1>11. \A x \in Resources : x # r => Stays(p, e, x)
  <2>1. SUFFICES ASSUME NEW x \in Resources, x # r
                 PROVE  Stays(p, e, x)
    OBVIOUS
  <2>2. \A i \in 1..Len(queues[x]) : queues[x][i] # c
    BY <1>2, <1>4, <2>1 DEF HoldWaiters, r
  <2> QED
    BY <1>7, <1>10, <2>1, <2>2
<1>12. CASE ~\E i \in 1..Len(q) : q[i] = c
  <2>1. t = q
    BY <1>12 DEF Removed
  <2>2. Stays(p, e, r)
    BY <1>3, <1>7, <1>10, <1>12, <2>1 DEF q
  <2>3. \A x \in Resources : Moves(p, e, x)
    BY <1>11, <2>2 DEF Moves
  <2>4. StayLate(p, e)
    BY <1>4, StayLateFewer
  <2> QED
    BY <1>4, <2>3, <2>4 DEF Implements, p
<1>13. CASE \E i \in 1..Len(q) : q[i] = c
  <2> DEFINE i == CHOOSE j \in 1..Len(q) : q[j] = c
             l == Line(p, r)
             m == SubSeq(l, 1, i - 1) \o SubSeq(l, i + 1, Len(l))
  <2>1. t = SubSeq(q, 1, i - 1) \o SubSeq(q, i + 1, Len(q))
    BY <1>13 DEF Removed
  <2>2. i \in 1..Len(q) /\ q[i] = c
    BY <1>13, Zenon
  <2> HIDE DEF i, t
  <2>3. /\ Len(t) = Len(q) - 1
        /\ \A j \in 1..Len(t) : t[j] = IF j < i THEN q[j] ELSE q[j + 1]
    <3> DEFINE u == SubSeq(q, 1, i - 1) \o SubSeq(q, i + 1, Len(q))
    <3>1. /\ u \in Seq(Calls)
          /\ Len(u) = Len(q) - 1
          /\ \A j \in 1..Len(u) : u[j] = IF j < i THEN q[j] ELSE q[j + 1]
      <4>1. q \in Seq(Calls) /\ i \in 1..Len(q)
        BY <1>5, <2>2
      <4> QED
        BY <4>1, WithoutElement
    <3> HIDE DEF u
    <3>2. t = u
      BY <2>1 DEF u
    <3> QED
      BY <3>1, <3>2
  <2>4. /\ l \in Seq(Sessions) /\ Len(l) = Len(q)
        /\ \A j \in 1..Len(l) : l[j] = calls[q[j]].session /\ Queued(p, q[j])
    BY <1>3, <1>4, LineIs DEF q
  <2> HIDE DEF l
  <2>5. i \in 1..Len(l)
    BY <2>2, <2>4
  <2>6. /\ m \in Seq(Sessions)
        /\ Len(m) = Len(l) - 1
        /\ \A j \in 1..Len(m) : m[j] = IF j < i THEN l[j] ELSE l[j + 1]
    BY <2>4, <2>5, WithoutElement
  <2> HIDE DEF m
  <2>7. /\ Line(e, r) \in Seq(Sessions) /\ Len(Line(e, r)) = Len(t)
        /\ \A j \in 1..Len(Line(e, r)) : Line(e, r)[j] = calls'[t[j]].session
    BY <1>3, <1>4, <1>7, LineIs
  <2>8. ASSUME NEW j \in 1..Len(t)
        PROVE  Line(e, r)[j] = m[j]
    <3> DEFINE n == IF j < i THEN j ELSE j + 1
    <3>1. n \in 1..Len(q) /\ j \in 1..Len(m)
      BY <1>5, <2>2, <2>3, <2>4, <2>6
    <3>2. t[j] = q[n] /\ m[j] = l[n]
      BY <2>3, <2>6, <3>1
    <3> HIDE DEF n
    <3>3. t[j] \in Calls /\ t[j] # c
      BY <1>6
    <3>4. calls'[t[j]] = calls[t[j]]
      BY <1>8, <3>3
    <3>5. l[n] = calls[q[n]].session
      BY <2>4, <3>1
    <3>6. Line(e, r)[j] = calls'[t[j]].session
      BY <2>7
    <3> QED
      BY <3>2, <3>4, <3>5, <3>6
  <2>9. Line(e, r) = m
    <3>1. Len(Line(e, r)) = Len(m)
      BY <2>3, <2>4, <2>6, <2>7
    <3> QED
      BY <2>6, <2>7, <2>8, <3>1, SeqEqual
  <2>10. l[i] \in Late(p)
    <3>1. calls[c].late /\ l[i] = calls[c].session /\ Queued(p, c)
      BY <1>1, <2>2, <2>4, <2>5 DEF TimedLate
    <3> QED
      BY <1>4, <3>1, LateIs
  <2>11. Holder(e, r) = Holder(p, r)
    <3>1. Kept(p.leases) /\ Kept(e.leases)
      BY <1>4
    <3>2. CASE Holder(p, r) = None
      BY <1>3, <1>9, <3>1, <3>2, HolderIs
    <3>3. CASE Holder(p, r) \in Sessions
      BY <1>3, <1>9, <3>1, <3>3, HolderIs
    <3> QED
      BY <3>1, <3>2, <3>3, HolderIs
  <2>12. Leaves(p, e, r)
    BY <2>5, <2>9, <2>10, <2>11 DEF Leaves, l, m
  <2>13. \A x \in Resources : Moves(p, e, x)
    BY <1>11, <2>12 DEF Moves
  <2>14. StayLate(p, e)
    BY <1>4, StayLateFewer
  <2> QED
    BY <1>4, <2>13, <2>14 DEF Implements, p
<1> QED
  BY <1>12, <1>13

LEMMA CallImplements ==
    ASSUME PoolAssumption, ~MayCancel, IInv, IInv', Awaited(Pool), Kept(leases), TimedLate(calls),
           NEW c \in Calls, CallStep(c), ~LoadReturns(c)
    PROVE  Implements(Pool, Pool')
<1>1. FewerCalls(calls, calls')
  BY CallAwaited
<1>2. calls \in [Calls -> ActiveCall \cup {IdleCall}] /\ calls[c] \in ActiveCall \cup {IdleCall}
  BY DEF IInv, PoolOK, PoolType, Pool
<1>3. ASSUME NEW k, calls' = [calls EXCEPT ![c] = k], k.status = "timedout" => k.late
      PROVE  TimedLate(calls')
  BY <1>2, <1>3 DEF TimedLate
<1>4. IdleCall.status = "idle"
  BY DEF IdleCall
<1>5. CASE LoadFails(c) \/ AcquireResumes(c)
  <2>1. calls' = [calls EXCEPT ![c] = IdleCall] /\ UNCHANGED <<leases, queues>>
    BY <1>5 DEF LoadFails, AcquireResumes
  <2> QED
    BY <1>1, <1>3, <1>4, <2>1, QuietImplements
<1>6. CASE DeadlinePasses(c) \/ WaitTimesOut(c)
  <2>1. UNCHANGED <<leases, queues>>
    BY <1>6 DEF DeadlinePasses, WaitTimesOut
  <2>2. TimedLate(calls')
    <3>1. CASE DeadlinePasses(c)
      <4> DEFINE k == [calls[c] EXCEPT !.late = TRUE]
      <4>1. calls' = [calls EXCEPT ![c] = k] /\ calls[c].status # "idle"
        BY <3>1 DEF DeadlinePasses
      <4>2. k.late
        BY <1>2, <4>1, ActiveCallType DEF ActiveCall
      <4> HIDE DEF k
      <4> QED
        BY <1>3, <4>1, <4>2
    <3>2. CASE WaitTimesOut(c)
      <4> DEFINE k == [calls[c] EXCEPT !.status = "timedout"]
      <4>1. calls' = [calls EXCEPT ![c] = k] /\ calls[c].status # "idle" /\ calls[c].late
        BY <3>2 DEF WaitTimesOut
      <4>2. k.late = calls[c].late
        BY <1>2, <4>1, ActiveCallType DEF ActiveCall
      <4> HIDE DEF k
      <4> QED
        BY <1>3, <4>1, <4>2
    <3> QED
      BY <1>6, <3>1, <3>2
  <2> QED
    BY <1>1, <2>1, <2>2, QuietImplements
<1>7. CASE RemoveWaiter(c)
  <2>1. calls' = [calls EXCEPT ![c] = IdleCall]
    BY <1>7 DEF RemoveWaiter
  <2>2. TimedLate(calls')
    BY <1>3, <1>4, <2>1
  <2> QED
    BY <1>1, <1>7, <2>2, RemoveImplements
<1> QED
  BY <1>5, <1>6, <1>7, NothingLeftBehind DEF CallStep, CancelAcquire

(* The tail of acquire comes after a step from p to m that changes other   *)
(* resources only.                                                         *)
LEMMA TailImplements ==
    ASSUME PoolAssumption, NEW ws \in [Resources -> Workers \cup {None}],
           \A q, x \in Resources : ws[q] # None /\ ws[q] = ws[x] => q = x,
           NEW p, NEW ps, PoolOK(p, ps), OneAcquire(p.calls),
           NEW m, PoolOK(m, ws), Awaited(m), Kept(m.leases), TimedLate(m.calls),
           FewerCalls(p.calls, m.calls),
           NEW c \in Calls, NEW s \in Sessions, NEW r \in Resources, ws[r] # None,
           m.calls[c].status \in {"idle", "loading"}, m.leases[s] = None,
           \A d \in Calls : d # c /\ m.calls[d].status # "idle" => m.calls[d].session # s,
           \A d \in Calls : Queued(p, d) => p.calls[d].session # s,
           Stays(p, m, r), \A x \in Resources : Moves(p, m, x)
    PROVE  Implements(p, LeasedOrQueued(m, c, s, r, ws[r]))
<1> DEFINE l == LeasedOrQueued(m, c, s, r, ws[r])
           k == CallOf(s, r, "queued")
<1>1. /\ Takes(m, l, r) \/ Joins(m, l, r)
      /\ \A x \in Resources : x # r => Stays(m, l, x)
  BY LeasedOrQueuedFair
<1>2. PoolOK(l, ws) /\ \A d \in Calls : d # c => l.calls[d] = m.calls[d]
  BY LeasedOrQueuedOK
<1>3. l.calls[c].status \in {"idle", "queued"} /\ (l.calls[c].status = "queued" => l.calls[c].session = s)
  <2>1. /\ m.calls \in [Calls -> ActiveCall \cup {IdleCall}]
        /\ m = [leases |-> m.leases, queues |-> m.queues, calls |-> m.calls]
    BY DEF PoolOK, PoolType
  <2>2. k.status = "queued" /\ k.session = s /\ IdleCall.status = "idle"
    BY DEF CallOf, IdleCall
  <2> HIDE DEF k
  <2>3. l.calls[c] = k \/ l.calls[c] = IdleCall
    BY <2>1 DEF LeasedOrQueued, k
  <2> QED
    BY <2>2, <2>3
<1> HIDE DEF l, k
<1>4. ASSUME NEW x \in Resources
      PROVE  Moves(p, l, x)
  <2>1. CASE x = r
    <3>1. Takes(p, l, r) \/ Joins(p, l, r)
      BY <1>1, Zenon DEF Stays, Takes, Joins
    <3> QED
      BY <2>1, <3>1 DEF Moves
  <2>2. CASE x # r
    <3>1. Holder(l, x) = Holder(m, x) /\ Line(l, x) = Line(m, x) /\ Moves(p, m, x)
      BY <1>1, <2>2 DEF Stays
    <3> QED
      BY <3>1, Zenon DEF Moves, Stays, Takes, Joins, Leaves, HandsOver
  <2> QED
    BY <2>1, <2>2
<1>5. TimedLate(l.calls)
  BY <1>2, <1>3 DEF TimedLate
<1>6. StayLate(p, l)
  <2>1. ASSUME NEW d \in Calls, Queued(l, d)
        PROVE  \/ /\ p.calls[d].status # "idle"
                  /\ l.calls[d].session = p.calls[d].session
                  /\ p.calls[d].late => l.calls[d].late
               \/ \A x \in Calls : Queued(p, x) => p.calls[x].session # l.calls[d].session
    <3>1. \A x \in Calls : Queued(l, x) => l.calls[x].status # "idle"
      BY <1>2 DEF Queued, PoolOK, HoldWaiters, Waiting
    <3>2. CASE d = c
      BY <1>3, <2>1, <3>1, <3>2
    <3>3. CASE d # c
      BY <1>2, <2>1, <3>1, <3>3 DEF FewerCalls
    <3> QED
      BY <3>2, <3>3
  <2> QED
    BY <1>2, <2>1, StayLateIf
<1> QED
  BY <1>4, <1>5, <1>6 DEF Implements, l

LEMMA AcquireImplements ==
    ASSUME PoolAssumption, ~MayOverlap, ~MayCancel, IInv, IInv', Awaited(Pool),
           Kept(leases), Kept(leases'), TimedLate(calls), NEW c \in Calls, NEW s \in Sessions, NEW r \in Resources, Acquire(c, s, r)
    PROVE  Implements(Pool, Pool')
<1> DEFINE m == Released(Pool, s)
<1>1. CASE AcquireRenews(c, s, r)
  BY <1>1, DeadlineImplements DEF AcquireRenews, HoldsLeaseOn
<1>2. ASSUME MayAcquire(c, s)
      PROVE  /\ PoolOK(m, workers) /\ Awaited(m)
             /\ m.leases[s] = None
             /\ m.calls[c].status = "idle"
             /\ \A d \in Calls : m.calls[d].status # "idle" => m.calls[d].session # s
  BY <1>2, AcquireAlone
<1>3. /\ Implements(Pool, m) /\ Kept(m.leases)
      /\ FewerCalls(Pool.calls, m.calls)
      /\ PoolOK(Pool, workers) /\ OneAcquire(Pool.calls)
  BY ReleasedImplements, ReleasedKept, ReleasedAwaited DEF IInv, Pool, Awaited, Apart
<1>4. \A x \in Resources : Stays(Pool, m, x) \/ Holds(Pool, s, x)
  BY ReleasedFair
<1> HIDE DEF m
<1>5. ASSUME NEW e, Implements(Pool, e), Install(e),
             e = [leases |-> e.leases, queues |-> e.queues, calls |-> e.calls]
      PROVE  Implements(Pool, Pool')
  <2>1. e = Pool'
    BY <1>5 DEF Install, Pool
  <2> QED
    BY <1>5, <2>1
<1>6. CASE AcquireAtCap(c, s, r)
  <2>1. MayAcquire(c, s) /\ Install(m)
    BY <1>6 DEF AcquireAtCap, m
  <2>2. m = [leases |-> m.leases, queues |-> m.queues, calls |-> m.calls]
    BY <1>2, <2>1 DEF PoolOK, PoolType
  <2> QED
    BY <1>3, <1>5, <2>1, <2>2
<1>7. CASE AcquireLoaded(c, s, r)
  <2> DEFINE l == LeasedOrQueued(m, c, s, r, workers[r])
  <2>1. MayAcquire(c, s) /\ workers[r] # None /\ Install(l) /\ ~HoldsLeaseOn(s, r)
    BY <1>7 DEF AcquireLoaded, m
  <2>2. /\ workers \in [Resources -> Workers \cup {None}]
        /\ \A q, x \in Resources : workers[q] # None /\ workers[q] = workers[x] => q = x
    BY DEF IInv, TablesOK
  <2>3. Stays(Pool, m, r)
    BY <1>4, <2>1 DEF Holds, HoldsLeaseOn, Pool
  <2>4. \A d \in Calls : Queued(Pool, d) => Pool.calls[d].session # s
    <3>1. \A d \in Calls : calls[d].status # "idle" => calls[d].session # s
      <4>1. LeftBehind = {}
        BY DEF LeftBehind
      <4>2. IdleCall.status = "idle" /\ Outstanding(s) = {}
        BY <2>1 DEF MayAcquire, IdleCall
      <4> QED
        BY <4>1, <4>2 DEF Outstanding
    <3>2. \A d \in Calls : Queued(Pool, d) => Pool.calls[d].status # "idle"
      BY <1>3 DEF Queued, PoolOK, HoldWaiters, Waiting
    <3> QED
      BY <3>1, <3>2 DEF Pool
  <2>5. TimedLate(m.calls) /\ \A x \in Resources : Moves(Pool, m, x)
    BY <1>3 DEF Implements
  <2>6. Implements(Pool, l)
    <3>1. m.calls[c].status \in {"idle", "loading"}
      BY <1>2, <2>1
    <3> QED
      BY <1>2, <1>3, <2>1, <2>2, <2>3, <2>4, <2>5, <3>1, TailImplements
  <2>7. PoolOK(l, workers)
    BY <1>2, <2>1, <2>2, LeasedOrQueuedOK
  <2> HIDE DEF l
  <2>8. l = [leases |-> l.leases, queues |-> l.queues, calls |-> l.calls]
    BY <2>7 DEF PoolOK, PoolType
  <2> QED
    BY <1>5, <2>1, <2>6, <2>8
<1>8. CASE AcquireLoads(c, s, r)
  <2> DEFINE k == CallOf(s, r, "loading")
             e == [m EXCEPT !.calls[c] = k]
  <2>1. MayAcquire(c, s) /\ Install(e)
    BY <1>8 DEF AcquireLoads, m
  <2>2. k.status = "loading"
    BY DEF CallOf
  <2> HIDE DEF k
  <2>3. /\ m = [leases |-> m.leases, queues |-> m.queues, calls |-> m.calls]
        /\ m.calls \in [Calls -> ActiveCall \cup {IdleCall}]
    BY <1>2, <2>1 DEF PoolOK, PoolType
  <2>4. /\ e = [leases |-> e.leases, queues |-> e.queues, calls |-> e.calls]
        /\ e.leases = m.leases /\ e.queues = m.queues
        /\ e.calls[c] = k /\ \A d \in Calls : d # c => e.calls[d] = m.calls[d]
    BY <2>3
  <2> HIDE DEF e
  <2>5. e = Pool'
    BY <2>1, <2>4 DEF Install, Pool
  <2>6. PoolOK(e, workers')
    BY <2>5 DEF IInv
  <2>7. \A d \in Calls : Queued(e, d) => d # c
    BY <2>2, <2>4, <2>6 DEF Queued, PoolOK, HoldWaiters, Waiting
  <2>8. \A x \in Resources : Stays(m, e, x)
    <3>1. SUFFICES ASSUME NEW x \in Resources
                   PROVE  Stays(m, e, x)
      OBVIOUS
    <3>2. \A t \in Sessions : Holds(e, t, x) <=> Holds(m, t, x)
      BY <2>4 DEF Holds
    <3>3. \A i \in 1..Len(m.queues[x]) : e.calls[m.queues[x][i]].session = m.calls[m.queues[x][i]].session
      <4>1. \A i \in 1..Len(m.queues[x]) : m.queues[x][i] \in Calls /\ m.queues[x][i] # c
        <5>1. m.queues \in [Resources -> Seq(Calls)]
          BY <1>2, <2>1 DEF PoolOK, PoolType
        <5> QED
          BY <2>4, <2>7, <5>1 DEF Queued
      <4> QED
        BY <2>4, <4>1
    <3> QED
      BY <1>3, <2>4, <3>2, <3>3, StaysIf
  <2>9. \A x \in Resources : Moves(Pool, e, x)
    <3>1. SUFFICES ASSUME NEW x \in Resources
                   PROVE  Moves(Pool, e, x)
      OBVIOUS
    <3>2. Moves(Pool, m, x) /\ Holder(e, x) = Holder(m, x) /\ Line(e, x) = Line(m, x)
      BY <1>3, <2>8 DEF Implements, Stays
    <3> QED
      BY <3>2, Zenon DEF Moves, Stays, Takes, Joins, Leaves, HandsOver
  <2>10. TimedLate(e.calls)
    BY <1>3, <2>2, <2>4 DEF TimedLate, Implements
  <2>11. StayLate(Pool, e)
    <3>1. \A d \in Calls : Queued(e, d) => e.calls[d].status # "idle"
      BY <2>6 DEF Queued, PoolOK, HoldWaiters, Waiting
    <3>2. \A d \in Calls : Queued(e, d) => /\ Pool.calls[d].status # "idle"
                                           /\ e.calls[d].session = Pool.calls[d].session
                                           /\ Pool.calls[d].late => e.calls[d].late
      BY <1>3, <2>4, <2>7, <3>1 DEF FewerCalls
    <3> QED
      BY <1>3, <2>6, <3>2, StayLateIf
  <2> QED
    BY <2>5, <2>9, <2>10, <2>11 DEF Implements
<1> QED
  BY <1>1, <1>6, <1>7, <1>8 DEF Acquire

LEMMA LoadImplements ==
    ASSUME PoolAssumption, IInv, Awaited(Pool), Kept(leases), TimedLate(calls),
           NEW c \in Calls, LoadReturns(c)
    PROVE  Implements(Pool, Pool')
<1> DEFINE s == calls[c].session
           r == calls[c].resource
<1>1. PICK w \in FreshWorkers : AddWorker(r, w) /\ Install(LeasedOrQueued(Pool, c, s, r, w))
  BY DEF LoadReturns
<1>2. calls[c].status = "loading" /\ s \in Sessions /\ r \in Resources /\ workers[r] = None
  BY LoadingCall DEF LoadReturns
<1>3. /\ leases[s] = None
      /\ \A d \in Calls : d # c /\ calls[d].status # "idle" => calls[d].session # s
  <2>1. Wants(Pool, c)
    BY <1>2 DEF Wants, Pool
  <2> QED
    BY <1>2, <2>1 DEF Awaited, Apart, OneAcquire, EmptyHanded, Pool
<1>4. /\ PoolOK(Pool, workers) /\ TablesOK(workers, older) /\ OneAcquire(Pool.calls)
      /\ Pool.leases = leases /\ Pool.calls = calls /\ Pool.queues = queues
  BY DEF IInv, Pool, Awaited, Apart
<1>5. \A d \in Calls : Queued(Pool, d) => Pool.calls[d].session # s
  <2>1. \A d \in Calls : Queued(Pool, d) => d # c /\ calls[d].status # "idle"
    BY <1>2, <1>4 DEF Queued, PoolOK, HoldWaiters, Waiting
  <2> QED
    BY <1>3, <1>4, <2>1
<1> HIDE DEF s, r
<1>6. TablesOK(workers', older') /\ workers'[r] # None /\ workers'[r] = w /\ PoolOK(Pool, workers')
  BY <1>1, <1>2, <1>4, AddWorkerOK
<1>7. /\ workers' \in [Resources -> Workers \cup {None}]
      /\ \A q, x \in Resources : workers'[q] # None /\ workers'[q] = workers'[x] => q = x
  BY <1>6 DEF TablesOK
<1>8. calls[c].status \in {"idle", "loading"}
  BY <1>2
<1>9. FewerCalls(Pool.calls, Pool.calls)
  BY <1>4 DEF FewerCalls, OneAcquire
<1>10. Stays(Pool, Pool, r) /\ \A x \in Resources : Moves(Pool, Pool, x)
  BY DEF Stays, Moves
<1> DEFINE l == LeasedOrQueued(Pool, c, s, r, workers'[r])
<1>11. Implements(Pool, l)
  BY <1>2, <1>3, <1>4, <1>5, <1>6, <1>7, <1>8, <1>9, <1>10, TailImplements
<1>12. PoolOK(l, workers')
  BY <1>2, <1>4, <1>6, <1>7, <1>8, LeasedOrQueuedOK
<1>13. Install(l)
  BY <1>1, <1>6
<1> HIDE DEF l
<1>14. l = [leases |-> l.leases, queues |-> l.queues, calls |-> l.calls]
  BY <1>12 DEF PoolOK, PoolType
<1>15. l = Pool'
  BY <1>13, <1>14 DEF Install, Pool
<1> QED
  BY <1>11, <1>15

(* Every step of the pool but stop.                                        *)
LEMMA NextImplements ==
    ASSUME PoolAssumption, ~MayExpire, ~MayOverlap, ~MayCancel, IInv, Awaited(Pool), Kept(leases),
           TimedLate(calls), [Next]_vars, ~Stop
    PROVE  Implements(Pool, Pool') /\ (phase' = "stopped" <=> phase = "stopped")
<1>1. IInv' /\ Kept(leases')
  BY NextIInv, NextKept
<1>2. ASSUME UNCHANGED <<leases, queues, calls>>
      PROVE  Implements(Pool, Pool')
  <2>1. Pool' = Pool /\ TimedLate(Pool.calls)
    BY <1>2 DEF Pool
  <2>2. StayLate(Pool, Pool)
    BY DEF StayLate
  <2> QED
    BY <2>1, <2>2 DEF Implements, Moves, Stays
<1>3. ASSUME NEW s \in Sessions, Install(Released(Pool, s))
      PROVE  Implements(Pool, Pool')
  <2> DEFINE m == Released(Pool, s)
  <2>1. PoolOK(m, workers) /\ Implements(Pool, m)
    BY ReleasedPool, ReleasedImplements
  <2>2. Install(m)
    BY <1>3
  <2> HIDE DEF m
  <2>3. m = [leases |-> m.leases, queues |-> m.queues, calls |-> m.calls]
    BY <2>1 DEF PoolOK, PoolType
  <2>4. m = Pool'
    BY <2>2, <2>3 DEF Install, Pool
  <2> QED
    BY <2>1, <2>4
<1>4. ASSUME NEW s \in Sessions, SessionStep(s)
      PROVE  Implements(Pool, Pool') /\ phase' = phase
  <2>1. CASE Renew(s)
    BY <1>1, <2>1, DeadlineImplements DEF Renew
  <2>2. CASE Release(s) \/ ReapOne(s)
    BY <1>3, <2>2 DEF Release, ReapOne
  <2> QED
    BY <1>4, <2>1, <2>2 DEF SessionStep, LeaseExpires
<1>5. ASSUME NEW c \in Calls, CallStep(c)
      PROVE  Implements(Pool, Pool') /\ phase' = phase
  <2>1. phase' = phase
    BY <1>5 DEF CallStep, LoadReturns, LoadFails, CancelLoad, ThreadEnds, DeadlinePasses, AcquireResumes, WaitTimesOut, RemoveWaiter,
       CancelAcquire
  <2> QED
    BY <1>1, <1>5, <2>1, LoadImplements, CallImplements
<1>6. ASSUME NEW c \in Calls, NEW s \in Sessions, NEW r \in Resources, Acquire(c, s, r)
      PROVE  Implements(Pool, Pool') /\ phase' = phase
  <2>1. phase' = phase
    BY <1>6 DEF Acquire, AcquireRenews, AcquireLoaded, AcquireAtCap, AcquireLoads
  <2> QED
    BY <1>1, <1>6, <2>1, AcquireImplements
<1> QED
  BY <1>2, <1>4, <1>5, <1>6
     DEF Next, ReapScan, EvictOverflow, EvictWorker, Preload, StartReturns, vars

(* stop drops every lease and every waiter.                                *)
LEMMA StopImplements ==
    ASSUME PoolAssumption, IInv, TimedLate(calls), Stop
    PROVE  /\ phase # "stopped" /\ phase' = "stopped"
           /\ \A r \in Resources : Holder(Pool', r) = None /\ Line(Pool', r) = <<>>
           /\ Late(Pool') = {}
           /\ TimedLate(calls')
<1> DEFINE e == [leases |-> leases', queues |-> queues', calls |-> calls']
<1>1. e.leases = leases' /\ e.queues = queues' /\ e.calls = calls' /\ e = Pool'
  BY DEF Pool
<1> HIDE DEF e
<1>2. /\ \A s \in Sessions : leases'[s] = None
      /\ \A r \in Resources : queues'[r] = <<>>
  BY DEF Stop
<1>3. \A r \in Resources : Holder(e, r) = None
  BY <1>1, <1>2 DEF Holder, Holds
<1>4. \A r \in Resources : Line(e, r) = <<>>
  BY <1>1, <1>2 DEF Line
<1>5. Late(e) = {}
  BY <1>1, <1>2 DEF Late, Queued
<1>6. TimedLate(calls')
  <2>1. SUFFICES ASSUME NEW c \in Calls, calls'[c].status = "timedout"
                 PROVE  calls'[c].late
    BY DEF TimedLate
  <2>2. calls[c] \in ActiveCall \cup {IdleCall} /\ IdleCall.status = "idle"
    BY DEF IInv, PoolOK, PoolType, Pool, IdleCall
  <2>3. /\ calls[c].status = "queued" => calls'[c] = [calls[c] EXCEPT !.status = "refused"]
        /\ calls[c].status = "abandoned" => calls'[c] = IdleCall
        /\ calls[c].status \notin {"queued", "abandoned"} => calls'[c] = calls[c]
    BY DEF Stop
  <2>4. calls[c].status # "abandoned"
    BY <2>1, <2>2, <2>3
  <2>5. calls[c].status # "queued"
    <3>1. calls[c].status = "queued" => calls[c] \in ActiveCall
      BY <2>2
    <3> QED
      BY <2>1, <2>3, <3>1 DEF ActiveCall
  <2> QED
    BY <2>1, <2>3, <2>4, <2>5 DEF TimedLate
<1> QED
  BY <1>1, <1>3, <1>4, <1>5, <1>6 DEF Stop

(* What FairLease sees of the pool is what the records hold.               *)
Seen ==
    /\ \A r \in Resources : HolderOf(r) = Holder(Pool, r) /\ LineOf(r) = Line(Pool, r)
    /\ LateSessions = Late(Pool)
    /\ Late(Pool) \subseteq UNION {Fair!InLine(LineOf(r)) : r \in Resources}

LEMMA PoolSeen ==
    ASSUME PoolAssumption, IInv, Kept(leases)
    PROVE  Seen
<1>1. Pool.leases = leases /\ Pool.queues = queues /\ Pool.calls = calls /\ PoolOK(Pool, workers)
  BY DEF Pool, IInv
<1>2. ASSUME NEW r \in Resources
      PROVE  HolderOf(r) = Holder(Pool, r)
  <2>1. \A s \in Sessions : Holds(Pool, s, r) <=> HoldsLeaseOn(s, r)
    BY <1>1 DEF Holds, HoldsLeaseOn
  <2>2. /\ \A s \in Sessions : HoldsLeaseOn(s, r) <=> Holder(Pool, r) = s
        /\ Holder(Pool, r) \in Sessions \cup {None}
    BY <1>1, <2>1, HolderIs
  <2>3. CASE \E s \in Sessions : HoldsLeaseOn(s, r)
    <3>1. HolderOf(r) \in Sessions /\ HoldsLeaseOn(HolderOf(r), r)
      BY <2>3, Zenon DEF HolderOf
    <3> QED
      BY <2>2, <3>1
  <2>4. CASE ~\E s \in Sessions : HoldsLeaseOn(s, r)
    BY <2>2, <2>4 DEF HolderOf
  <2> QED
    BY <2>3, <2>4
<1>3. \A r \in Resources : LineOf(r) = Line(Pool, r)
  BY <1>1 DEF LineOf, Line
<1>4. ASSUME NEW c \in Calls, calls[c].late
      PROVE  Queued(Pool, c) <=> InQueue(c, calls[c].resource)
  <2>1. calls[c] \in ActiveCall \cup {IdleCall} /\ IdleCall.late = FALSE
    BY <1>1 DEF PoolOK, PoolType, IdleCall
  <2>2. calls[c].resource \in Resources
    BY <1>4, <2>1 DEF ActiveCall
  <2>3. /\ queues \in [Resources -> Seq(Calls)] /\ HoldWaiters(Pool)
        /\ \A r \in Resources : DOMAIN queues[r] = 1..Len(queues[r])
    BY <1>1 DEF PoolOK, PoolType
  <2>4. \A r \in Resources : \A i \in 1..Len(queues[r]) : queues[r][i] = c => calls[c].resource = r
    BY <1>1, <2>3 DEF HoldWaiters
  <2> QED
    BY <1>1, <2>2, <2>3, <2>4 DEF Queued, InQueue
<1>5. LateSessions = Late(Pool)
  BY <1>1, <1>4 DEF LateSessions, Late
<1>6. ASSUME NEW s \in Late(Pool)
      PROVE  \E r \in Resources : s \in Fair!InLine(LineOf(r))
  <2>1. PICK c \in Calls : Queued(Pool, c) /\ s = Pool.calls[c].session
    BY <1>6 DEF Late
  <2>2. PICK r \in Resources : \E i \in 1..Len(queues[r]) : queues[r][i] = c
    BY <1>1, <2>1 DEF Queued
  <2>3. PICK i \in 1..Len(Line(Pool, r)) : Pool.queues[r][i] = c
    BY <1>1, <2>2, LineIs
  <2>4. Line(Pool, r)[i] = s
    BY <1>1, <2>1, <2>3, LineIs
  <2> QED
    BY <1>3, <2>4 DEF Fair!InLine
<1> QED
  BY <1>2, <1>3, <1>5, <1>6 DEF Seen

(* A step of the open pool serves each resource in the order of its line.  *)
LEMMA StepServes ==
    ASSUME PoolAssumption, IInv, Kept(leases), Seen, Seen', Implements(Pool, Pool'),
           phase' = "stopped" <=> phase = "stopped"
    PROVE  Fair!Next
<1> DEFINE p == Pool
           e == Pool'
<1>1. \A r \in Resources : Moves(p, e, r) /\ StayLate(p, e)
  BY DEF Implements
<1>2. /\ \A r \in Resources : /\ HolderOf(r) = Holder(p, r) /\ LineOf(r) = Line(p, r)
                              /\ HolderOf(r)' = Holder(e, r) /\ LineOf(r)' = Line(e, r)
      /\ LateSessions = Late(p) /\ LateSessions' = Late(e)
      /\ Late(e) \subseteq UNION {Fair!InLine(LineOf(r)') : r \in Resources}
  BY DEF Seen
<1> HIDE DEF p, e
<1>3. ASSUME NEW r \in Resources
      PROVE  \/ Fair!Step(r)
             \/ HolderOf(r)' = HolderOf(r) /\ LineOf(r)' = LineOf(r)
  <2>1. CASE Stays(p, e, r)
    BY <1>2, <2>1 DEF Stays
  <2>2. CASE Takes(p, e, r)
    <3>1. Fair!Take(r)
      BY <1>2, <2>2 DEF Takes, Fair!Take
    <3> QED
      BY <3>1 DEF Fair!Step
  <2>3. CASE Joins(p, e, r)
    <3>1. Fair!Join(r)
      BY <1>2, <2>3 DEF Joins, Fair!Join, Fair!InLine
    <3> QED
      BY <3>1 DEF Fair!Step
  <2>4. CASE Leaves(p, e, r)
    <3>1. Fair!Leave(r)
      BY <1>2, <2>4 DEF Leaves, Fair!Leave
    <3> QED
      BY <3>1 DEF Fair!Step
  <2>5. CASE Holder(p, r) # None /\ HandsOver(p, e, r)
    <3>1. Fair!HandOver(r) \/ Fair!Vacate(r)
      BY <1>2, <2>5 DEF HandsOver, Fair!HandOver, Fair!Vacate, Fair!InLine
    <3> QED
      BY <3>1 DEF Fair!Step
  <2> QED
    BY <1>1, <2>1, <2>2, <2>3, <2>4, <2>5 DEF Moves
<1>4. Fair!Serve
  BY <1>3 DEF Fair!Serve
<1>5. ASSUME NEW r \in Resources
      PROVE  LateSessions \cap Fair!InLine(LineOf(r)') \subseteq LateSessions'
  BY <1>1, <1>2 DEF Fair!InLine, StayLate
<1>6. Fair!Lateness
  BY <1>2, <1>5 DEF Fair!Lateness
<1> QED
  BY <1>4, <1>6 DEF Fair!Next

(* stop closes the service.                                                *)
LEMMA StopCloses ==
    ASSUME PoolAssumption, IInv, TimedLate(calls), Seen', Stop
    PROVE  Fair!Next
<1>1. /\ phase # "stopped" /\ phase' = "stopped"
      /\ \A r \in Resources : Holder(Pool', r) = None /\ Line(Pool', r) = <<>>
      /\ Late(Pool') = {}
  BY StopImplements
<1>2. /\ \A r \in Resources : HolderOf(r)' = None /\ LineOf(r)' = <<>>
      /\ LateSessions' = {}
  BY <1>1 DEF Seen
<1>3. Fair!Close
  BY <1>1, <1>2 DEF Fair!Close
<1>4. Fair!Lateness
  BY <1>2 DEF Fair!Lateness, Fair!InLine
<1> QED
  BY <1>3, <1>4 DEF Fair!Next

(* For sessions that play by the rules - a lease does not outlive its      *)
(* deadline, an acquire is not cancelled, a session has one acquire        *)
(* outstanding - the pool is a fair lease service: a worker has one holder *)
(* at a time, nobody overtakes its queue (_waiters), and whoever gives the *)
(* worker up hands it in the same step to the first in line whose deadline *)
(* has not passed, or to nobody when there is none (pool.py:371-407).      *)
THEOREM PoolImplementsFairLease ==
    ~MayExpire /\ ~MayCancel /\ ~MayOverlap => (Spec => ImplementsFairLease)
<1> SUFFICES ASSUME ~MayExpire, ~MayCancel, ~MayOverlap
             PROVE  Spec => ImplementsFairLease
  OBVIOUS
<1> DEFINE Rules == Awaited(Pool) /\ Kept(leases) /\ TimedLate(calls)
<1>1. Init => Rules /\ Fair!Init
  <2>1. SUFFICES ASSUME Init
                 PROVE  Rules /\ Fair!Init
    OBVIOUS
  <2>2. /\ leases = [s \in Sessions |-> None]
        /\ queues = [r \in Resources |-> <<>>]
        /\ calls = [c \in Calls |-> IdleCall]
        /\ phase = "starting"
        /\ IdleCall.status = "idle" /\ IdleCall.late = FALSE
    BY <2>1 DEF Init, IdleCall
  <2>3. Awaited(Pool)
    <3>1. \A c \in Calls : ~Wants(Pool, c)
      BY <2>2 DEF Wants, Pool
    <3> QED
      BY <2>2, <3>1 DEF Awaited, Waited, Apart, EmptyHanded, OneAcquire, Pool
  <2>4. Kept(leases) /\ TimedLate(calls)
    BY <2>2 DEF Kept, TimedLate
  <2>5. \A r \in Resources : HolderOf(r) = None /\ LineOf(r) = <<>>
    BY <2>2 DEF HolderOf, LineOf, HoldsLeaseOn
  <2>6. LateSessions = {}
    BY <2>2 DEF LateSessions
  <2> QED
    BY <2>2, <2>3, <2>4, <2>5, <2>6 DEF Fair!Init
<1>2. IInv /\ Rules /\ [Next]_vars => Rules'
  <2>1. SUFFICES ASSUME IInv, Awaited(Pool), Kept(leases), TimedLate(calls), [Next]_vars
                 PROVE  Awaited(Pool') /\ Kept(leases') /\ TimedLate(calls')
    OBVIOUS
  <2>2. Pool'.calls = calls'
    BY DEF Pool
  <2>3. TimedLate(calls')
    <3>1. CASE Stop
      BY <2>1, <3>1, PoolAssumption, StopImplements
    <3>2. CASE ~Stop
      <4>1. Implements(Pool, Pool')
        BY <2>1, <3>2, PoolAssumption, NextImplements
      <4> QED
        BY <2>2, <4>1 DEF Implements
    <3> QED
      BY <3>1, <3>2
  <2> QED
    BY <2>1, <2>3, PoolAssumption, NextAwaited, NextKept
<1>3. IInv /\ Rules => Seen
  BY PoolAssumption, PoolSeen
<1>4. IInv /\ Rules /\ Seen /\ Seen' /\ [Next]_vars
          => [Fair!Next]_<<phase # "stopped", [r \in Resources |-> HolderOf(r)],
                           [r \in Resources |-> LineOf(r)], LateSessions>>
  <2>1. SUFFICES ASSUME IInv, Rules, Seen, Seen', [Next]_vars
                 PROVE  Fair!Next
    OBVIOUS
  <2>2. CASE Stop
    BY <2>1, <2>2, PoolAssumption, StopCloses
  <2>3. CASE ~Stop
    BY <2>1, <2>3, PoolAssumption, NextImplements, StepServes
  <2> QED
    BY <2>2, <2>3
<1> HIDE DEF Rules
<1> QED
  BY <1>1, <1>2, <1>3, <1>4, PoolInvariant, PTL DEF Spec, ImplementsFairLease, Fair!Spec
=============================================================================
