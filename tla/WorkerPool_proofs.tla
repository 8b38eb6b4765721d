-------------------------- MODULE WorkerPool_proofs --------------------------
(***************************************************************************)
(* Proofs about the worker pool, for every number of sessions, resources,  *)
(* calls and workers.                                                      *)
(***************************************************************************)
EXTENDS WorkerPool, FiniteSetTheorems, SequenceTheorems, WellFoundedInduction, TLAPS

-----------------------------------------------------------------------------
(* Numbers and sequences.                                                  *)

(* A non-empty set of natural numbers has a least element.                 *)
LEMMA LeastNat ==
    ASSUME NEW T \in SUBSET Nat, T # {}
    PROVE  \E i \in T : \A j \in T : i <= j
<1>1. PICK i \in T : \A j \in T : ~(<<j, i>> \in OpToRel(<, Nat))
  BY NatLessThanWellFounded, WFMin, Zenon
<1>2. \A j \in T : ~(j < i)
  BY <1>1, Zenon DEF OpToRel
<1>3. \A j \in T : i <= j
  BY <1>2, i \in Nat, T \subseteq Nat
<1> QED
  BY <1>3, Zenon

(* The sequence left when the element at position i is taken out.          *)
LEMMA WithoutElement ==
    ASSUME NEW S, NEW q \in Seq(S), NEW i \in 1..Len(q)
    PROVE  LET t == SubSeq(q, 1, i - 1) \o SubSeq(q, i + 1, Len(q))
           IN  /\ t \in Seq(S)
               /\ Len(t) = Len(q) - 1
               /\ \A j \in 1..Len(t) : t[j] = IF j < i THEN q[j] ELSE q[j + 1]
<1> DEFINE a == SubSeq(q, 1, i - 1)
           b == SubSeq(q, i + 1, Len(q))
           t == a \o b
<1>1. Len(q) \in Nat /\ \A j \in 1..Len(q) : q[j] \in S
  OBVIOUS
<1>2. a \in Seq(S) /\ b \in Seq(S)
  BY <1>1
<1>3. Len(a) = i - 1 /\ Len(b) = Len(q) - i
  BY <1>1
<1>4. \A j \in 1..(i - 1) : a[j] = q[j]
  BY <1>1
<1>5. \A j \in 1..(Len(q) - i) : b[j] = q[i + j]
  BY <1>1
<1>6. t = a \o b
  OBVIOUS
<1> HIDE DEF a, b, t
<1>7. t \in Seq(S)
  BY <1>2, <1>6, ConcatProperties, Zenon
<1>8. Len(t) = Len(a) + Len(b)
  BY <1>2, <1>6, ConcatProperties, Zenon
<1>9. \A j \in 1..(Len(a) + Len(b)) : t[j] = IF j <= Len(a) THEN a[j] ELSE b[j - Len(a)]
  BY <1>2, <1>6, ConcatProperties, Zenon
<1>10. Len(t) = Len(q) - 1
  BY <1>1, <1>3, <1>8
<1>11. ASSUME NEW j \in 1..Len(t)
       PROVE  t[j] = IF j < i THEN q[j] ELSE q[j + 1]
  <2>1. j \in 1..(Len(a) + Len(b)) /\ j \in Int /\ j >= 1 /\ j <= Len(q) - 1
    BY <1>1, <1>8, <1>10
  <2>2. CASE j < i
    <3>1. j \in 1..(i - 1) /\ j <= Len(a)
      BY <1>3, <2>1, <2>2
    <3> QED
      BY <1>4, <1>9, <2>1, <2>2, <3>1
  <2>3. CASE ~(j < i)
    <3>1. j - Len(a) \in 1..(Len(q) - i) /\ ~(j <= Len(a)) /\ i + (j - Len(a)) = j + 1
      BY <1>1, <1>3, <2>1, <2>3
    <3>2. t[j] = b[j - Len(a)]
      BY <1>9, <2>1, <3>1
    <3>3. b[j - Len(a)] = q[i + (j - Len(a))]
      BY <1>5, <3>1, Zenon
    <3> QED
      BY <2>3, <3>1, <3>2, <3>3
  <2> QED
    BY <2>2, <2>3
<1> QED
  BY <1>7, <1>10, <1>11, Zenon DEF a, b, t

(* Removed leaves a sequence whose elements stand in their old order: the  *)
(* j-th comes from a position of the old one that is not c's.              *)
LEMMA RemovedElements ==
    ASSUME NEW S, NEW q \in Seq(S), NEW c,
           \A i, j \in 1..Len(q) : q[i] = q[j] => i = j
    PROVE  /\ Removed(q, c) \in Seq(S)
           /\ \A j \in 1..Len(Removed(q, c)) : Removed(q, c)[j] # c
           /\ \A j \in 1..Len(Removed(q, c)) : \E k \in 1..Len(q) : Removed(q, c)[j] = q[k]
           /\ \A k \in 1..Len(q) : q[k] # c => \E j \in 1..Len(Removed(q, c)) : Removed(q, c)[j] = q[k]
           /\ \A i, j \in 1..Len(Removed(q, c)) : Removed(q, c)[i] = Removed(q, c)[j] => i = j
<1>1. CASE ~\E i \in 1..Len(q) : q[i] = c
  <2>1. Removed(q, c) = q
    BY <1>1, Zenon DEF Removed
  <2> QED
    BY <1>1, <2>1
<1>2. CASE \E i \in 1..Len(q) : q[i] = c
  <2> DEFINE i == CHOOSE j \in 1..Len(q) : q[j] = c
             t == Removed(q, c)
  <2>1. i \in 1..Len(q) /\ q[i] = c
    BY <1>2
  <2>2. t = SubSeq(q, 1, i - 1) \o SubSeq(q, i + 1, Len(q))
    BY <1>2, Zenon DEF Removed
  <2>9. q \in Seq(S)
    OBVIOUS
  <2> HIDE DEF i, t
  <2>3. /\ t \in Seq(S)
        /\ Len(t) = Len(q) - 1
        /\ \A j \in 1..Len(t) : t[j] = IF j < i THEN q[j] ELSE q[j + 1]
    BY <2>1, <2>2, <2>9, WithoutElement, Zenon
  <2>4. Len(q) \in Nat
    OBVIOUS
  <2>5. \A j \in 1..Len(t) : t[j] # c
    BY <2>1, <2>3, <2>4
  <2>6. \A j \in 1..Len(t) : \E k \in 1..Len(q) : t[j] = q[k]
    BY <2>1, <2>3, <2>4
  <2>7. ASSUME NEW k \in 1..Len(q), q[k] # c
        PROVE  \E j \in 1..Len(t) : t[j] = q[k]
    <3>1. CASE k < i
      <4>1. k \in 1..Len(t) /\ t[k] = q[k]
        BY <2>1, <2>3, <2>4, <3>1
      <4> QED
        BY <4>1
    <3>2. CASE k > i
      <4>1. k - 1 \in 1..Len(t) /\ t[k - 1] = q[k]
        BY <2>1, <2>3, <2>4, <3>2
      <4> QED
        BY <4>1
    <3> QED
      BY <2>1, <2>4, <2>7, <3>1, <3>2
  <2>8. \A m, j \in 1..Len(t) : t[m] = t[j] => m = j
    BY <2>1, <2>3, <2>4
  <2> QED
    BY <2>3, <2>5, <2>6, <2>7, <2>8 DEF t
<1> QED
  BY <1>1, <1>2

-----------------------------------------------------------------------------
(***************************************************************************)
(* The inductive invariant, over the record that the code under the lock   *)
(* rewrites: p is the leases, queues and calls, ws the table of workers.   *)
(***************************************************************************)
PoolType ==
    [leases : [Sessions -> Lease \cup {None}],
     queues : [Resources -> Seq(Calls)],
     calls  : [Calls -> ActiveCall \cup {IdleCall}]]

Waiting == {"queued", "timedout", "abandoned"}

HoldWaiters(p) ==
    \A r \in Resources : \A i \in 1..Len(p.queues[r]) :
        /\ p.calls[p.queues[r][i]].resource = r
        /\ p.calls[p.queues[r][i]].status \in Waiting

Distinct(p) ==
    \A r \in Resources : \A i, j \in 1..Len(p.queues[r]) :
        p.queues[r][i] = p.queues[r][j] => i = j

AreQueued(p) ==
    \A c \in Calls : p.calls[c].status \in {"queued", "abandoned"} =>
        \E i \in 1..Len(p.queues[p.calls[c].resource]) : p.queues[p.calls[c].resource][i] = c

Named(p, ws) ==
    \A s \in Sessions : p.leases[s] # None => ws[p.leases[s].resource] = p.leases[s].worker

Staffed(p, ws) == \A r \in Resources : p.queues[r] # <<>> => ws[r] # None

PoolOK(p, ws) ==
    /\ p \in PoolType
    /\ HoldWaiters(p)
    /\ Distinct(p)
    /\ AreQueued(p)
    /\ Named(p, ws)
    /\ Staffed(p, ws)

(* Two calls tables agree on who loads and who is idle, and a call that    *)
(* loads or is idle is left alone.                                         *)
SameLoads(f, g) ==
    \A c \in Calls : /\ f[c].status = "loading" <=> g[c].status = "loading"
                     /\ f[c].status \in {"idle", "loading"} => g[c] = f[c]

(* A call with a status other than idle is a proper request.               *)
LEMMA ActiveCallType ==
    ASSUME NEW k \in ActiveCall \cup {IdleCall}, k.status # "idle"
    PROVE  /\ k \in ActiveCall
           /\ k.session \in Sessions /\ k.resource \in Resources /\ k.late \in BOOLEAN
BY DEF ActiveCall, IdleCall

(* Popped is a position of the queue, 0 if it is empty: the first eligible *)
(* one if there is one, else the last.                                     *)
LEMMA PoppedBound ==
    ASSUME NEW p, NEW q \in Seq(Calls)
    PROVE  /\ Popped(p, q) \in 0..Len(q)
           /\ Eligible(p, q) # {} => Popped(p, q) \in Eligible(p, q)
           /\ Eligible(p, q) = {} => Popped(p, q) = Len(q)
<1> DEFINE T == Eligible(p, q)
           n == Popped(p, q)
<1>1. Len(q) \in Nat
  OBVIOUS
<1>2. T \subseteq 1..Len(q)
  BY DEF Eligible
<1>3. CASE T = {}
  <2>1. n = Len(q)
    BY <1>3 DEF Popped
  <2> QED
    BY <1>1, <1>3, <2>1
<1>4. CASE T # {}
  <2>1. n = CHOOSE i \in T : \A j \in T : i <= j
    BY <1>4 DEF Popped
  <2>2. T \subseteq Nat
    BY <1>1, <1>2
  <2> HIDE DEF T
  <2>3. \E i \in T : \A j \in T : i <= j
    BY <1>4, <2>2, LeastNat
  <2>4. n \in T
    BY <2>1, <2>3, Zenon
  <2> QED
    BY <1>1, <1>2, <1>4, <2>4 DEF T
<1> QED
  BY <1>3, <1>4

(* What Resolved makes of a waiter.                                        *)
LEMMA ResolvedCall ==
    ASSUME NEW k \in ActiveCall \cup {IdleCall}
    PROVE  /\ Resolved(k) \in ActiveCall \cup {IdleCall}
           /\ k.status \in {"queued", "abandoned"} => Resolved(k).status \in {"granted", "refused", "idle"}
           /\ k.status \notin {"queued", "abandoned"} => Resolved(k) = k
<1>1. CASE k.status = "queued"
  <2>1. k \in ActiveCall
    BY <1>1, ActiveCallType
  <2>2. k.late \in BOOLEAN
    BY <2>1 DEF ActiveCall
  <2>3. CASE k.late
    <3>1. Resolved(k) = [k EXCEPT !.status = "refused"]
      BY <1>1, <2>3 DEF Resolved
    <3> QED
      BY <1>1, <2>1, <3>1 DEF ActiveCall, Statuses
  <2>4. CASE ~k.late
    <3>1. Resolved(k) = [k EXCEPT !.status = "granted"]
      BY <1>1, <2>4 DEF Resolved
    <3> QED
      BY <1>1, <2>1, <3>1 DEF ActiveCall, Statuses
  <2> QED
    BY <2>3, <2>4
<1>2. CASE k.status = "abandoned"
  <2>1. Resolved(k) = IdleCall
    BY <1>2 DEF Resolved
  <2> QED
    BY <1>2, <2>1 DEF IdleCall
<1>3. CASE k.status \notin {"queued", "abandoned"}
  <2>1. Resolved(k) = k
    BY <1>3 DEF Resolved
  <2> QED
    BY <1>3, <2>1
<1> QED
  BY <1>1, <1>2, <1>3

(* Dispatch keeps the pool in order, and grants at most one lease: the new *)
(* leases table differs from the old one in one session at most, which     *)
(* then holds the worker of r.                                             *)
LEMMA DispatchedOK ==
    ASSUME PoolAssumption, workers \in [Resources -> Workers \cup {None}],
           NEW p, PoolOK(p, workers), NEW r \in Resources
    PROVE  /\ PoolOK(Dispatched(p, r), workers)
           /\ SameLoads(p.calls, Dispatched(p, r).calls)
           /\ \/ Dispatched(p, r).leases = p.leases
              \/ \E s \in Sessions :
                    /\ workers[r] # None
                    /\ Dispatched(p, r).leases = [p.leases EXCEPT ![s] = NewLease(r, workers[r])]
<1> DEFINE q == p.queues[r]
           n == Popped(p, q)
           d == Dispatched(p, r)
           popped(c) == \E i \in 1..n : q[i] = c
<1>1. CASE workers[r] = None
  <2>1. d = p
    BY <1>1 DEF Dispatched
  <2> QED
    BY <2>1 DEF SameLoads
<1>2. CASE workers[r] # None
  <2>1. p \in PoolType /\ HoldWaiters(p) /\ Distinct(p) /\ AreQueued(p) /\ Named(p, workers) /\ Staffed(p, workers)
    BY DEF PoolOK
  <2>2. /\ p.leases \in [Sessions -> Lease \cup {None}]
        /\ p.queues \in [Resources -> Seq(Calls)]
        /\ p.calls \in [Calls -> ActiveCall \cup {IdleCall}]
    BY <2>1 DEF PoolType
  <2>3. q \in Seq(Calls) /\ Len(q) \in Nat /\ \A i \in 1..Len(q) : q[i] \in Calls
    BY <2>2
  <2>4. /\ n \in 0..Len(q)
        /\ Eligible(p, q) # {} => n \in Eligible(p, q)
    BY <2>3, PoppedBound, Zenon
  <2>5. /\ d.leases = IF Eligible(p, q) = {} THEN p.leases
                      ELSE [p.leases EXCEPT ![p.calls[q[n]].session] = NewLease(r, workers[r])]
        /\ d.queues = [p.queues EXCEPT ![r] = SubSeq(q, n + 1, Len(q))]
        /\ d.calls = [c \in Calls |-> IF popped(c) THEN Resolved(p.calls[c]) ELSE p.calls[c]]
        /\ d = [leases |-> d.leases, queues |-> d.queues, calls |-> d.calls]
    BY <1>2 DEF Dispatched
  <2>6. \A i \in 1..Len(q) : p.calls[q[i]].resource = r /\ p.calls[q[i]].status \in Waiting
    BY <2>1 DEF HoldWaiters
  <2>7. NewLease(r, workers[r]) \in Lease /\ NewLease(r, workers[r]).resource = r /\ NewLease(r, workers[r]).worker = workers[r]
    BY <1>2 DEF NewLease, Lease
  <2> HIDE DEF q, n, d
  <2>8. Eligible(p, q) # {} => n \in 1..Len(q) /\ p.calls[q[n]].session \in Sessions
    <3>1. SUFFICES ASSUME Eligible(p, q) # {} PROVE n \in 1..Len(q) /\ p.calls[q[n]].session \in Sessions
      OBVIOUS
    <3>2. n \in 1..Len(q)
      BY <2>4, <3>1 DEF Eligible
    <3>3. p.calls[q[n]] \in ActiveCall \cup {IdleCall} /\ p.calls[q[n]].status # "idle"
      BY <2>2, <2>3, <2>6, <3>2 DEF Waiting
    <3> QED
      BY <3>2, <3>3, ActiveCallType
  <2>9. /\ d.leases \in [Sessions -> Lease \cup {None}]
        /\ \A s \in Sessions : d.leases[s] = p.leases[s] \/ d.leases[s] = NewLease(r, workers[r])
    BY <2>2, <2>5, <2>7, <2>8
  <2>10. SubSeq(q, n + 1, Len(q)) \in Seq(Calls)
    BY <2>3, <2>4
  <2>11. /\ Len(SubSeq(q, n + 1, Len(q))) = Len(q) - n
         /\ \A i \in 1..(Len(q) - n) : SubSeq(q, n + 1, Len(q))[i] = q[n + i]
    BY <2>3, <2>4
  <2>12. \A c \in Calls : /\ d.calls[c] \in ActiveCall \cup {IdleCall}
                          /\ d.calls[c] # p.calls[c] => popped(c)
                          /\ popped(c) => d.calls[c].status \notin {"queued", "abandoned"}
                          /\ p.calls[c].status \notin {"queued", "abandoned"} => d.calls[c] = p.calls[c]
                          /\ p.calls[c].status \in {"queued", "abandoned"} => d.calls[c].status # "loading"
    <3>1. TAKE c \in Calls
    <3>2. p.calls[c] \in ActiveCall \cup {IdleCall}
      BY <2>2
    <3>3. /\ Resolved(p.calls[c]) \in ActiveCall \cup {IdleCall}
          /\ p.calls[c].status \in {"queued", "abandoned"} => Resolved(p.calls[c]).status \in {"granted", "refused", "idle"}
          /\ p.calls[c].status \notin {"queued", "abandoned"} => Resolved(p.calls[c]) = p.calls[c]
      BY <3>2, ResolvedCall
    <3>4. d.calls[c] = IF popped(c) THEN Resolved(p.calls[c]) ELSE p.calls[c]
      BY <2>5
    <3> HIDE DEF popped
    <3> QED
      BY <3>2, <3>3, <3>4
  <2>13. d \in PoolType
    <3>1. d.queues \in [Resources -> Seq(Calls)]
      BY <2>2, <2>5, <2>10
    <3>2. d.calls \in [Calls -> ActiveCall \cup {IdleCall}]
      BY <2>5, <2>12
    <3> QED
      BY <2>5, <2>9, <3>1, <3>2 DEF PoolType
  <2>14. /\ Len(d.queues[r]) = Len(q) - n
         /\ \A i \in 1..Len(d.queues[r]) : n + i \in 1..Len(q) /\ d.queues[r][i] = q[n + i]
         /\ \A x \in Resources : x # r => d.queues[x] = p.queues[x]
    <3>1. d.queues[r] = SubSeq(q, n + 1, Len(q)) /\ \A x \in Resources : x # r => d.queues[x] = p.queues[x]
      BY <2>2, <2>5
    <3> QED
      BY <2>3, <2>4, <2>11, <3>1
  <2>15. \A i, j \in 1..Len(q) : q[i] = q[j] => i = j
    BY <2>1 DEF Distinct, q
  <2>16. \A i \in 1..Len(d.queues[r]) : d.calls[q[n + i]] = p.calls[q[n + i]]
    <3>1. TAKE i \in 1..Len(d.queues[r])
    <3>2. n + i \in 1..Len(q) /\ q[n + i] \in Calls
      BY <2>3, <2>14
    <3>3. ~popped(q[n + i])
      <4>1. SUFFICES ASSUME NEW j \in 1..n, q[j] = q[n + i] PROVE FALSE
        OBVIOUS
      <4>2. n \in Nat /\ i \in Nat /\ i > 0 /\ j \in 1..Len(q) /\ j < n + i
        BY <2>4, <3>1, <2>3
      <4>3. j = n + i
        BY <2>15, <3>2, <4>1, <4>2, Zenon
      <4> QED
        BY <4>2, <4>3
    <3> QED
      BY <2>12, <3>2, <3>3, Zenon
  <2>17. \A x \in Resources : x # r =>
            \A i \in 1..Len(p.queues[x]) : d.calls[p.queues[x][i]] = p.calls[p.queues[x][i]]
    <3>1. SUFFICES ASSUME NEW x \in Resources, x # r, NEW i \in 1..Len(p.queues[x])
                   PROVE  d.calls[p.queues[x][i]] = p.calls[p.queues[x][i]]
      OBVIOUS
    <3>2. p.queues[x][i] \in Calls /\ p.calls[p.queues[x][i]].resource = x
      BY <2>1, <2>2 DEF HoldWaiters
    <3>3. ~popped(p.queues[x][i])
      BY <2>3, <2>4, <2>6, <3>1, <3>2
    <3> QED
      BY <2>12, <3>2, <3>3, Zenon
  <2>18. HoldWaiters(d)
    <3>1. ASSUME NEW x \in Resources, NEW i \in 1..Len(d.queues[x])
          PROVE  d.calls[d.queues[x][i]].resource = x /\ d.calls[d.queues[x][i]].status \in Waiting
      <4>1. CASE x = r
        <5>1. n + i \in 1..Len(q) /\ d.queues[x][i] = q[n + i] /\ d.calls[q[n + i]] = p.calls[q[n + i]]
          BY <2>14, <2>16, <4>1
        <5>2. p.calls[q[n + i]].resource = r /\ p.calls[q[n + i]].status \in Waiting
          BY <2>6, <5>1, Zenon
        <5> QED
          BY <4>1, <5>1, <5>2
      <4>2. CASE x # r
        <5>1. d.queues[x] = p.queues[x]
          BY <2>14, <4>2
        <5>2. d.calls[p.queues[x][i]] = p.calls[p.queues[x][i]] /\ i \in 1..Len(p.queues[x])
          BY <2>17, <4>2, <5>1
        <5>3. p.calls[p.queues[x][i]].resource = x /\ p.calls[p.queues[x][i]].status \in Waiting
          BY <2>1, <5>2, Zenon DEF HoldWaiters
        <5> QED
          BY <5>1, <5>2, <5>3
      <4> QED
        BY <4>1, <4>2
    <3> QED
      BY <3>1, Zenon DEF HoldWaiters
  <2>19. Distinct(d)
    <3>1. ASSUME NEW x \in Resources, NEW i \in 1..Len(d.queues[x]), NEW j \in 1..Len(d.queues[x]),
                 d.queues[x][i] = d.queues[x][j]
          PROVE  i = j
      <4>1. CASE x = r
        <5>1. n + i = n + j
          <6>1. /\ n + i \in 1..Len(q) /\ d.queues[x][i] = q[n + i]
                /\ n + j \in 1..Len(q) /\ d.queues[x][j] = q[n + j]
            BY <2>14, <4>1
          <6> QED
            BY <2>15, <3>1, <6>1, Zenon
        <5> QED
          BY <2>3, <2>4, <2>14, <4>1, <5>1
      <4>2. CASE x # r
        BY <2>1, <2>14, <3>1, <4>2 DEF Distinct
      <4> QED
        BY <4>1, <4>2
    <3> QED
      BY <3>1, Zenon DEF Distinct
  <2>20. AreQueued(d)
    <3>1. SUFFICES ASSUME NEW c \in Calls, d.calls[c].status \in {"queued", "abandoned"}
                   PROVE  \E i \in 1..Len(d.queues[d.calls[c].resource]) : d.queues[d.calls[c].resource][i] = c
      BY Zenon DEF AreQueued
    <3>2. ~popped(c) /\ d.calls[c] = p.calls[c]
      BY <2>12, <3>1, Zenon
    <3>3. PICK i \in 1..Len(p.queues[p.calls[c].resource]) : p.queues[p.calls[c].resource][i] = c
      BY <2>1, <3>1, <3>2, Zenon DEF AreQueued
    <3>4. p.calls[c].resource \in Resources
      BY <2>2, <3>1, <3>2, ActiveCallType
    <3>5. CASE p.calls[c].resource = r
      <4>1. i \in 1..Len(q) /\ q[i] = c
        BY <3>3, <3>5 DEF q
      <4>2. i > n
        BY <2>3, <2>4, <3>2, <4>1
      <4>3. i - n \in 1..Len(d.queues[r]) /\ n + (i - n) = i
        BY <2>3, <2>4, <2>14, <4>1, <4>2
      <4>4. d.queues[r][i - n] = c
        BY <2>14, <4>1, <4>3
      <4> QED
        BY <3>2, <3>5, <4>3, <4>4, Zenon
    <3>6. CASE p.calls[c].resource # r
      BY <2>14, <3>2, <3>3, <3>4, <3>6
    <3> QED
      BY <3>5, <3>6
  <2>21. Named(d, workers)
    BY <2>1, <2>7, <2>9 DEF Named
  <2>22. Staffed(d, workers)
    BY <1>2, <2>1, <2>14 DEF Staffed
  <2>23. SameLoads(p.calls, d.calls)
    BY <2>12 DEF SameLoads
  <2>24. \/ d.leases = p.leases
         \/ \E s \in Sessions : d.leases = [p.leases EXCEPT ![s] = NewLease(r, workers[r])]
    BY <2>5, <2>8, Zenon
  <2> QED
    BY <1>2, <2>13, <2>18, <2>19, <2>20, <2>21, <2>22, <2>23, <2>24 DEF PoolOK, d
<1> QED
  BY <1>1, <1>2

(* A lease that is taken out of the table disturbs nothing else.           *)
LEMMA LeaseDroppedOK ==
    ASSUME NEW p, PoolOK(p, workers), NEW s \in Sessions, NEW e, e = [p EXCEPT !.leases[s] = None]
    PROVE  PoolOK(e, workers) /\ e.queues = p.queues /\ e.calls = p.calls
<1>1. p \in PoolType /\ HoldWaiters(p) /\ Distinct(p) /\ AreQueued(p) /\ Staffed(p, workers) /\ Named(p, workers)
  BY DEF PoolOK
<1>2. /\ p = [leases |-> p.leases, queues |-> p.queues, calls |-> p.calls]
      /\ p.leases \in [Sessions -> Lease \cup {None}]
      /\ p.queues \in [Resources -> Seq(Calls)]
      /\ p.calls \in [Calls -> ActiveCall \cup {IdleCall}]
  BY <1>1 DEF PoolType
<1>3. e = [leases |-> [p.leases EXCEPT ![s] = None], queues |-> p.queues, calls |-> p.calls]
  BY <1>2
<1>4. e.leases = [p.leases EXCEPT ![s] = None] /\ e.queues = p.queues /\ e.calls = p.calls
  BY <1>3
<1>5. e \in PoolType
  <2>1. [p.leases EXCEPT ![s] = None] \in [Sessions -> Lease \cup {None}]
    BY <1>2
  <2> QED
    BY <1>2, <1>3, <2>1 DEF PoolType
<1>6. HoldWaiters(e)
  BY <1>1, <1>4 DEF HoldWaiters
<1>7. Distinct(e)
  BY <1>1, <1>4 DEF Distinct
<1>8. AreQueued(e)
  BY <1>1, <1>4 DEF AreQueued
<1>9. Staffed(e, workers)
  BY <1>1, <1>4 DEF Staffed
<1>10. Named(e, workers)
  BY <1>1, <1>2, <1>4 DEF Named
<1> QED
  BY <1>4, <1>5, <1>6, <1>7, <1>8, <1>9, <1>10, Zenon DEF PoolOK

(* So does a release.                                                      *)
LEMMA ReleasedOK ==
    ASSUME PoolAssumption, workers \in [Resources -> Workers \cup {None}],
           NEW p, PoolOK(p, workers), NEW s \in Sessions
    PROVE  /\ PoolOK(Released(p, s), workers)
           /\ SameLoads(p.calls, Released(p, s).calls)
<1> DEFINE e == [p EXCEPT !.leases[s] = None]
           r == p.leases[s].resource
<1>1. CASE p.leases[s] = None
  <2>1. Released(p, s) = p
    BY <1>1 DEF Released
  <2> QED
    BY <2>1 DEF SameLoads
<1>2. CASE p.leases[s] # None
  <2>1. p \in PoolType
    BY DEF PoolOK
  <2>2. p.leases[s] \in Lease /\ r \in Resources
    BY <1>2, <2>1 DEF PoolType, Lease
  <2>4. PoolOK(e, workers) /\ e.queues = p.queues /\ e.calls = p.calls
    BY LeaseDroppedOK
  <2>5. Released(p, s) = Dispatched(e, r)
    BY <1>2 DEF Released
  <2> HIDE DEF e, r
  <2>7. PoolOK(Dispatched(e, r), workers) /\ SameLoads(e.calls, Dispatched(e, r).calls)
    BY <2>2, <2>4, DispatchedOK
  <2> QED
    BY <2>4, <2>5, <2>7
<1> QED
  BY <1>1, <1>2

(* An idle call stays idle through a release, and so does a loading one.   *)
(* The tail of acquire takes such a call: it gets the lease or joins the   *)
(* queue, where it was not before.                                         *)
LEMMA LeasedOrQueuedOK ==
    ASSUME PoolAssumption, NEW ws \in [Resources -> Workers \cup {None}],
           NEW p, PoolOK(p, ws),
           NEW c \in Calls, NEW s \in Sessions, NEW r \in Resources,
           p.calls[c].status \in {"idle", "loading"}, ws[r] # None
    PROVE  LET l == LeasedOrQueued(p, c, s, r, ws[r])
           IN  /\ PoolOK(l, ws)
               /\ \A d \in Calls : d # c => l.calls[d] = p.calls[d]
               /\ l.calls[c].status \in {"idle", "queued"}
<1> DEFINE l == LeasedOrQueued(p, c, s, r, ws[r])
           k == CallOf(s, r, "queued")
           q == p.queues[r]
<1>1. /\ p \in PoolType /\ HoldWaiters(p) /\ Distinct(p) /\ AreQueued(p) /\ Named(p, ws) /\ Staffed(p, ws)
      /\ p.leases \in [Sessions -> Lease \cup {None}]
      /\ p.queues \in [Resources -> Seq(Calls)]
      /\ p.calls \in [Calls -> ActiveCall \cup {IdleCall}]
  BY DEF PoolOK, PoolType
<1>2. k \in ActiveCall /\ k.status = "queued" /\ k.resource = r /\ IdleCall.status = "idle"
  BY DEF CallOf, ActiveCall, Statuses, IdleCall
<1>3. NewLease(r, ws[r]) \in Lease /\ NewLease(r, ws[r]).resource = r /\ NewLease(r, ws[r]).worker = ws[r]
  BY DEF NewLease, Lease
<1>4. \A x \in Resources : \A i \in 1..Len(p.queues[x]) : p.queues[x][i] \in Calls /\ p.queues[x][i] # c
  <2>1. TAKE x \in Resources
  <2>2. TAKE i \in 1..Len(p.queues[x])
  <2>3. p.queues[x][i] \in Calls
    BY <1>1
  <2>4. p.calls[p.queues[x][i]].status \in Waiting
    BY <1>1 DEF HoldWaiters
  <2> QED
    BY <2>3, <2>4 DEF Waiting
<1>5. CASE Busy(p, ws[r])
  <2>1. l = [leases |-> p.leases,
             queues |-> [p.queues EXCEPT ![r] = Append(q, c)],
             calls  |-> [p.calls EXCEPT ![c] = k]]
    BY <1>1, <1>5 DEF LeasedOrQueued, PoolType
  <2>2. q \in Seq(Calls) /\ Len(q) \in Nat
    BY <1>1
  <2>3. /\ Append(q, c) \in Seq(Calls) /\ Len(Append(q, c)) = Len(q) + 1
        /\ \A i \in 1..Len(q) : Append(q, c)[i] = q[i]
        /\ Append(q, c)[Len(q) + 1] = c
    BY <2>2
  <2> DEFINE lq == l.queues
             lc == l.calls
  <2>4. /\ \A x \in Resources : x # r => lq[x] = p.queues[x]
        /\ lq[r] = Append(q, c)
        /\ \A d \in Calls : d # c => lc[d] = p.calls[d]
        /\ lc[c] = k
        /\ l.leases = p.leases
    BY <1>1, <2>1
  <2>5. l \in PoolType
    <3>1. [p.queues EXCEPT ![r] = Append(q, c)] \in [Resources -> Seq(Calls)]
      BY <1>1, <2>3
    <3>2. [p.calls EXCEPT ![c] = k] \in [Calls -> ActiveCall \cup {IdleCall}]
      BY <1>1, <1>2
    <3> HIDE DEF k, q, l
    <3> QED
      BY <1>1, <2>1, <3>1, <3>2 DEF PoolType
  <2> HIDE DEF l, k, lq, lc, q
  <2>6. \A i \in 1..Len(lq[r]) : IF i = Len(q) + 1 THEN lq[r][i] = c
                                 ELSE i \in 1..Len(q) /\ lq[r][i] = q[i]
    BY <2>2, <2>3, <2>4
  <2>7. \A i \in 1..Len(q) : q[i] \in Calls /\ q[i] # c
    BY <1>4 DEF q
  <2>8. HoldWaiters(l)
    <3>1. ASSUME NEW x \in Resources, NEW i \in 1..Len(lq[x])
          PROVE  lc[lq[x][i]].resource = x /\ lc[lq[x][i]].status \in Waiting
      <4>1. CASE x # r
        <5>1. i \in 1..Len(p.queues[x]) /\ lq[x][i] = p.queues[x][i]
          BY <2>4, <3>1, <4>1
        <5>2. lc[lq[x][i]] = p.calls[p.queues[x][i]]
          BY <1>4, <2>4, <5>1
        <5> QED
          BY <1>1, <5>1, <5>2 DEF HoldWaiters
      <4>2. CASE x = r /\ i = Len(q) + 1
        BY <1>2, <2>4, <2>6, <4>2 DEF Waiting
      <4>3. CASE x = r /\ i # Len(q) + 1
        <5>1. i \in 1..Len(q) /\ lq[x][i] = q[i]
          BY <2>6, <4>3
        <5>2. lc[lq[x][i]] = p.calls[q[i]]
          BY <2>4, <2>7, <5>1
        <5>3. p.calls[q[i]].resource = r /\ p.calls[q[i]].status \in Waiting
          BY <1>1, <5>1 DEF HoldWaiters, q
        <5> QED
          BY <4>3, <5>2, <5>3
      <4> QED
        BY <4>1, <4>2, <4>3
    <3> QED
      BY <3>1, Zenon DEF HoldWaiters, lq, lc
  <2>9. Distinct(l)
    <3>1. ASSUME NEW x \in Resources, NEW i \in 1..Len(lq[x]), NEW j \in 1..Len(lq[x]), lq[x][i] = lq[x][j]
          PROVE  i = j
      <4>1. CASE x # r
        BY <1>1, <2>4, <3>1, <4>1 DEF Distinct
      <4>2. CASE x = r
        <5>1. \A a, b \in 1..Len(q) : q[a] = q[b] => a = b
          BY <1>1 DEF Distinct, q
        <5> QED
          BY <2>6, <2>7, <3>1, <4>2, <5>1
      <4> QED
        BY <4>1, <4>2
    <3> QED
      BY <3>1, Zenon DEF Distinct, lq
  <2>10. AreQueued(l)
    <3>1. SUFFICES ASSUME NEW d \in Calls, lc[d].status \in {"queued", "abandoned"}
                   PROVE  \E i \in 1..Len(lq[lc[d].resource]) : lq[lc[d].resource][i] = d
      BY Zenon DEF AreQueued, lq, lc
    <3>2. CASE d = c
      <4>1. lc[d].resource = r
        BY <1>2, <2>4, <3>2
      <4>2. Len(q) + 1 \in 1..Len(lq[r]) /\ lq[r][Len(q) + 1] = c
        BY <2>2, <2>3, <2>4
      <4> QED
        BY <3>2, <4>1, <4>2, Zenon
    <3>3. CASE d # c
      <4>1. lc[d] = p.calls[d]
        BY <2>4, <3>3
      <4>2. PICK i \in 1..Len(p.queues[p.calls[d].resource]) : p.queues[p.calls[d].resource][i] = d
        BY <1>1, <3>1, <4>1, Zenon DEF AreQueued
      <4>3. p.calls[d].resource \in Resources
        BY <1>1, <3>1, <4>1, ActiveCallType
      <4>4. CASE p.calls[d].resource # r
        BY <2>4, <4>1, <4>2, <4>3, <4>4
      <4>5. CASE p.calls[d].resource = r
        <5>1. i \in 1..Len(q) /\ q[i] = d
          BY <4>2, <4>5 DEF q
        <5>2. i \in 1..Len(lq[r]) /\ lq[r][i] = d
          BY <2>2, <2>3, <2>4, <5>1
        <5> QED
          BY <4>1, <4>5, <5>2, Zenon
      <4> QED
        BY <4>4, <4>5
    <3> QED
      BY <3>2, <3>3
  <2>11. Named(l, ws)
    BY <1>1, <2>4 DEF Named
  <2>12. Staffed(l, ws)
    BY <1>1, <2>4 DEF Staffed, lq
  <2> QED
    BY <1>2, <2>4, <2>5, <2>8, <2>9, <2>10, <2>11, <2>12 DEF PoolOK, l, lc
<1>6. CASE ~Busy(p, ws[r])
  <2>1. l = [leases |-> [p.leases EXCEPT ![s] = NewLease(r, ws[r])],
             queues |-> p.queues,
             calls  |-> [p.calls EXCEPT ![c] = IdleCall]]
    BY <1>1, <1>6 DEF LeasedOrQueued, PoolType
  <2> HIDE DEF l
  <2>2. /\ l.queues = p.queues
        /\ l.leases[s] = NewLease(r, ws[r])
        /\ \A t \in Sessions : t # s => l.leases[t] = p.leases[t]
        /\ \A d \in Calls : d # c => l.calls[d] = p.calls[d]
        /\ l.calls[c] = IdleCall
    BY <1>1, <2>1
  <2>3. l \in PoolType
    <3>1. [p.leases EXCEPT ![s] = NewLease(r, ws[r])] \in [Sessions -> Lease \cup {None}]
      BY <1>1, <1>3
    <3>2. [p.calls EXCEPT ![c] = IdleCall] \in [Calls -> ActiveCall \cup {IdleCall}]
      BY <1>1
    <3> QED
      BY <1>1, <2>1, <3>1, <3>2 DEF PoolType
  <2>4. HoldWaiters(l)
    BY <1>1, <1>4, <2>2 DEF HoldWaiters
  <2>5. Distinct(l)
    BY <1>1, <2>2 DEF Distinct
  <2>6. AreQueued(l)
    BY <1>1, <1>2, <2>2 DEF AreQueued
  <2>7. Named(l, ws)
    BY <1>1, <1>3, <2>2 DEF Named
  <2>8. Staffed(l, ws)
    BY <1>1, <2>2 DEF Staffed
  <2> QED
    BY <1>2, <2>2, <2>3, <2>4, <2>5, <2>6, <2>7, <2>8 DEF PoolOK, l
<1> QED
  BY <1>5, <1>6

(* One call changes its status: allowed if a call that is in a queue stays *)
(* a waiter of that queue, and a call that waits is in a queue.            *)
LEMMA OneCallOK ==
    ASSUME NEW ws, NEW p, PoolOK(p, ws), NEW c \in Calls, NEW k \in ActiveCall \cup {IdleCall},
           \A r \in Resources : \A i \in 1..Len(p.queues[r]) :
               p.queues[r][i] = c => k.resource = r /\ k.status \in Waiting,
           k.status \in {"queued", "abandoned"} =>
               \E i \in 1..Len(p.queues[k.resource]) : p.queues[k.resource][i] = c
    PROVE  /\ PoolOK([p EXCEPT !.calls[c] = k], ws)
           /\ [p EXCEPT !.calls[c] = k] = [leases |-> p.leases, queues |-> p.queues,
                                           calls |-> [p.calls EXCEPT ![c] = k]]
<1> DEFINE e == [leases |-> p.leases, queues |-> p.queues, calls |-> [p.calls EXCEPT ![c] = k]]
<1>1. /\ p \in PoolType /\ HoldWaiters(p) /\ Distinct(p) /\ AreQueued(p) /\ Named(p, ws) /\ Staffed(p, ws)
      /\ p.leases \in [Sessions -> Lease \cup {None}]
      /\ p.queues \in [Resources -> Seq(Calls)]
      /\ p.calls \in [Calls -> ActiveCall \cup {IdleCall}]
  BY DEF PoolOK, PoolType
<1>2. [p EXCEPT !.calls[c] = k] = e
  <2>1. /\ p = [leases |-> p.leases, queues |-> p.queues, calls |-> p.calls]
        /\ p.calls \in [Calls -> ActiveCall \cup {IdleCall}]
    BY <1>1 DEF PoolType
  <2> QED
    BY <2>1
<1>3. /\ e.leases = p.leases /\ e.queues = p.queues
      /\ e.calls[c] = k /\ \A d \in Calls : d # c => e.calls[d] = p.calls[d]
      /\ e.calls \in [Calls -> ActiveCall \cup {IdleCall}]
      /\ e = [leases |-> e.leases, queues |-> e.queues, calls |-> e.calls]
  BY <1>1
<1> HIDE DEF e
<1>4. e \in PoolType
  BY <1>1, <1>3 DEF PoolType
<1>5. HoldWaiters(e)
  <2>1. ASSUME NEW r \in Resources, NEW i \in 1..Len(p.queues[r])
        PROVE  e.calls[p.queues[r][i]].resource = r /\ e.calls[p.queues[r][i]].status \in Waiting
    <3>1. p.queues[r][i] \in Calls
      BY <1>1
    <3>2. CASE p.queues[r][i] = c
      BY <1>3, <3>2
    <3>3. CASE p.queues[r][i] # c
      BY <1>1, <1>3, <3>1, <3>3 DEF HoldWaiters
    <3> QED
      BY <3>2, <3>3
  <2> QED
    BY <1>3, <2>1 DEF HoldWaiters
<1>6. Distinct(e) /\ Named(e, ws) /\ Staffed(e, ws)
  BY <1>1, <1>3 DEF Distinct, Named, Staffed
<1>7. AreQueued(e)
  <2>1. ASSUME NEW d \in Calls, e.calls[d].status \in {"queued", "abandoned"}
        PROVE  \E i \in 1..Len(p.queues[e.calls[d].resource]) : p.queues[e.calls[d].resource][i] = d
    <3>1. CASE d = c
      BY <1>3, <2>1, <3>1
    <3>2. CASE d # c
      BY <1>1, <1>3, <2>1, <3>2 DEF AreQueued
    <3> QED
      BY <3>1, <3>2
  <2> QED
    BY <1>3, <2>1 DEF AreQueued
<1> QED
  BY <1>2, <1>4, <1>5, <1>6, <1>7 DEF PoolOK, e

-----------------------------------------------------------------------------
(* The tables of workers, and the load in flight.                          *)

TablesOK(ws, o) ==
    /\ ws \in [Resources -> Workers \cup {None}]
    /\ o \in SUBSET (Resources \X Resources)
    /\ \A r, q \in Resources : ws[r] # None /\ ws[r] = ws[q] => r = q
    /\ \A r, q \in Resources :
          (<<r, q>> \in o \/ <<q, r>> \in o) <=> (r # q /\ ws[r] # None /\ ws[q] # None)

(* One call holds the lock while it loads, and what it loads has no worker *)
(* until it is done.                                                       *)
LoaderOK ==
    /\ \A c \in Calls : calls[c].status = "loading" <=> loader = c
    /\ loader # None => phase # "starting" /\ workers[calls[loader].resource] = None

LoadsOK ==
    /\ phase \in {"starting", "running", "stopped"}
    /\ loader \in Calls \cup {None}
    /\ reaping \in SUBSET Sessions
    /\ LoaderOK

IInv ==
    /\ PoolOK(Pool, workers)
    /\ TablesOK(workers, older)
    /\ LoadsOK

(* The inductive invariant is the conjunction of the properties.           *)
LEMMA IInvImplies ==
    ASSUME IInv
    PROVE  /\ TypeOK
           /\ QueueDiscipline
           /\ WaitersHaveWorker
           /\ WorkerTablesAgree
           /\ LoaderOK
<1>1. /\ Pool.leases = leases /\ Pool.queues = queues /\ Pool.calls = calls
      /\ Pool \in PoolType /\ HoldWaiters(Pool) /\ Distinct(Pool) /\ AreQueued(Pool)
      /\ Named(Pool, workers) /\ Staffed(Pool, workers)
  BY DEF IInv, PoolOK, Pool
<1>2. TypeOK
  BY <1>1 DEF IInv, PoolType, TablesOK, LoadsOK, TypeOK
<1>3. QueuesHoldWaiters
  BY <1>1 DEF QueuesHoldWaiters, HoldWaiters, Distinct, Waiting
<1>4. WaitersAreQueued
  <2>1. SUFFICES ASSUME NEW c \in Calls, calls[c].status \in {"queued", "abandoned"}
                 PROVE  InQueue(c, calls[c].resource)
    BY DEF WaitersAreQueued
  <2>2. calls[c].resource \in Resources
    BY <1>2, <2>1, ActiveCallType DEF TypeOK
  <2>3. DOMAIN queues[calls[c].resource] = 1..Len(queues[calls[c].resource])
    BY <1>2, <2>2 DEF TypeOK
  <2> QED
    BY <1>1, <2>1, <2>3 DEF AreQueued, InQueue
<1>5. WaitersHaveWorker
  BY <1>1 DEF WaitersHaveWorker, Staffed
<1>6. WorkerTablesAgree
  BY <1>1 DEF WorkerTablesAgree, Named, IInv, TablesOK
<1> QED
  BY <1>2, <1>3, <1>4, <1>5, <1>6 DEF QueueDiscipline, IInv, LoadsOK

(* It holds at first.                                                      *)
LEMMA InitIInv ==
    ASSUME PoolAssumption, Init
    PROVE  IInv
<1>1. Pool \in PoolType
  BY DEF Init, Pool, PoolType
<1>2. /\ \A r \in Resources : Len(queues[r]) = 0 /\ queues[r] = <<>> /\ workers[r] = None
      /\ \A s \in Sessions : leases[s] = None
      /\ \A c \in Calls : calls[c].status = "idle"
  BY DEF Init, IdleCall
<1>3. PoolOK(Pool, workers)
  <2>1. \A r \in Resources : 1..Len(queues[r]) = {}
    BY <1>2
  <2> QED
    BY <1>1, <1>2, <2>1 DEF PoolOK, Pool, HoldWaiters, Distinct, AreQueued, Named, Staffed
<1>4. TablesOK(workers, older)
  BY DEF Init, TablesOK
<1>5. LoadsOK
  BY <1>2 DEF PoolAssumption, Init, LoadsOK, LoaderOK
<1> QED
  BY <1>3, <1>4, <1>5 DEF IInv

(* A step that rewrites the pool's record and leaves the workers and the   *)
(* loading call alone.                                                     *)
LEMMA InstallOK ==
    ASSUME IInv, NEW p, PoolOK(p, workers), Install(p),
           phase' = phase, workers' = workers, older' = older, loader' = loader,
           reaping' \in SUBSET Sessions,
           \A c \in Calls : /\ calls[c].status = "loading" <=> p.calls[c].status = "loading"
                            /\ calls[c].status = "loading" => p.calls[c] = calls[c]
    PROVE  IInv'
<1>1. p = [leases |-> p.leases, queues |-> p.queues, calls |-> p.calls]
  BY DEF PoolOK, PoolType
<1>2. Pool' = p
  BY <1>1 DEF Pool, Install
<1>3. LoadsOK'
  BY DEF IInv, LoadsOK, LoaderOK, Install
<1> QED
  BY <1>2, <1>3 DEF IInv

-----------------------------------------------------------------------------
(* Every action preserves the invariant.                                   *)

LEMMA ReleasedPool ==
    ASSUME PoolAssumption, IInv, NEW s \in Sessions
    PROVE  /\ PoolOK(Released(Pool, s), workers)
           /\ SameLoads(calls, Released(Pool, s).calls)
<1>1. PoolOK(Pool, workers) /\ workers \in [Resources -> Workers \cup {None}]
  BY DEF IInv, TablesOK
<1>2. Pool.calls = calls
  BY DEF Pool
<1> QED
  BY <1>1, <1>2, ReleasedOK

(* A lease's deadline moves, and nothing else.                             *)
LEMMA DeadlineMoves ==
    ASSUME PoolAssumption, IInv, NEW s \in Sessions, leases[s] # None, NEW b \in BOOLEAN,
           leases' = [leases EXCEPT ![s].expired = b],
           UNCHANGED <<phase, workers, older, queues, calls, loader, reaping>>
    PROVE  IInv'
<1> DEFINE p == [leases |-> leases', queues |-> queues, calls |-> calls]
<1>1. PoolOK(Pool, workers) /\ Pool.leases = leases /\ Pool.queues = queues /\ Pool.calls = calls
  BY DEF IInv, Pool
<1>2. /\ leases \in [Sessions -> Lease \cup {None}]
      /\ queues \in [Resources -> Seq(Calls)]
      /\ calls \in [Calls -> ActiveCall \cup {IdleCall}]
  BY <1>1 DEF PoolOK, PoolType
<1>3. leases[s] \in Lease
  BY <1>2
<1>4. leases' = [leases EXCEPT ![s] = [leases[s] EXCEPT !.expired = b]]
  OBVIOUS
<1>5. /\ [leases[s] EXCEPT !.expired = b] \in Lease
      /\ [leases[s] EXCEPT !.expired = b].resource = leases[s].resource
      /\ [leases[s] EXCEPT !.expired = b].worker = leases[s].worker
  BY <1>3 DEF Lease
<1>6. /\ leases' \in [Sessions -> Lease \cup {None}]
      /\ \A t \in Sessions : leases'[t] # None => /\ leases[t] # None
                                                  /\ leases'[t].resource = leases[t].resource
                                                  /\ leases'[t].worker = leases[t].worker
  <2>1. leases' \in [Sessions -> Lease \cup {None}]
    BY <1>2, <1>4, <1>5
  <2>2. leases'[s] = [leases[s] EXCEPT !.expired = b] /\ \A t \in Sessions : t # s => leases'[t] = leases[t]
    BY <1>2, <1>4
  <2> QED
    BY <1>5, <2>1, <2>2
<1>7. p \in PoolType /\ p.leases = leases' /\ p.queues = queues /\ p.calls = calls
  BY <1>2, <1>6 DEF PoolType
<1> HIDE DEF p
<1>8. PoolOK(p, workers)
  BY <1>1, <1>6, <1>7 DEF PoolOK, HoldWaiters, Distinct, AreQueued, Named, Staffed
<1>9. Install(p) /\ reaping' \in SUBSET Sessions
  BY <1>7 DEF Install, IInv, LoadsOK
<1> QED
  BY <1>7, <1>8, <1>9, InstallOK

(* A worker is added for a resource that has none.                         *)
LEMMA AddWorkerOK ==
    ASSUME PoolAssumption, PoolOK(Pool, workers), TablesOK(workers, older),
           NEW r \in Resources, workers[r] = None, NEW w \in FreshWorkers, AddWorker(r, w)
    PROVE  /\ TablesOK(workers', older')
           /\ workers'[r] # None
           /\ workers'[r] = w
           /\ PoolOK(Pool, workers')
<1>1. /\ w \in Workers /\ w # None
      /\ \A q \in Resources : workers[q] # w
  BY DEF FreshWorkers, PoolAssumption
<1>2. /\ workers \in [Resources -> Workers \cup {None}]
      /\ older \in SUBSET (Resources \X Resources)
      /\ workers' = [workers EXCEPT ![r] = w]
      /\ older' = older \cup {<<a, r>> : a \in Loaded}
  BY DEF TablesOK, AddWorker
<1>3. /\ workers' \in [Resources -> Workers \cup {None}]
      /\ workers'[r] = w
      /\ \A q \in Resources : q # r => workers'[q] = workers[q]
  BY <1>1, <1>2
<1>4. Loaded = {q \in Resources : workers[q] # None}
  BY DEF Loaded
<1>5. TablesOK(workers', older')
  <2>1. older' \in SUBSET (Resources \X Resources)
    BY <1>2, <1>4
  <2>2. \A x, y \in Resources : workers'[x] # None /\ workers'[x] = workers'[y] => x = y
    BY <1>1, <1>3 DEF TablesOK
  <2>3. ASSUME NEW x \in Resources, NEW y \in Resources
        PROVE  (<<x, y>> \in older' \/ <<y, x>> \in older')
                  <=> (x # y /\ workers'[x] # None /\ workers'[y] # None)
    <3>1. (<<x, y>> \in older \/ <<y, x>> \in older) <=> (x # y /\ workers[x] # None /\ workers[y] # None)
      BY DEF TablesOK
    <3>2. /\ <<x, y>> \in older' <=> <<x, y>> \in older \/ (y = r /\ workers[x] # None)
          /\ <<y, x>> \in older' <=> <<y, x>> \in older \/ (x = r /\ workers[y] # None)
      BY <1>2, <1>4
    <3> QED
      BY <1>1, <1>3, <3>1, <3>2
  <2> QED
    BY <1>3, <2>1, <2>2, <2>3, Zenon DEF TablesOK
<1>6. PoolOK(Pool, workers')
  <2>1. \A s \in Sessions : Pool.leases[s] # None =>
            /\ Pool.leases[s].resource \in Resources
            /\ Pool.leases[s].worker \in Workers
    BY DEF PoolOK, PoolType, Lease
  <2>2. Named(Pool, workers')
    BY <1>3, <2>1 DEF PoolOK, Named, PoolAssumption
  <2>3. Staffed(Pool, workers')
    BY <1>3 DEF PoolOK, Staffed
  <2> QED
    BY <2>2, <2>3 DEF PoolOK
<1> QED
  BY <1>1, <1>3, <1>5, <1>6

(* Workers nobody holds or waits for are removed.                          *)
LEMMA UnloadOK ==
    ASSUME IInv, loader = None, NEW E \in SUBSET Resources,
           \A r \in E : Evictable(r), Unload(E),
           UNCHANGED <<phase, leases, queues, calls, loader, reaping>>
    PROVE  IInv'
<1>1. /\ workers \in [Resources -> Workers \cup {None}]
      /\ older \in SUBSET (Resources \X Resources)
      /\ workers' = [r \in Resources |-> IF r \in E THEN None ELSE workers[r]]
      /\ older' = {x \in older : x[1] \notin E /\ x[2] \notin E}
  BY DEF IInv, TablesOK, Unload
<1>2. /\ workers' \in [Resources -> Workers \cup {None}]
      /\ \A r \in Resources : workers'[r] = IF r \in E THEN None ELSE workers[r]
  BY <1>1
<1>3. TablesOK(workers', older')
  <2>1. older' \in SUBSET (Resources \X Resources)
    BY <1>1
  <2>2. \A x, y \in Resources : workers'[x] # None /\ workers'[x] = workers'[y] => x = y
    BY <1>2 DEF IInv, TablesOK
  <2>3. ASSUME NEW x \in Resources, NEW y \in Resources
        PROVE  (<<x, y>> \in older' \/ <<y, x>> \in older')
                  <=> (x # y /\ workers'[x] # None /\ workers'[y] # None)
    <3>1. (<<x, y>> \in older \/ <<y, x>> \in older) <=> (x # y /\ workers[x] # None /\ workers[y] # None)
      BY DEF IInv, TablesOK
    <3>2. /\ <<x, y>> \in older' <=> <<x, y>> \in older /\ x \notin E /\ y \notin E
          /\ <<y, x>> \in older' <=> <<y, x>> \in older /\ x \notin E /\ y \notin E
      BY <1>1
    <3> QED
      BY <1>2, <3>1, <3>2
  <2> QED
    BY <1>2, <2>1, <2>2, <2>3, Zenon DEF TablesOK
<1>4. PoolOK(Pool, workers')
  <2>1. PoolOK(Pool, workers) /\ Pool.leases = leases /\ Pool.queues = queues
    BY DEF IInv, Pool
  <2>2. \A r \in E : queues[r] = <<>> /\ \A s \in Sessions : leases[s] # None => leases[s].resource # r
    BY DEF Evictable, HoldsLeaseOn
  <2>3. \A s \in Sessions : leases[s] # None => leases[s].resource \in Resources
    BY <2>1 DEF PoolOK, PoolType, Lease
  <2>4. Named(Pool, workers')
    BY <1>2, <2>1, <2>2, <2>3 DEF PoolOK, Named
  <2>5. Staffed(Pool, workers')
    BY <1>2, <2>1, <2>2 DEF PoolOK, Staffed
  <2> QED
    BY <2>1, <2>4, <2>5 DEF PoolOK
<1>5. Pool' = Pool
  BY DEF Pool
<1>6. LoadsOK'
  BY DEF IInv, LoadsOK, LoaderOK
<1> QED
  BY <1>3, <1>4, <1>5, <1>6 DEF IInv

(* What an acquire that takes the lock finds.                              *)
LEMMA AcquiringCall ==
    ASSUME PoolAssumption, IInv, NEW c \in Calls, NEW s, MayAcquire(c, s)
    PROVE  /\ calls[c] = IdleCall
           /\ \A d \in Calls : calls[d].status # "loading"
           /\ loader = None /\ phase # "starting"
<1>1. calls[c] \in ActiveCall \cup {IdleCall} /\ calls[c].status = "idle"
  BY DEF IInv, PoolOK, PoolType, Pool, MayAcquire
<1>2. calls[c] = IdleCall
  BY <1>1 DEF ActiveCall, Statuses
<1>3. loader = None /\ phase # "starting"
  BY DEF MayAcquire
<1> QED
  BY <1>2, <1>3, IInvImplies DEF LoaderOK, PoolAssumption

LEMMA AcquireRenewsOK ==
    ASSUME PoolAssumption, IInv, NEW c \in Calls, NEW s \in Sessions, NEW r \in Resources,
           AcquireRenews(c, s, r)
    PROVE  IInv'
BY DeadlineMoves DEF AcquireRenews, HoldsLeaseOn

LEMMA AcquireLoadedOK ==
    ASSUME PoolAssumption, IInv, NEW c \in Calls, NEW s \in Sessions, NEW r \in Resources,
           AcquireLoaded(c, s, r)
    PROVE  IInv'
<1> DEFINE p == Released(Pool, s)
           l == LeasedOrQueued(p, c, s, r, workers[r])
<1>1. /\ MayAcquire(c, s) /\ workers[r] # None /\ Install(l)
      /\ UNCHANGED <<phase, workers, older, loader, reaping>>
  BY DEF AcquireLoaded
<1>2. PoolOK(p, workers) /\ SameLoads(calls, p.calls)
  BY ReleasedPool
<1>3. calls[c] = IdleCall /\ \A d \in Calls : calls[d].status # "loading"
  BY <1>1, AcquiringCall
<1> HIDE DEF p
<1>4. p.calls[c].status \in {"idle", "loading"} /\ \A d \in Calls : p.calls[d].status # "loading"
  BY <1>2, <1>3 DEF SameLoads, IdleCall
<1>5. workers \in [Resources -> Workers \cup {None}]
  BY DEF IInv, TablesOK
<1>6. /\ PoolOK(l, workers)
      /\ \A d \in Calls : d # c => l.calls[d] = p.calls[d]
      /\ l.calls[c].status \in {"idle", "queued"}
  BY <1>1, <1>2, <1>4, <1>5, LeasedOrQueuedOK
<1> HIDE DEF l
<1>7. \A d \in Calls : l.calls[d].status # "loading"
  BY <1>4, <1>6
<1>8. reaping' \in SUBSET Sessions
  BY <1>1 DEF IInv, LoadsOK
<1> QED
  BY <1>1, <1>3, <1>6, <1>7, <1>8, InstallOK

LEMMA ReleasingOK ==
    ASSUME PoolAssumption, IInv, NEW s \in Sessions, Install(Released(Pool, s)),
           UNCHANGED <<phase, workers, older, loader>>, reaping' \in SUBSET Sessions
    PROVE  IInv'
<1>1. PoolOK(Released(Pool, s), workers) /\ SameLoads(calls, Released(Pool, s).calls)
  BY ReleasedPool
<1> QED
  BY <1>1, InstallOK DEF SameLoads

(* A loading call is in no queue.                                          *)
LEMMA AcquireLoadsOK ==
    ASSUME PoolAssumption, IInv, NEW c \in Calls, NEW s \in Sessions, NEW r \in Resources,
           AcquireLoads(c, s, r)
    PROVE  IInv'
<1> DEFINE p == Released(Pool, s)
           k == CallOf(s, r, "loading")
           e == [p EXCEPT !.calls[c] = k]
<1>1. /\ MayAcquire(c, s) /\ workers[r] = None /\ Install(e) /\ loader' = c
      /\ UNCHANGED <<phase, workers, older, reaping>>
  BY DEF AcquireLoads
<1>2. PoolOK(p, workers) /\ SameLoads(calls, p.calls)
  BY ReleasedPool
<1>3. calls[c] = IdleCall /\ phase # "starting" /\ \A d \in Calls : calls[d].status # "loading"
  BY <1>1, AcquiringCall
<1> HIDE DEF p
<1>4. p.calls[c] = IdleCall /\ \A d \in Calls : p.calls[d].status # "loading"
  BY <1>2, <1>3 DEF SameLoads, IdleCall
<1>5. k \in ActiveCall /\ k.status = "loading" /\ k.resource = r
  BY DEF CallOf, ActiveCall, Statuses
<1>6. \A x \in Resources : \A i \in 1..Len(p.queues[x]) : p.queues[x][i] # c
  BY <1>2, <1>4 DEF PoolOK, HoldWaiters, Waiting, IdleCall
<1> HIDE DEF k
<1>7. /\ PoolOK(e, workers)
      /\ e = [leases |-> p.leases, queues |-> p.queues, calls |-> [p.calls EXCEPT ![c] = k]]
  BY <1>2, <1>5, <1>6, OneCallOK
<1>8. p.calls \in [Calls -> ActiveCall \cup {IdleCall}]
  BY <1>2 DEF PoolOK, PoolType
<1>9. /\ calls' = [p.calls EXCEPT ![c] = k]
      /\ Pool' = e
  BY <1>1, <1>7 DEF Install, Pool
<1> HIDE DEF e
<1>10. LoadsOK'
  <2>1. \A d \in Calls : calls'[d].status = "loading" <=> c = d
    BY <1>4, <1>5, <1>8, <1>9
  <2>2. calls'[c].resource = r
    BY <1>5, <1>8, <1>9
  <2> QED
    BY <1>1, <1>3, <2>1, <2>2 DEF IInv, LoadsOK, LoaderOK
<1> QED
  BY <1>1, <1>7, <1>9, <1>10 DEF IInv

(* What the call that loads is doing.                                      *)
LEMMA LoadingCall ==
    ASSUME PoolAssumption, IInv, NEW c \in Calls, loader = c
    PROVE  /\ calls[c] \in ActiveCall /\ calls[c].status = "loading"
           /\ calls[c].session \in Sessions /\ calls[c].resource \in Resources
           /\ workers[calls[c].resource] = None
           /\ \A d \in Calls : d # c => calls[d].status # "loading"
<1>1. calls[c].status = "loading"
  BY IInvImplies DEF LoaderOK
<1>2. calls[c] \in ActiveCall \cup {IdleCall}
  BY DEF IInv, PoolOK, PoolType, Pool
<1>3. loader # None
  BY DEF PoolAssumption
<1> QED
  BY <1>1, <1>2, <1>3, ActiveCallType, IInvImplies DEF LoaderOK

LEMMA LoadReturnsOK ==
    ASSUME PoolAssumption, IInv, NEW c \in Calls, LoadReturns(c)
    PROVE  IInv'
<1> DEFINE s == calls[c].session
           r == calls[c].resource
<1>1. /\ loader = c /\ loader' = None
      /\ UNCHANGED <<phase, reaping>>
  BY DEF LoadReturns
<1>2. PICK w \in FreshWorkers : AddWorker(r, w) /\ Install(LeasedOrQueued(Pool, c, s, r, w))
  BY DEF LoadReturns
<1>3. /\ calls[c].status = "loading"
      /\ s \in Sessions /\ r \in Resources
      /\ workers[r] = None
      /\ \A d \in Calls : d # c => calls[d].status # "loading"
  BY <1>1, LoadingCall
<1> DEFINE l == LeasedOrQueued(Pool, c, s, r, w)
<1> HIDE DEF s, r
<1>4. PoolOK(Pool, workers) /\ TablesOK(workers, older) /\ Pool.calls = calls
  BY DEF IInv, Pool
<1>5. TablesOK(workers', older') /\ workers'[r] # None /\ workers'[r] = w /\ PoolOK(Pool, workers')
  BY <1>2, <1>3, <1>4, AddWorkerOK
<1>6. workers' \in [Resources -> Workers \cup {None}]
  BY <1>5 DEF TablesOK
<1>7. /\ PoolOK(l, workers')
      /\ \A d \in Calls : d # c => l.calls[d] = calls[d]
      /\ l.calls[c].status \in {"idle", "queued"}
  BY <1>3, <1>4, <1>5, <1>6, LeasedOrQueuedOK
<1>8. Pool' = l
  <2>1. l = [leases |-> l.leases, queues |-> l.queues, calls |-> l.calls]
    BY <1>7 DEF PoolOK, PoolType
  <2> HIDE DEF l
  <2>2. leases' = l.leases /\ queues' = l.queues /\ calls' = l.calls
    BY <1>2 DEF Install, l
  <2> QED
    BY <2>1, <2>2 DEF Pool
<1> HIDE DEF l
<1>9. LoadsOK'
  <2>1. \A d \in Calls : calls'[d].status # "loading"
    <3>1. calls' = l.calls
      BY <1>2 DEF Install, l
    <3> QED
      BY <1>3, <1>7, <3>1
  <2>2. \A d \in Calls : loader' # d
    BY <1>1 DEF PoolAssumption
  <2> QED
    BY <1>1, <2>1, <2>2 DEF IInv, LoadsOK, LoaderOK
<1> QED
  BY <1>5, <1>7, <1>8, <1>9 DEF IInv

(* One call of the state changes its status.                               *)
LEMMA CallPoolOK ==
    ASSUME IInv, NEW c \in Calls, NEW k \in ActiveCall \cup {IdleCall},
           calls' = [calls EXCEPT ![c] = k], leases' = leases, queues' = queues,
           InQueue(c, calls[c].resource) => k.resource = calls[c].resource /\ k.status \in Waiting,
           k.status \in {"queued", "abandoned"} => InQueue(c, k.resource) /\ k.resource \in Resources
    PROVE  PoolOK(Pool', workers)
<1> DEFINE p == Pool
           e == [p EXCEPT !.calls[c] = k]
<1>1. /\ PoolOK(p, workers)
      /\ p.leases = leases /\ p.queues = queues /\ p.calls = calls
  BY DEF IInv, Pool
<1> HIDE DEF p
<1>2. /\ calls \in [Calls -> ActiveCall \cup {IdleCall}] /\ queues \in [Resources -> Seq(Calls)]
      /\ HoldWaiters(p)
  BY <1>1 DEF PoolOK, PoolType
<1>3. \A r \in Resources : DOMAIN queues[r] = 1..Len(queues[r])
  BY <1>2
<1>4. \A r \in Resources : \A i \in 1..Len(p.queues[r]) :
          p.queues[r][i] = c => k.resource = r /\ k.status \in Waiting
  <2>1. SUFFICES ASSUME NEW r \in Resources, NEW i \in 1..Len(queues[r]), queues[r][i] = c
                 PROVE  k.resource = r /\ k.status \in Waiting
    BY <1>1
  <2>2. calls[c].resource = r
    BY <1>1, <1>2, <2>1 DEF HoldWaiters
  <2>3. InQueue(c, r)
    BY <1>3, <2>1 DEF InQueue
  <2> QED
    BY <2>2, <2>3
<1>5. k.status \in {"queued", "abandoned"} =>
          \E i \in 1..Len(p.queues[k.resource]) : p.queues[k.resource][i] = c
  BY <1>1, <1>3 DEF InQueue
<1>6. PoolOK(p, workers)
  BY <1>1
<1>7. /\ PoolOK(e, workers)
      /\ e = [leases |-> p.leases, queues |-> p.queues, calls |-> [p.calls EXCEPT ![c] = k]]
  BY <1>4, <1>5, <1>6, OneCallOK
<1>8. Pool' = e
  BY <1>1, <1>7 DEF Pool
<1> QED
  BY <1>7, <1>8

(* The load in flight does not notice.                                     *)
LEMMA CallChangesOK ==
    ASSUME IInv, NEW c \in Calls, NEW k \in ActiveCall \cup {IdleCall},
           calls' = [calls EXCEPT ![c] = k],
           UNCHANGED <<phase, workers, older, leases, queues, loader, reaping>>,
           calls[c].status # "loading", k.status # "loading",
           InQueue(c, calls[c].resource) => k.resource = calls[c].resource /\ k.status \in Waiting,
           k.status \in {"queued", "abandoned"} => InQueue(c, k.resource) /\ k.resource \in Resources
    PROVE  IInv'
<1>1. PoolOK(Pool', workers)
  BY CallPoolOK
<1>2. calls \in [Calls -> ActiveCall \cup {IdleCall}]
  BY DEF IInv, PoolOK, PoolType, Pool
<1>3. \A d \in Calls : /\ calls[d].status = "loading" <=> calls'[d].status = "loading"
                       /\ calls[d].status = "loading" => calls'[d] = calls[d]
  BY <1>2
<1>4. LoadsOK'
  BY <1>3 DEF IInv, LoadsOK, LoaderOK
<1> QED
  BY <1>1, <1>4 DEF IInv

(* The resource a waiting call names, and the queue it is in.              *)
LEMMA WaitingCall ==
    ASSUME IInv, NEW c \in Calls, calls[c].status # "idle"
    PROVE  /\ calls[c] \in ActiveCall /\ calls[c].resource \in Resources
           /\ InQueue(c, calls[c].resource) => calls[c].status \in Waiting
           /\ calls[c].status \in {"queued", "abandoned"} => InQueue(c, calls[c].resource)
<1>1. TypeOK /\ QueueDiscipline
  BY IInvImplies
<1>2. calls[c] \in ActiveCall /\ calls[c].resource \in Resources
  BY <1>1, ActiveCallType DEF TypeOK
<1>3. DOMAIN queues[calls[c].resource] = 1..Len(queues[calls[c].resource])
  BY <1>1, <1>2 DEF TypeOK
<1> QED
  BY <1>1, <1>2, <1>3 DEF QueueDiscipline, QueuesHoldWaiters, WaitersAreQueued, InQueue, Waiting

(* The load is over for its call, which becomes k.                         *)
LEMMA LoadEndsOK ==
    ASSUME PoolAssumption, IInv, NEW c \in Calls, loader = c, loader' = None,
           NEW k \in ActiveCall \cup {IdleCall}, k.status \notin Waiting \cup {"loading"},
           calls' = [calls EXCEPT ![c] = k],
           UNCHANGED <<phase, workers, older, leases, queues, reaping>>
    PROVE  IInv'
<1>1. calls[c].status = "loading" /\ \A d \in Calls : d # c => calls[d].status # "loading"
  BY LoadingCall
<1>2. ~InQueue(c, calls[c].resource)
  BY <1>1, WaitingCall DEF Waiting
<1>3. PoolOK(Pool', workers)
  BY <1>2, CallPoolOK DEF Waiting
<1>4. LoadsOK'
  <2>1. calls \in [Calls -> ActiveCall \cup {IdleCall}]
    BY DEF IInv, PoolOK, PoolType, Pool
  <2>2. \A d \in Calls : calls'[d].status # "loading" /\ loader' # d
    BY <1>1, <2>1 DEF PoolAssumption
  <2> QED
    BY <2>2 DEF IInv, LoadsOK, LoaderOK
<1> QED
  BY <1>3, <1>4 DEF IInv

LEMMA LoadFailsOK ==
    ASSUME PoolAssumption, IInv, NEW c \in Calls, LoadFails(c)
    PROVE  IInv'
<1>1. IdleCall \in ActiveCall \cup {IdleCall} /\ IdleCall.status = "idle"
  BY DEF IdleCall
<1> QED
  BY <1>1, LoadEndsOK DEF LoadFails, Waiting

LEMMA CancelLoadOK ==
    ASSUME PoolAssumption, IInv, NEW c \in Calls, CancelLoad(c)
    PROVE  IInv'
<1> DEFINE k == [calls[c] EXCEPT !.status = "detached"]
<1>1. calls[c] \in ActiveCall
  BY LoadingCall DEF CancelLoad
<1>2. k \in ActiveCall /\ k.status = "detached"
  BY <1>1 DEF CancelLoad, ActiveCall, Statuses, LeftBehind
<1>3. calls' = [calls EXCEPT ![c] = k]
  BY DEF CancelLoad
<1> HIDE DEF k
<1> QED
  BY <1>2, <1>3, LoadEndsOK DEF CancelLoad, Waiting

LEMMA ThreadEndsOK ==
    ASSUME PoolAssumption, IInv, NEW c \in Calls, ThreadEnds(c)
    PROVE  IInv'
<1>1. /\ calls[c].status = "detached"
      /\ calls' = [calls EXCEPT ![c] = IdleCall]
      /\ UNCHANGED <<phase, workers, older, leases, queues, loader, reaping>>
  BY DEF ThreadEnds
<1>2. ~InQueue(c, calls[c].resource)
  BY <1>1, WaitingCall DEF Waiting
<1>3. IdleCall \in ActiveCall \cup {IdleCall} /\ IdleCall.status = "idle"
  BY DEF IdleCall
<1> QED
  BY <1>1, <1>2, <1>3, CallChangesOK

LEMMA DeadlinePassesOK ==
    ASSUME PoolAssumption, IInv, NEW c \in Calls, DeadlinePasses(c)
    PROVE  IInv'
<1> DEFINE k == [calls[c] EXCEPT !.late = TRUE]
<1>1. /\ calls[c].status \in {"queued", "granted", "abandoned"}
      /\ calls' = [calls EXCEPT ![c] = k]
      /\ UNCHANGED <<phase, workers, older, leases, queues, loader, reaping>>
  BY DEF DeadlinePasses
<1>2. /\ calls[c] \in ActiveCall /\ calls[c].resource \in Resources
      /\ InQueue(c, calls[c].resource) => calls[c].status \in Waiting
      /\ calls[c].status \in {"queued", "abandoned"} => InQueue(c, calls[c].resource)
  BY <1>1, WaitingCall
<1>3. k \in ActiveCall /\ k.status = calls[c].status /\ k.resource = calls[c].resource
  BY <1>2 DEF ActiveCall
<1> HIDE DEF k
<1> QED
  BY <1>1, <1>2, <1>3, CallChangesOK

LEMMA AcquireResumesOK ==
    ASSUME PoolAssumption, IInv, NEW c \in Calls, AcquireResumes(c)
    PROVE  IInv'
<1>1. /\ calls[c].status \in {"granted", "refused"}
      /\ calls' = [calls EXCEPT ![c] = IdleCall]
      /\ UNCHANGED <<phase, workers, older, leases, queues, loader, reaping>>
  BY DEF AcquireResumes
<1>2. ~InQueue(c, calls[c].resource)
  BY <1>1, WaitingCall DEF Waiting
<1>3. IdleCall.status = "idle"
  BY DEF IdleCall
<1> QED
  BY <1>1, <1>2, <1>3, CallChangesOK

LEMMA WaitTimesOutOK ==
    ASSUME PoolAssumption, IInv, NEW c \in Calls, WaitTimesOut(c)
    PROVE  IInv'
<1> DEFINE k == [calls[c] EXCEPT !.status = "timedout"]
<1>1. /\ calls[c].status \in {"queued", "granted"}
      /\ calls' = [calls EXCEPT ![c] = k]
      /\ UNCHANGED <<phase, workers, older, leases, queues, loader, reaping>>
  BY DEF WaitTimesOut
<1>2. calls[c] \in ActiveCall
  BY <1>1, WaitingCall
<1>3. k \in ActiveCall /\ k.status = "timedout" /\ k.resource = calls[c].resource
  BY <1>2 DEF ActiveCall, Statuses
<1> HIDE DEF k
<1> QED
  BY <1>1, <1>3, CallChangesOK DEF Waiting

LEMMA CancelAcquireOK ==
    ASSUME PoolAssumption, IInv, NEW c \in Calls, CancelAcquire(c)
    PROVE  IInv'
<1> DEFINE k == [calls[c] EXCEPT !.status = "abandoned"]
<1>1. /\ calls[c].status \in {"queued", "granted", "refused", "timedout"}
      /\ UNCHANGED <<phase, workers, older, leases, queues, loader, reaping>>
  BY DEF CancelAcquire
<1>2. calls[c] \in ActiveCall /\ calls[c].resource \in Resources
  BY <1>1, WaitingCall
<1>3. CASE InQueue(c, calls[c].resource)
  <2>1. calls' = [calls EXCEPT ![c] = k]
    BY <1>3 DEF CancelAcquire
  <2>2. k \in ActiveCall /\ k.status = "abandoned" /\ k.resource = calls[c].resource
    BY <1>2 DEF ActiveCall, Statuses, LeftBehind, CancelAcquire
  <2> HIDE DEF k
  <2> QED
    BY <1>1, <1>2, <1>3, <2>1, <2>2, CallChangesOK DEF Waiting
<1>4. CASE ~InQueue(c, calls[c].resource)
  <2>1. calls' = [calls EXCEPT ![c] = IdleCall]
    BY <1>4 DEF CancelAcquire
  <2>2. IdleCall.status = "idle"
    BY DEF IdleCall
  <2> QED
    BY <1>1, <1>4, <2>1, <2>2, CallChangesOK
<1> QED
  BY <1>3, <1>4

(* A call that timed out leaves its queue, if it is still there.           *)
LEMMA RemoveWaiterOK ==
    ASSUME PoolAssumption, IInv, NEW c \in Calls, RemoveWaiter(c)
    PROVE  IInv'
<1> DEFINE r == calls[c].resource
           t == Removed(queues[r], c)
<1>1. /\ calls[c].status = "timedout" /\ loader = None
      /\ queues' = [queues EXCEPT ![r] = t]
      /\ calls' = [calls EXCEPT ![c] = IdleCall]
      /\ UNCHANGED <<phase, workers, older, leases, loader, reaping>>
  BY DEF RemoveWaiter
<1>2. /\ PoolOK(Pool, workers)
      /\ Pool.leases = leases /\ Pool.queues = queues /\ Pool.calls = calls
  BY DEF IInv, Pool
<1>3. /\ leases \in [Sessions -> Lease \cup {None}]
      /\ queues \in [Resources -> Seq(Calls)]
      /\ calls \in [Calls -> ActiveCall \cup {IdleCall}]
      /\ HoldWaiters(Pool) /\ Distinct(Pool) /\ AreQueued(Pool) /\ Named(Pool, workers) /\ Staffed(Pool, workers)
  BY <1>2 DEF PoolOK, PoolType
<1>4. r \in Resources
  BY <1>1, WaitingCall
<1> HIDE DEF r
<1>5. queues[r] \in Seq(Calls) /\ \A i, j \in 1..Len(queues[r]) : queues[r][i] = queues[r][j] => i = j
  <2>1. Pool.queues[r] = queues[r]
    BY <1>2
  <2>2. \A i, j \in 1..Len(Pool.queues[r]) : Pool.queues[r][i] = Pool.queues[r][j] => i = j
    BY <1>3, <1>4, Zenon DEF Distinct
  <2> QED
    BY <1>3, <1>4, <2>1, <2>2
<1>6. /\ t \in Seq(Calls)
      /\ \A j \in 1..Len(t) : t[j] # c
      /\ \A j \in 1..Len(t) : \E k \in 1..Len(queues[r]) : t[j] = queues[r][k]
      /\ \A k \in 1..Len(queues[r]) : queues[r][k] # c => \E j \in 1..Len(t) : t[j] = queues[r][k]
      /\ \A i, j \in 1..Len(t) : t[i] = t[j] => i = j
  BY <1>5, RemovedElements, Zenon
<1> HIDE DEF t
<1> DEFINE e == [leases |-> leases, queues |-> queues', calls |-> calls']
<1>7. /\ e.leases = leases /\ e.queues = queues' /\ e.calls = calls' /\ e = Pool'
      /\ IdleCall.status = "idle"
  BY <1>1 DEF Pool, IdleCall
<1> HIDE DEF e
<1>8. /\ queues' \in [Resources -> Seq(Calls)]
      /\ queues'[r] = t
      /\ \A x \in Resources : x # r => queues'[x] = queues[x]
  BY <1>1, <1>3, <1>4, <1>6
<1>9. /\ calls' \in [Calls -> ActiveCall \cup {IdleCall}]
      /\ calls'[c] = IdleCall
      /\ \A d \in Calls : d # c => calls'[d] = calls[d]
  BY <1>1, <1>3
<1>10. e \in PoolType
  <2>1. Pool' \in PoolType
    BY <1>1, <1>3, <1>8, <1>9 DEF Pool, PoolType
  <2> QED
    BY <1>7, <2>1
<1>11. ASSUME NEW x \in Resources, NEW i \in 1..Len(queues'[x])
       PROVE  /\ queues'[x][i] # c
              /\ \E k \in 1..Len(queues[x]) : queues'[x][i] = queues[x][k]
  <2>1. CASE x = r
    BY <1>6, <1>8, <2>1
  <2>2. CASE x # r
    <3>1. i \in 1..Len(queues[x]) /\ queues'[x][i] = queues[x][i]
      BY <1>8, <2>2
    <3>2. queues[x][i] # c
      BY <1>2, <1>3, <2>2, <3>1 DEF HoldWaiters, r
    <3> QED
      BY <3>1, <3>2
  <2> QED
    BY <2>1, <2>2
<1>12. HoldWaiters(e)
  <2>1. ASSUME NEW x \in Resources, NEW i \in 1..Len(queues'[x])
        PROVE  calls'[queues'[x][i]].resource = x /\ calls'[queues'[x][i]].status \in Waiting
    <3>1. PICK k \in 1..Len(queues[x]) : queues'[x][i] = queues[x][k]
      BY <1>11
    <3>2. queues[x][k] \in Calls /\ queues[x][k] # c
      BY <1>3, <1>11, <3>1
    <3>3. calls'[queues'[x][i]] = calls[queues[x][k]]
      BY <1>9, <3>1, <3>2
    <3>4. calls[queues[x][k]].resource = x /\ calls[queues[x][k]].status \in Waiting
      BY <1>2, <1>3 DEF HoldWaiters
    <3> QED
      BY <3>3, <3>4
  <2> QED
    BY <1>7, <2>1 DEF HoldWaiters
<1>13. Distinct(e)
  <2>1. ASSUME NEW x \in Resources, NEW i \in 1..Len(queues'[x]), NEW j \in 1..Len(queues'[x]),
               queues'[x][i] = queues'[x][j]
        PROVE  i = j
    <3>1. CASE x = r
      BY <1>6, <1>8, <2>1, <3>1
    <3>2. CASE x # r
      <4>1. queues'[x] = queues[x]
        BY <1>8, <3>2
      <4>2. Pool.queues[x] = queues[x]
        BY <1>2
      <4> QED
        BY <1>3, <2>1, <4>1, <4>2 DEF Distinct
    <3> QED
      BY <3>1, <3>2
  <2> QED
    BY <1>7, <2>1 DEF Distinct
<1>14. AreQueued(e)
  <2>1. SUFFICES ASSUME NEW d \in Calls, calls'[d].status \in {"queued", "abandoned"}
                 PROVE  \E i \in 1..Len(queues'[calls'[d].resource]) : queues'[calls'[d].resource][i] = d
    BY <1>7 DEF AreQueued
  <2>2. d # c /\ calls'[d] = calls[d]
    BY <1>7, <1>9, <2>1
  <2>3. calls[d].resource \in Resources
    BY <1>3, <2>1, <2>2, ActiveCallType
  <2>4. PICK i \in 1..Len(queues[calls[d].resource]) : queues[calls[d].resource][i] = d
    BY <1>2, <1>3, <2>1, <2>2 DEF AreQueued
  <2>5. CASE calls[d].resource = r
    <3>1. i \in 1..Len(queues[r]) /\ queues[r][i] = d /\ queues[r][i] # c
      BY <2>2, <2>4, <2>5
    <3>2. \E j \in 1..Len(t) : t[j] = queues[r][i]
      BY <1>6, <3>1, Zenon
    <3> QED
      BY <1>8, <2>2, <2>5, <3>1, <3>2
  <2>6. CASE calls[d].resource # r
    <3>1. queues'[calls[d].resource] = queues[calls[d].resource]
      BY <1>8, <2>3, <2>6
    <3> QED
      BY <2>2, <2>4, <3>1
  <2> QED
    BY <2>5, <2>6, Zenon
<1>15. Named(e, workers)
  BY <1>2, <1>3, <1>7 DEF Named
<1>16. Staffed(e, workers)
  <2>1. ASSUME NEW x \in Resources, queues'[x] # <<>>
        PROVE  queues[x] # <<>>
    <3>1. CASE x # r
      BY <1>8, <2>1, <3>1
    <3>2. CASE x = r
      <4>1. t \in Seq(Calls) /\ t # <<>>
        BY <1>6, <1>8, <2>1, <3>2
      <4>2. 1 \in 1..Len(t)
        BY <4>1
      <4>3. PICK k \in 1..Len(queues[r]) : t[1] = queues[r][k]
        BY <1>6, <4>2
      <4> QED
        BY <3>2, <4>3
    <3> QED
      BY <3>1, <3>2
  <2> QED
    BY <1>2, <1>3, <1>7, <2>1 DEF Staffed
<1>17. PoolOK(Pool', workers)
  BY <1>7, <1>10, <1>12, <1>13, <1>14, <1>15, <1>16 DEF PoolOK
<1>18. LoadsOK'
  <2>1. \A d \in Calls : calls[d].status = "loading" <=> calls'[d].status = "loading"
    BY <1>1, <1>7, <1>9
  <2> QED
    BY <1>1, <2>1 DEF IInv, LoadsOK, LoaderOK
<1> QED
  BY <1>1, <1>17, <1>18 DEF IInv

LEMMA PreloadOK ==
    ASSUME PoolAssumption, IInv, NEW r \in Resources, Preload(r)
    PROVE  IInv'
<1>1. PICK w \in FreshWorkers : AddWorker(r, w)
  BY DEF Preload
<1>2. PoolOK(Pool, workers) /\ TablesOK(workers, older) /\ workers[r] = None
  BY DEF IInv, Preload
<1>3. TablesOK(workers', older') /\ PoolOK(Pool, workers')
  BY <1>1, <1>2, AddWorkerOK
<1>4. Pool' = Pool
  BY DEF Preload, Pool
<1>5. LoadsOK'
  BY DEF IInv, LoadsOK, LoaderOK, Preload
<1> QED
  BY <1>3, <1>4, <1>5 DEF IInv

LEMMA StopOK ==
    ASSUME PoolAssumption, IInv, Stop
    PROVE  IInv'
<1>1. /\ leases' = [s \in Sessions |-> None]
      /\ queues' = [r \in Resources |-> <<>>]
      /\ phase' = "stopped" /\ reaping' = {}
      /\ UNCHANGED <<workers, older, loader>>
  BY DEF Stop
<1>2. calls \in [Calls -> ActiveCall \cup {IdleCall}]
  BY DEF IInv, PoolOK, PoolType, Pool
<1>3. \A c \in Calls : /\ calls'[c] \in ActiveCall \cup {IdleCall}
                       /\ calls'[c].status \notin {"queued", "abandoned"}
                       /\ calls[c].status = "loading" <=> calls'[c].status = "loading"
                       /\ calls[c].status = "loading" => calls'[c] = calls[c]
  <2>1. TAKE c \in Calls
  <2>2. calls[c] \in ActiveCall \cup {IdleCall}
    BY <1>2
  <2>3. CASE calls[c].status = "queued"
    <3>1. calls'[c] = [calls[c] EXCEPT !.status = "refused"]
      BY <2>3 DEF Stop
    <3>2. calls[c] \in ActiveCall
      BY <2>2, <2>3, ActiveCallType
    <3> QED
      BY <2>3, <3>1, <3>2 DEF ActiveCall, Statuses
  <2>4. CASE calls[c].status = "abandoned"
    <3>1. calls'[c] = IdleCall
      BY <2>4 DEF Stop
    <3> QED
      BY <2>4, <3>1 DEF IdleCall
  <2>5. CASE calls[c].status \notin {"queued", "abandoned"}
    <3>1. calls'[c] = calls[c]
      BY <2>5 DEF Stop
    <3> QED
      BY <2>2, <2>5, <3>1
  <2> QED
    BY <2>3, <2>4, <2>5
<1>4. calls' = [c \in Calls |-> calls'[c]]
  BY DEF Stop
<1>5. PoolOK(Pool', workers)
  <2>1. /\ Pool'.leases = leases' /\ Pool'.queues = queues' /\ Pool'.calls = calls'
    BY DEF Pool
  <2>2. calls' \in [Calls -> ActiveCall \cup {IdleCall}]
    BY <1>3, <1>4
  <2>3. \A r \in Resources : queues'[r] = <<>> /\ Len(queues'[r]) = 0 /\ 1..Len(queues'[r]) = {}
    BY <1>1
  <2>4. Pool' \in PoolType
    BY <1>1, <2>2 DEF Pool, PoolType
  <2> QED
    BY <1>1, <1>3, <2>1, <2>3, <2>4 DEF PoolOK, HoldWaiters, Distinct, AreQueued, Named, Staffed
<1>6. LoadsOK'
  BY <1>1, <1>3 DEF IInv, LoadsOK, LoaderOK
<1> QED
  BY <1>1, <1>5, <1>6 DEF IInv

LEMMA NextIInv ==
    ASSUME PoolAssumption, IInv, [Next]_vars
    PROVE  IInv'
<1>1. CASE \E c \in Calls, s \in Sessions, r \in Resources : Acquire(c, s, r)
  <2>1. PICK c \in Calls, s \in Sessions, r \in Resources : Acquire(c, s, r)
    BY <1>1
  <2>2. CASE AcquireAtCap(c, s, r)
    BY <2>2, ReleasingOK DEF AcquireAtCap, IInv, LoadsOK
  <2> QED
    BY <2>1, <2>2, AcquireRenewsOK, AcquireLoadedOK, AcquireLoadsOK DEF Acquire
<1>2. CASE \E c \in Calls : CallStep(c)
  <2>1. PICK c \in Calls : CallStep(c)
    BY <1>2
  <2> QED
    BY <2>1, LoadReturnsOK, LoadFailsOK, CancelLoadOK, ThreadEndsOK, DeadlinePassesOK, AcquireResumesOK, WaitTimesOutOK,
       RemoveWaiterOK, CancelAcquireOK DEF CallStep
<1>3. CASE \E s \in Sessions : SessionStep(s)
  <2>1. PICK s \in Sessions : SessionStep(s)
    BY <1>3
  <2>2. CASE Release(s)
    BY <2>2, ReleasingOK DEF Release, IInv, LoadsOK
  <2>3. CASE ReapOne(s)
    BY <2>3, ReleasingOK DEF ReapOne, IInv, LoadsOK
  <2>4. CASE Renew(s)
    BY <2>4, DeadlineMoves DEF Renew
  <2>5. CASE LeaseExpires(s)
    BY <2>5, DeadlineMoves DEF LeaseExpires
  <2> QED
    BY <2>1, <2>2, <2>3, <2>4, <2>5 DEF SessionStep
<1>4. CASE ReapScan
  <2>1. Pool' = Pool
    BY <1>4 DEF ReapScan, Pool
  <2>2. LoadsOK'
    BY <1>4 DEF ReapScan, ExpiredSessions, IInv, LoadsOK, LoaderOK
  <2> QED
    BY <1>4, <2>1, <2>2 DEF ReapScan, IInv
<1>5. CASE EvictOverflow
  <2>1. PICK E \in SUBSET {r \in Resources : Evictable(r)} : Unload(E)
    BY <1>5 DEF EvictOverflow
  <2> QED
    BY <1>5, <2>1, UnloadOK DEF EvictOverflow
<1>6. CASE \E r \in Resources : EvictWorker(r) \/ Preload(r)
  <2>1. PICK r \in Resources : EvictWorker(r) \/ Preload(r)
    BY <1>6
  <2>2. CASE EvictWorker(r)
    <3>1. \A x \in {r} : Evictable(x)
      BY <2>2 DEF EvictWorker
    <3> QED
      BY <2>2, <3>1, UnloadOK DEF EvictWorker
  <2> QED
    BY <2>1, <2>2, PreloadOK
<1>7. CASE StartReturns
  <2>1. Pool' = Pool
    BY <1>7 DEF StartReturns, Pool
  <2>2. LoadsOK'
    BY <1>7 DEF StartReturns, IInv, LoadsOK, LoaderOK
  <2> QED
    BY <1>7, <2>1, <2>2 DEF StartReturns, IInv
<1>8. CASE Stop
  BY <1>8, StopOK
<1>9. CASE UNCHANGED vars
  <2>1. Pool' = Pool
    BY <1>9 DEF vars, Pool
  <2>2. LoadsOK'
    BY <1>9 DEF vars, IInv, LoadsOK, LoaderOK
  <2> QED
    BY <1>9, <2>1, <2>2 DEF vars, IInv
<1> QED
  BY <1>1, <1>2, <1>3, <1>4, <1>5, <1>6, <1>7, <1>8, <1>9 DEF Next

-----------------------------------------------------------------------------

(* The inductive invariant holds in every behaviour of the pool.           *)
THEOREM PoolInvariant == Spec => []IInv
<1>1. Init => IInv
  BY PoolAssumption, InitIInv
<1>2. IInv /\ [Next]_vars => IInv'
  BY PoolAssumption, NextIInv
<1> QED
  BY <1>1, <1>2, PTL DEF Spec

(* The tables of the pool have the types of __init__ (pool.py:129-147).    *)
THEOREM PoolTypes == Spec => []TypeOK
<1>1. IInv => TypeOK
  BY IInvImplies
<1> QED
  BY <1>1, PoolInvariant, PTL

(* Whatever the interleaving of acquires, releases, timeouts,              *)
(* cancellations, loads, the reaper and stop, the queues hold exactly the  *)
(* waiters whose futures are unresolved, each once, in the right queue.    *)
THEOREM PoolQueues == Spec => []QueueDiscipline
<1>1. IInv => QueueDiscipline
  BY IInvImplies
<1> QED
  BY <1>1, PoolInvariant, PTL

(* Neither eviction path unloads the worker of a resource somebody waits   *)
(* for.                                                                    *)
THEOREM PoolStaffed == Spec => []WaitersHaveWorker
<1>1. IInv => WaitersHaveWorker
  BY IInvImplies
<1> QED
  BY <1>1, PoolInvariant, PTL

(* A lease names the worker that is loaded for its resource, and a worker  *)
(* serves one resource.                                                    *)
THEOREM PoolPinned == Spec => []WorkerTablesAgree
<1>1. IInv => WorkerTablesAgree
  BY IInvImplies
<1> QED
  BY <1>1, PoolInvariant, PTL

-----------------------------------------------------------------------------
(* Without cancellations no task leaves anything behind.                   *)
LEMMA NothingLeftBehind ==
    ASSUME ~MayCancel, IInv, NEW c \in Calls
    PROVE  /\ calls[c].status \notin {"abandoned", "detached"}
           /\ ~CancelLoad(c) /\ ~ThreadEnds(c)
<1>1. calls[c] \in ActiveCall \cup {IdleCall}
  BY DEF IInv, PoolOK, PoolType, Pool
<1>2. calls[c].status \notin {"abandoned", "detached"}
  BY <1>1 DEF ActiveCall, Statuses, LeftBehind, IdleCall
<1> QED
  BY <1>2 DEF CancelLoad, ThreadEnds

(* The factory threads that run are then those of the call with the lock.  *)
LEMMA OnlyTheLoader ==
    ASSUME PoolAssumption, ~MayCancel, IInv
    PROVE  Building = IF loader = None THEN {} ELSE {loader}
<1>1. \A c \in Calls : c \in Building <=> loader = c
  BY NothingLeftBehind, IInvImplies DEF Building, LoaderOK
<1>2. loader \in Calls \cup {None} /\ None \notin Calls
  BY DEF IInv, LoadsOK, PoolAssumption
<1> QED
  BY <1>1, <1>2 DEF Building

(* While no acquire is cancelled, no two factory threads run at once in    *)
(* the whole pool (pool.py:18-20).                                         *)
THEOREM PoolLoadsSerialized == ~MayCancel => (Spec => []LoadsSerialized)
<1> SUFFICES ASSUME ~MayCancel
             PROVE  Spec => []LoadsSerialized
  OBVIOUS
<1>1. IInv => LoadsSerialized
  BY PoolAssumption, OnlyTheLoader DEF LoadsSerialized
<1> QED
  BY <1>1, PoolInvariant, PTL
=============================================================================
