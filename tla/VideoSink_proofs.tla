--------------------------- MODULE VideoSink_proofs ---------------------------
(***************************************************************************)
(* What the operations of LoopFreeQueue preserve, whatever the items and   *)
(* the tasks are; and what every step of the video sink preserves, whatever*)
(* hands it the frames: each client has in front of it frames it had before*)
(* and those that are new, and in the old order, the new ones last.        *)
(* AvatarStream_proofs and RegionPlayer_proofs build on it.                *)
(***************************************************************************)
EXTENDS VideoSink, SequenceTheorems, TLAPS

-----------------------------------------------------------------------------
(* The queue.                                                              *)

(* A queue of items of I, with getters of G and putters of P.              *)
Queues(I, G, P) ==
    [items   : Seq(I),
     getters : Seq(G),
     handed  : SUBSET [to : G, item : I \cup {None}],
     putters : Seq([by : P, item : I]),
     closed  : BOOLEAN]

(* Nobody waits for what is there, and the buffer keeps its size.          *)
Served(q, size) == Len(q.items) <= size /\ NobodyWaitsInVain(q, size)

LEMMA WithoutType ==
    ASSUME NEW S, NEW s \in Seq(S), NEW mine \in SUBSET DOMAIN s
    PROVE  /\ Without(s, mine) \in Seq(S)
           /\ s = <<>> => Without(s, mine) = <<>>
<1>1. CASE mine = {}
  BY <1>1 DEF Without
<1>2. CASE mine # {}
  <2>1. PICK i \in DOMAIN s : i = CHOOSE j \in mine : TRUE
    BY <1>2
  <2>2. Without(s, mine) = SubSeq(s, 1, i - 1) \o SubSeq(s, i + 1, Len(s))
    BY <1>2, <2>1 DEF Without, SeqExt!RemoveAt
  <2>3. i \in 1..Len(s) /\ s # <<>>
    BY <2>1
  <2>4. SubSeq(s, 1, i - 1) \in Seq(S) /\ SubSeq(s, i + 1, Len(s)) \in Seq(S)
    BY <2>3
  <2> QED
    BY <2>2, <2>3, <2>4
<1> QED
  BY <1>1, <1>2

(* Nothing gets into a list by a removal.                                  *)
LEMMA WithoutElements ==
    ASSUME NEW S, NEW s \in Seq(S), NEW mine \in SUBSET DOMAIN s
    PROVE  \A k \in 1..Len(Without(s, mine)) : \E j \in 1..Len(s) : Without(s, mine)[k] = s[j]
<1>1. CASE mine = {}
  BY <1>1 DEF Without
<1>2. CASE mine # {}
  <2>1. PICK i \in DOMAIN s : i = CHOOSE j \in mine : TRUE
    BY <1>2
  <2> DEFINE before == SubSeq(s, 1, i - 1)
             after == SubSeq(s, i + 1, Len(s))
  <2>2. Without(s, mine) = before \o after
    BY <1>2, <2>1 DEF Without, SeqExt!RemoveAt
  <2>3. i \in 1..Len(s) /\ Len(s) \in Nat
    BY <2>1
  <2>4. /\ before \in Seq(S) /\ Len(before) = i - 1
        /\ \A k \in 1..(i - 1) : before[k] = s[k]
    BY <2>3
  <2>5. /\ after \in Seq(S) /\ Len(after) = Len(s) - i
        /\ \A k \in 1..(Len(s) - i) : after[k] = s[i + k]
    BY <2>3
  <2> HIDE DEF before, after
  <2>6. /\ Len(before \o after) = Len(s) - 1
        /\ \A k \in 1..(Len(s) - 1) :
              (before \o after)[k] = IF k <= i - 1 THEN before[k] ELSE after[k - (i - 1)]
    <3>1. /\ Len(before \o after) = Len(before) + Len(after)
          /\ \A k \in 1..(Len(before) + Len(after)) :
                (before \o after)[k] =
                   IF k <= Len(before) THEN before[k] ELSE after[k - Len(before)]
      BY <2>4, <2>5, ConcatProperties
    <3>2. Len(before) + Len(after) = Len(s) - 1
      BY <2>3, <2>4, <2>5
    <3> QED
      BY <2>4, <3>1, <3>2
  <2>7. \A k \in 1..(Len(s) - 1) :
           (before \o after)[k] = IF k <= i - 1 THEN s[k] ELSE s[k + 1]
    <3> SUFFICES ASSUME NEW k \in 1..(Len(s) - 1)
                 PROVE  (before \o after)[k] = IF k <= i - 1 THEN s[k] ELSE s[k + 1]
      OBVIOUS
    <3>1. CASE k <= i - 1
      BY <2>3, <2>4, <2>6, <3>1
    <3>2. CASE ~(k <= i - 1)
      <4>1. k - (i - 1) \in 1..(Len(s) - i) /\ i + (k - (i - 1)) = k + 1
        BY <2>3, <3>2
      <4> QED
        BY <2>5, <2>6, <3>2, <4>1
    <3> QED
      BY <3>1, <3>2
  <2> SUFFICES ASSUME NEW k \in 1..(Len(s) - 1)
               PROVE  \E j \in 1..Len(s) : (before \o after)[k] = s[j]
    BY <2>2, <2>6
  <2>8. k \in 1..Len(s) /\ k + 1 \in 1..Len(s)
    BY <2>3
  <2> QED
    BY <2>7, <2>8
<1> QED
  BY <1>1, <1>2

LEMMA WithoutLast == \A x : Without(<<x>>, {1}) = <<>>
<1> SUFFICES ASSUME NEW x PROVE Without(<<x>>, {1}) = <<>>
  OBVIOUS
<1>1. Without(<<x>>, {1}) = SubSeq(<<x>>, 1, 0) \o SubSeq(<<x>>, 2, 1)
  <2>1. (CHOOSE i \in {1} : TRUE) = 1 /\ Len(<<x>>) = 1
    OBVIOUS
  <2> QED
    BY <2>1 DEF Without, SeqExt!RemoveAt
<1>2. \A s \in Seq({x}), m, n \in Int : n < m => SubSeq(s, m, n) = <<>>
  BY SubSeqEmpty
<1>3. <<x>> \in Seq({x})
  OBVIOUS
<1>4. SubSeq(<<x>>, 1, 0) = <<>> /\ SubSeq(<<x>>, 2, 1) = <<>>
  BY <1>2, <1>3
<1> QED
  BY <1>1, <1>4

LEMMA NewQueueServed ==
    ASSUME NEW I, NEW G, NEW P, NEW size \in Nat \ {0}
    PROVE  NewQueue \in Queues(I, G, P) /\ Served(NewQueue, size)
BY DEF NewQueue, Queues, Served, NobodyWaitsInVain

(* A hand-off leaves the buffer as it is.                                  *)
LEMMA HandedOffServed ==
    ASSUME NEW I, NEW G, NEW P, NEW size \in Nat \ {0},
           NEW q \in Queues(I, G, P), Served(q, size),
           NEW x \in I, q.getters # <<>>
    PROVE  HandedOff(q, x) \in Queues(I, G, P) /\ Served(HandedOff(q, x), size)
<1> DEFINE getters == Tail(q.getters)
           handed == q.handed \cup {[to |-> Head(q.getters), item |-> x]}
<1>1. HandedOff(q, x) = [q EXCEPT !.getters = getters, !.handed = handed]
  BY DEF HandedOff
<1>2. getters \in Seq(G) /\ Head(q.getters) \in G
  BY DEF Queues
<1>3. handed \in SUBSET [to : G, item : I \cup {None}]
  BY <1>2 DEF Queues
<1> HIDE DEF getters, handed
<1> QED
  BY <1>1, <1>2, <1>3 DEF Queues, Served, NobodyWaitsInVain

(* A producer waits only behind a full buffer.                             *)
LEMMA PutServed ==
    ASSUME NEW I, NEW G, NEW P, NEW size \in Nat \ {0},
           NEW q \in Queues(I, G, P), Served(q, size),
           NEW x \in I, NEW p \in P
    PROVE  Put(q, x, p, size) \in Queues(I, G, P) /\ Served(Put(q, x, p, size), size)
<1>1. CASE q.getters # <<>>
  BY <1>1, HandedOffServed DEF Put
<1>2. CASE q.getters = <<>> /\ Len(q.items) < size
  <2> DEFINE items == Append(q.items, x)
  <2>1. Put(q, x, p, size) = [q EXCEPT !.items = items]
    BY <1>2 DEF Put
  <2>2. items \in Seq(I) /\ Len(items) <= size /\ Len(q.items) # size
    BY <1>2 DEF Queues
  <2> HIDE DEF items
  <2> QED
    BY <1>2, <2>1, <2>2 DEF Queues, Served, NobodyWaitsInVain
<1>3. CASE q.getters = <<>> /\ ~(Len(q.items) < size)
  <2> DEFINE putters == Append(q.putters, [by |-> p, item |-> x])
  <2>1. Put(q, x, p, size) = [q EXCEPT !.putters = putters]
    BY <1>3 DEF Put
  <2>2. putters \in Seq([by : P, item : I]) /\ Len(q.items) = size
    BY <1>3 DEF Queues, Served
  <2> HIDE DEF putters
  <2> QED
    BY <1>3, <2>1, <2>2 DEF Queues, Served, NobodyWaitsInVain
<1> QED
  BY <1>1, <1>2, <1>3

(* The oldest item goes and the new one comes.                             *)
LEMMA OfferedServed ==
    ASSUME NEW I, NEW G, NEW P, NEW size \in Nat \ {0},
           NEW q \in Queues(I, G, P), Served(q, size),
           NEW x \in I
    PROVE  Offered(q, x, size) \in Queues(I, G, P) /\ Served(Offered(q, x, size), size)
<1>1. CASE q.closed
  BY <1>1 DEF Offered
<1>2. CASE ~q.closed /\ q.getters # <<>>
  BY <1>2, HandedOffServed DEF Offered
<1>3. CASE ~q.closed /\ q.getters = <<>>
  <2> DEFINE items == IF Len(q.items) < size THEN Append(q.items, x)
                                             ELSE Append(Tail(q.items), x)
  <2>1. Offered(q, x, size) = [q EXCEPT !.items = items]
    BY <1>3 DEF Offered
  <2>2. Len(q.items) \in Nat /\ q.items \in Seq(I) /\ Len(q.items) <= size
    BY DEF Queues, Served
  <2>3. /\ items \in Seq(I)
        /\ Len(items) <= size
        /\ Len(q.items) = size => Len(items) = size
    BY <2>2
  <2> HIDE DEF items
  <2> QED
    BY <1>3, <2>1, <2>3 DEF Queues, Served, NobodyWaitsInVain
<1> QED
  BY <1>1, <1>2, <1>3

(* The slot that gets free goes to the producer that waits longest.        *)
LEMMA TakenServed ==
    ASSUME NEW I, NEW G, NEW P, NEW size \in Nat \ {0},
           NEW q \in Queues(I, G, P), Served(q, size),
           q.items # <<>>
    PROVE  Taken(q) \in Queues(I, G, P) /\ Served(Taken(q), size)
<1>0. q.items \in Seq(I) /\ q.putters \in Seq([by : P, item : I]) /\ q.getters = <<>>
  BY DEF Queues, Served, NobodyWaitsInVain
<1>1. CASE q.putters = <<>>
  <2> DEFINE items == Tail(q.items)
  <2>1. Taken(q) = [q EXCEPT !.items = items]
    BY <1>1 DEF Taken
  <2>2. items \in Seq(I) /\ Len(items) <= Len(q.items)
    BY <1>0
  <2> HIDE DEF items
  <2> QED
    BY <1>0, <1>1, <2>1, <2>2 DEF Queues, Served, NobodyWaitsInVain
<1>2. CASE q.putters # <<>>
  <2> DEFINE items == Append(Tail(q.items), Head(q.putters).item)
             putters == Tail(q.putters)
  <2>1. Taken(q) = [q EXCEPT !.items = items, !.putters = putters]
    BY <1>2 DEF Taken
  <2>2. Head(q.putters) \in [by : P, item : I]
    <3>1. \A S : \A t \in Seq(S) : t # <<>> => Head(t) \in S
      OBVIOUS
    <3> QED
      BY <1>0, <1>2, <3>1
  <2>3. items \in Seq(I) /\ Len(items) = Len(q.items)
    <3>1. Tail(q.items) \in Seq(I) /\ Len(Tail(q.items)) = Len(q.items) - 1
      BY <1>0
    <3>2. Head(q.putters).item \in I /\ Len(q.items) \in Nat
      BY <1>0, <2>2
    <3>3. \A t \in Seq(I), y \in I :
             Append(t, y) \in Seq(I) /\ Len(Append(t, y)) = Len(t) + 1
      OBVIOUS
    <3> QED
      BY <3>1, <3>2, <3>3
  <2>4. putters \in Seq([by : P, item : I])
    BY <1>0, <1>2
  <2> HIDE DEF items, putters
  <2> QED
    BY <1>0, <1>2, <2>1, <2>3, <2>4 DEF Queues, Served, NobodyWaitsInVain
<1> QED
  BY <1>1, <1>2

(* Nothing is left to wait for.                                            *)
LEMMA DrainedServed ==
    ASSUME NEW I, NEW G, NEW P, NEW size \in Nat \ {0},
           NEW q \in Queues(I, G, P), Served(q, size)
    PROVE  Drained(q) \in Queues(I, G, P) /\ Served(Drained(q), size)
<1>1. /\ <<>> \in Seq(I) /\ <<>> \in Seq([by : P, item : I]) /\ Len(<<>>) = 0
  OBVIOUS
<1>2. Drained(q) \in Queues(I, G, P)
  BY <1>1 DEF Drained, Queues
<1> QED
  BY <1>1, <1>2 DEF Drained, Queues, Served, NobodyWaitsInVain

(* A consumer waits only at an empty queue that is open.                   *)
LEMMA WaitingServed ==
    ASSUME NEW I, NEW G, NEW P, NEW size \in Nat \ {0},
           NEW q \in Queues(I, G, P), Served(q, size),
           NEW g \in G, q.items = <<>>, ~q.closed
    PROVE  Waiting(q, g) \in Queues(I, G, P) /\ Served(Waiting(q, g), size)
<1> DEFINE getters == Append(q.getters, g)
<1>1. Waiting(q, g) = [q EXCEPT !.getters = getters]
  BY DEF Waiting
<1>2. getters \in Seq(G)
  BY DEF Queues
<1> HIDE DEF getters
<1> QED
  BY <1>1, <1>2 DEF Queues, Served, NobodyWaitsInVain

(* Deliveries do not touch the lists.                                      *)
LEMMA DeliveredServed ==
    ASSUME NEW I, NEW G, NEW P, NEW size \in Nat \ {0},
           NEW q \in Queues(I, G, P), Served(q, size),
           NEW g
    PROVE  Delivered(q, g) \in Queues(I, G, P) /\ Served(Delivered(q, g), size)
BY DEF Queues, Served, NobodyWaitsInVain, Delivered, HandedTo

(* Whoever gives up leaves no gap.                                         *)
LEMMA GetterGoneServed ==
    ASSUME NEW I, NEW G, NEW P, NEW size \in Nat \ {0},
           NEW q \in Queues(I, G, P), Served(q, size),
           NEW g
    PROVE  GetterGone(q, g) \in Queues(I, G, P) /\ Served(GetterGone(q, g), size)
<1> DEFINE getters == Without(q.getters, {i \in DOMAIN q.getters : q.getters[i] = g})
           handed == q.handed \ HandedTo(q, g)
<1>1. GetterGone(q, g) = [q EXCEPT !.getters = getters, !.handed = handed]
  BY DEF GetterGone, Queues
<1>2. q.getters \in Seq(G)
  BY DEF Queues
<1>3. getters \in Seq(G) /\ (q.getters = <<>> => getters = <<>>)
  BY <1>2, WithoutType
<1>4. handed \in SUBSET [to : G, item : I \cup {None}]
  BY DEF Queues
<1> HIDE DEF getters, handed
<1> QED
  BY <1>1, <1>3, <1>4 DEF Queues, Served, NobodyWaitsInVain

(* The same for a producer.                                                *)
LEMMA PutterGoneServed ==
    ASSUME NEW I, NEW G, NEW P, NEW size \in Nat \ {0},
           NEW q \in Queues(I, G, P), Served(q, size),
           NEW p
    PROVE  PutterGone(q, p) \in Queues(I, G, P) /\ Served(PutterGone(q, p), size)
<1> DEFINE putters == Without(q.putters, {i \in DOMAIN q.putters : q.putters[i].by = p})
<1>1. PutterGone(q, p) = [q EXCEPT !.putters = putters]
  BY DEF PutterGone, Queues
<1>2. q.putters \in Seq([by : P, item : I])
  BY DEF Queues
<1>3. putters \in Seq([by : P, item : I]) /\ (q.putters = <<>> => putters = <<>>)
  BY <1>2, WithoutType
<1> HIDE DEF putters
<1> QED
  BY <1>1, <1>3 DEF Queues, Served, NobodyWaitsInVain

(* Nobody waits at a closed queue for an item.                             *)
LEMMA ClosedServed ==
    ASSUME NEW I, NEW G, NEW P, NEW size \in Nat \ {0},
           NEW q \in Queues(I, G, P), Served(q, size)
    PROVE  Closed(q) \in Queues(I, G, P) /\ Served(Closed(q), size)
<1> DEFINE handed == q.handed \cup
                     {[to |-> q.getters[i], item |-> None] : i \in 1..Len(q.getters)}
<1>1. Closed(q) = [q EXCEPT !.closed = TRUE, !.getters = <<>>, !.handed = handed]
  BY DEF Closed
<1>2. \A i \in 1..Len(q.getters) : q.getters[i] \in G
  BY DEF Queues
<1>3. handed \in SUBSET [to : G, item : I \cup {None}]
  BY <1>2 DEF Queues
<1> HIDE DEF handed
<1>4. <<>> \in Seq(G)
  OBVIOUS
<1>5. Closed(q) \in Queues(I, G, P)
  BY <1>1, <1>3, <1>4 DEF Queues
<1> QED
  BY <1>1, <1>5 DEF Queues, Served, NobodyWaitsInVain

-----------------------------------------------------------------------------
(* One client of the sink.                                                 *)

(* The only getter of a client's queue is the client's own socket.         *)
ClientsOf(c) ==
    [joined : BOOLEAN, queue : Queues(Frame, {c}, {}), wants : BOOLEAN, seen : Frame \cup {None}]

Typed(c, k) == k \in ClientsOf(c) /\ Served(k.queue, ClientQueueSize)

(* The frames the client has seen last, is about to get, and has queued.   *)
FramesOf(k) ==
    ({k.seen} \ {None})
    \cup ({h.item : h \in k.queue.handed} \ {None})
    \cup {k.queue.items[i] : i \in 1..Len(k.queue.items)}

(* In the order in which the client gets them, every two of its frames are *)
(* in the relation R.                                                      *)
Lined(k, R) ==
    /\ \A i, j \in 1..Len(k.queue.items) :
          i < j => <<k.queue.items[i], k.queue.items[j]>> \in R
    /\ \A h \in k.queue.handed, i \in 1..Len(k.queue.items) :
          h.item # None => <<h.item, k.queue.items[i]>> \in R
    /\ k.seen # None =>
          /\ \A i \in 1..Len(k.queue.items) : <<k.seen, k.queue.items[i]>> \in R
          /\ \A h \in k.queue.handed : h.item # None => <<k.seen, h.item>> \in R

(* Client c has become `new': its frames are old ones, in the old order,   *)
(* and perhaps some of N behind them.                                      *)
Follows(c, k, new, N) ==
    /\ Typed(c, new)
    /\ FramesOf(new) \subseteq FramesOf(k) \cup N
    /\ \A R : Lined(k, R) /\ FramesOf(k) \X N \subseteq R => Lined(new, R)

LEMMA SameFollows == \A c, k, N : Typed(c, k) => Follows(c, k, k, N)
BY DEF Follows

(* A client that has nothing in front of it.                               *)
LEMMA AwayFollows ==
    ASSUME NEW c, NEW k, NEW N
    PROVE  Follows(c, k, Away, N) /\ Follows(c, k, Arrived, N)
<1>1. NewQueue \in Queues(Frame, {c}, {}) /\ Served(NewQueue, ClientQueueSize)
  BY NewQueueServed, SinkAssumption
<1>2. Typed(c, Away) /\ Typed(c, Arrived)
  BY <1>1 DEF Typed, Away, Arrived, ClientsOf
<1>3. FramesOf(Away) = {} /\ FramesOf(Arrived) = {}
  BY DEF FramesOf, Away, Arrived, NewQueue
<1>4. \A R : Lined(Away, R) /\ Lined(Arrived, R)
  BY DEF Lined, Away, Arrived, NewQueue
<1> QED
  BY <1>2, <1>3, <1>4 DEF Follows

(* The queue holds what it held, and of what was on its way no more.       *)
LEMMA FewerFollows ==
    ASSUME NEW c, NEW k, NEW new, NEW N, Typed(c, new),
           new.seen = k.seen,
           new.queue.items = k.queue.items,
           \A h \in new.queue.handed : h \in k.queue.handed \/ h.item = None
    PROVE  Follows(c, k, new, N)
<1>1. FramesOf(new) \subseteq FramesOf(k)
  BY DEF FramesOf
<1>2. \A R : Lined(k, R) => Lined(new, R)
  BY DEF Lined
<1> QED
  BY <1>1, <1>2 DEF Follows

(* The client sees the frame that was first in its queue, or on its way.   *)
LEMMA SeesFollows ==
    ASSUME NEW c, NEW k, NEW new, NEW N, Typed(c, k), Typed(c, new),
           new.queue.handed = {},
           \/ /\ k.queue.items # <<>>
              /\ new.seen = Head(k.queue.items)
              /\ new.queue.items = Tail(k.queue.items)
           \/ /\ \E h \in k.queue.handed : h.item # None /\ new.seen = h.item
              /\ new.queue.items = k.queue.items
    PROVE  Follows(c, k, new, N)
<1>1. CASE /\ k.queue.items # <<>>
           /\ new.seen = Head(k.queue.items)
           /\ new.queue.items = Tail(k.queue.items)
  <2> DEFINE s == k.queue.items
             t == new.queue.items
  <2>1. s \in Seq(Frame)
    BY DEF Typed, ClientsOf, Queues
  <2>2. /\ Len(s) \in Nat /\ Len(t) = Len(s) - 1
        /\ new.seen = s[1] /\ 1 \in 1..Len(s)
        /\ \A i \in 1..Len(t) : i + 1 \in 1..Len(s) /\ t[i] = s[i + 1] /\ 1 < i + 1
    BY <1>1, <2>1
  <2>3. FramesOf(new) \subseteq FramesOf(k)
    <3>1. \A i \in 1..Len(t) : \E j \in 1..Len(s) : t[i] = s[j]
      BY <2>2
    <3> QED
      BY <2>2, <3>1 DEF FramesOf
  <2>4. ASSUME NEW R, Lined(k, R) PROVE Lined(new, R)
    <3>1. \A i, j \in 1..Len(t) : i < j => i + 1 < j + 1
      BY <2>2
    <3>2. \A i, j \in 1..Len(s) : i < j => <<s[i], s[j]>> \in R
      BY <2>4 DEF Lined
    <3>3. /\ \A i, j \in 1..Len(t) : i < j => <<t[i], t[j]>> \in R
          /\ \A i \in 1..Len(t) : <<new.seen, t[i]>> \in R
      BY <2>2, <3>1, <3>2
    <3> QED
      BY <3>3 DEF Lined
  <2> QED
    BY <2>3, <2>4 DEF Follows
<1>2. CASE /\ \E h \in k.queue.handed : h.item # None /\ new.seen = h.item
           /\ new.queue.items = k.queue.items
  <2>1. FramesOf(new) \subseteq FramesOf(k)
    BY <1>2 DEF FramesOf
  <2>2. \A R : Lined(k, R) => Lined(new, R)
    BY <1>2 DEF Lined
  <2> QED
    BY <2>1, <2>2 DEF Follows
<1> QED
  BY <1>1, <1>2

(* A frame is put at the end of the client's queue.                        *)
LEMMA SentFollows ==
    ASSUME NEW c, NEW k, Typed(c, k), NEW f \in Frame
    PROVE  Follows(c, k, Sent(k, f), {f})
<1> DEFINE q == k.queue
           r == Offered(q, f, ClientQueueSize)
           new == Sent(k, f)
<1>1. q \in Queues(Frame, {c}, {}) /\ Served(q, ClientQueueSize) /\ k \in ClientsOf(c)
  BY DEF Typed, ClientsOf
<1>2. r \in Queues(Frame, {c}, {}) /\ Served(r, ClientQueueSize)
  BY <1>1, OfferedServed, SinkAssumption
<1>3. /\ q.items \in Seq(Frame) /\ q.getters \in Seq({c}) /\ Len(q.items) \in Nat
  BY <1>1 DEF Queues
<1>4. /\ Typed(c, new) /\ new.queue = r /\ new.seen = k.seen
  BY <1>1, <1>2 DEF Sent, Typed, ClientsOf
<1>5. CASE r.items = q.items /\ r.handed = q.handed
  BY <1>4, <1>5, FewerFollows
<1>6. CASE /\ q.items = <<>> /\ r.items = <<>>
           /\ \E g : r.handed = q.handed \cup {[to |-> g, item |-> f]}
  <2>1. FramesOf(new) \subseteq FramesOf(k) \cup {f}
    BY <1>4, <1>6 DEF FramesOf
  <2>2. ASSUME NEW R, Lined(k, R), FramesOf(k) \X {f} \subseteq R PROVE Lined(new, R)
    <3>1. k.seen # None => <<k.seen, f>> \in R
      BY <2>2 DEF FramesOf
    <3> QED
      BY <1>4, <1>6, <2>2, <3>1 DEF Lined
  <2> QED
    BY <1>4, <2>1, <2>2 DEF Follows
<1>7. CASE /\ r.handed = q.handed
           /\ \E t \in Seq(Frame) : /\ r.items = Append(t, f)
                                    /\ \E d \in {0, 1} : /\ Len(t) = Len(q.items) - d
                                                         /\ \A i \in 1..Len(t) : t[i] = q.items[i + d]
  <2>1. PICK t \in Seq(Frame), d \in {0, 1} : /\ r.items = Append(t, f)
                                              /\ Len(t) = Len(q.items) - d
                                              /\ \A i \in 1..Len(t) : t[i] = q.items[i + d]
    BY <1>7
  <2> HIDE DEF r, new
  <2>2. /\ Len(t) \in Nat /\ Len(r.items) = Len(t) + 1
        /\ r.items[Len(t) + 1] = f
        /\ \A i \in 1..Len(t) : i + d \in 1..Len(q.items) /\ r.items[i] = q.items[i + d]
        /\ \A i \in 1..Len(r.items) : i \in 1..Len(t) \/ i = Len(t) + 1
    <3> HIDE DEF q
    <3>1. Len(t) \in Nat /\ d \in Nat
      BY <2>1
    <3>2. /\ Len(r.items) = Len(t) + 1
          /\ \A i \in 1..Len(r.items) : r.items[i] = IF i = Len(t) + 1 THEN f ELSE t[i]
      BY <2>1
    <3>3. \A i \in 1..Len(t) : i + d \in 1..Len(q.items)
      BY <1>3, <2>1, <3>1
    <3> QED
      BY <2>1, <3>1, <3>2, <3>3
  <2>3. r.handed = q.handed
    BY <1>7
  <2>4. \A i \in 1..Len(r.items) : r.items[i] = f \/ \E j \in 1..Len(q.items) : r.items[i] = q.items[j]
    BY <2>2
  <2>5. FramesOf(new) \subseteq FramesOf(k) \cup {f}
    BY <1>4, <2>3, <2>4 DEF FramesOf
  <2>6. ASSUME NEW R, Lined(k, R), FramesOf(k) \X {f} \subseteq R PROVE Lined(new, R)
    <3>1. /\ k.seen # None => <<k.seen, f>> \in R
          /\ \A h \in q.handed : h.item # None => <<h.item, f>> \in R
          /\ \A i \in 1..Len(q.items) : <<q.items[i], f>> \in R
      BY <2>6 DEF FramesOf
    <3>2. \A i, j \in 1..Len(q.items) : i < j => <<q.items[i], q.items[j]>> \in R
      BY <2>6 DEF Lined
    <3>3. ASSUME NEW i \in 1..Len(r.items), NEW j \in 1..Len(r.items), i < j
          PROVE  <<r.items[i], r.items[j]>> \in R
      <4>1. i \in 1..Len(t)
        BY <2>2, <3>3
      <4>2. CASE j = Len(t) + 1
        BY <2>2, <3>1, <4>1, <4>2
      <4>3. CASE j \in 1..Len(t)
        <5>1. i + d < j + d
          BY <2>1, <2>2, <3>3, <4>1, <4>3
        <5> QED
          BY <2>2, <3>2, <4>1, <4>3, <5>1
      <4> QED
        BY <2>2, <4>2, <4>3
    <3>4. ASSUME NEW x, <<x, f>> \in R, \A i \in 1..Len(q.items) : <<x, q.items[i]>> \in R
          PROVE  \A i \in 1..Len(r.items) : <<x, r.items[i]>> \in R
      BY <2>4, <3>4
    <3>5. /\ \A h \in q.handed, i \in 1..Len(r.items) : h.item # None => <<h.item, r.items[i]>> \in R
          /\ k.seen # None => \A i \in 1..Len(r.items) : <<k.seen, r.items[i]>> \in R
      BY <2>6, <3>1, <3>4 DEF Lined
    <3>6. \A h \in q.handed : k.seen # None /\ h.item # None => <<k.seen, h.item>> \in R
      BY <2>6 DEF Lined
    <3> HIDE DEF q
    <3> QED
      BY <1>4, <2>3, <3>3, <3>5, <3>6 DEF Lined
  <2> QED
    BY <1>4, <2>5, <2>6 DEF Follows, new
<1> QED
  <2>1. CASE q.closed
    BY <1>5, <2>1 DEF Offered
  <2>2. CASE ~q.closed /\ q.getters # <<>>
    <3>1. q.items = <<>>
      BY <1>1, <2>2 DEF Served, NobodyWaitsInVain
    <3>2. r = HandedOff(q, f)
      BY <2>2 DEF Offered
    <3> QED
      BY <1>1, <1>6, <3>1, <3>2 DEF HandedOff, Queues
  <2>3. CASE ~q.closed /\ q.getters = <<>> /\ Len(q.items) < ClientQueueSize
    <3>1. r.items = Append(q.items, f) /\ r.handed = q.handed
      BY <1>1, <2>3 DEF Offered, Queues
    <3>2. Len(q.items) = Len(q.items) - 0 /\ \A i \in 1..Len(q.items) : q.items[i] = q.items[i + 0]
      BY <1>3
    <3> QED
      BY <1>3, <1>7, <3>1, <3>2
  <2>4. CASE ~q.closed /\ q.getters = <<>> /\ ~(Len(q.items) < ClientQueueSize)
    <3>1. r.items = Append(Tail(q.items), f) /\ r.handed = q.handed
      BY <1>1, <2>4 DEF Offered, Queues
    <3>2. q.items # <<>>
      BY <1>3, <2>4, SinkAssumption
    <3>3. /\ Tail(q.items) \in Seq(Frame)
          /\ Len(Tail(q.items)) = Len(q.items) - 1
          /\ \A i \in 1..Len(Tail(q.items)) : Tail(q.items)[i] = q.items[i + 1]
      BY <1>3, <3>2
    <3> QED
      BY <1>7, <3>1, <3>3
  <2> QED
    BY <2>1, <2>2, <2>3, <2>4

(* The client's queue is closed; or the client asks for a keyframe; or its *)
(* socket waits; or gives up, and loses what was on its way.               *)
LEMMA QuietFollows ==
    ASSUME NEW c, NEW k, NEW N, Typed(c, k)
    PROVE  /\ Follows(c, k, [k EXCEPT !.queue = Closed(@)], N)
           /\ Follows(c, k, [k EXCEPT !.wants = TRUE], N)
           /\ k.queue.items = <<>> /\ ~k.queue.closed =>
                 Follows(c, k, [k EXCEPT !.queue = Waiting(k.queue, c)], N)
           /\ Follows(c, k, [k EXCEPT !.queue = GetterGone(@, c)], N)
<1> DEFINE q == k.queue
           With(r) == [k EXCEPT !.queue = r]
<1>1. q \in Queues(Frame, {c}, {}) /\ Served(q, ClientQueueSize) /\ k \in ClientsOf(c)
  BY DEF Typed, ClientsOf
<1>2. ASSUME NEW r \in Queues(Frame, {c}, {}), Served(r, ClientQueueSize),
             r.items = q.items, \A h \in r.handed : h \in q.handed \/ h.item = None
      PROVE  Follows(c, k, With(r), N)
  <2>1. Typed(c, With(r)) /\ With(r).queue = r /\ With(r).seen = k.seen
    BY <1>1, <1>2 DEF Typed, ClientsOf
  <2> HIDE DEF With
  <2> QED
    BY <1>2, <2>1, FewerFollows
<1>3. Follows(c, k, With(Closed(q)), N)
  <2>1. Closed(q) \in Queues(Frame, {c}, {}) /\ Served(Closed(q), ClientQueueSize)
    BY <1>1, ClosedServed, SinkAssumption
  <2>2. Closed(q).items = q.items /\ \A h \in Closed(q).handed : h \in q.handed \/ h.item = None
    BY <1>1 DEF Closed, Queues
  <2> HIDE DEF With
  <2> QED
    BY <1>2, <2>1, <2>2
<1>4. Follows(c, k, [k EXCEPT !.wants = TRUE], N)
  <2> DEFINE new == [k EXCEPT !.wants = TRUE]
  <2>1. new \in ClientsOf(c) /\ new.queue = q /\ new.seen = k.seen
    BY <1>1 DEF ClientsOf
  <2> HIDE DEF new
  <2>2. Follows(c, k, new, N)
    BY <1>1, <2>1, FewerFollows DEF Typed
  <2> QED
    BY <2>2 DEF new
<1>5. ASSUME k.queue.items = <<>>, ~k.queue.closed
      PROVE  Follows(c, k, With(Waiting(q, c)), N)
  <2>1. Waiting(q, c) \in Queues(Frame, {c}, {}) /\ Served(Waiting(q, c), ClientQueueSize)
    BY <1>1, <1>5, WaitingServed, SinkAssumption
  <2>2. Waiting(q, c).items = q.items /\ Waiting(q, c).handed = q.handed
    BY <1>1 DEF Waiting, Queues
  <2> HIDE DEF With
  <2> QED
    BY <1>2, <2>1, <2>2
<1>6. Follows(c, k, With(GetterGone(q, c)), N)
  <2>1. GetterGone(q, c) \in Queues(Frame, {c}, {}) /\ Served(GetterGone(q, c), ClientQueueSize)
    BY <1>1, GetterGoneServed, SinkAssumption
  <2>2. GetterGone(q, c).items = q.items /\ GetterGone(q, c).handed \subseteq q.handed
    BY <1>1 DEF GetterGone, Queues
  <2> HIDE DEF With
  <2> QED
    BY <1>2, <2>1, <2>2
<1> QED
  BY <1>3, <1>4, <1>5, <1>6

(* The socket takes the oldest frame of its queue.                         *)
LEMMA TakenFollows ==
    ASSUME NEW c, NEW k, NEW N, Typed(c, k), k.queue.items # <<>>, k.queue.handed = {}
    PROVE  Follows(c, k, [k EXCEPT !.seen = Head(k.queue.items), !.queue = Taken(k.queue)], N)
<1> DEFINE q == k.queue
           r == Taken(q)
           f == Head(q.items)
           new == [k EXCEPT !.seen = f, !.queue = r]
<1>1. q \in Queues(Frame, {c}, {}) /\ Served(q, ClientQueueSize) /\ k \in ClientsOf(c)
  BY DEF Typed, ClientsOf
<1>2. r \in Queues(Frame, {c}, {}) /\ Served(r, ClientQueueSize)
  BY <1>1, TakenServed, SinkAssumption
<1>3. q.putters = <<>> /\ q.items \in Seq(Frame)
  <2>1. \A s \in Seq([by : {}, item : Frame]) : s = <<>>
    <3>1. [by : {}, item : Frame] = {}
      OBVIOUS
    <3>2. \A s \in Seq({}) : s = <<>>
      OBVIOUS
    <3> QED
      BY <3>1, <3>2
  <2> QED
    BY <1>1, <2>1 DEF Queues
<1>4. r.items = Tail(q.items) /\ r.handed = {}
  BY <1>1, <1>3 DEF Taken, Queues
<1>5. f \in Frame
  BY <1>3
<1>6. /\ new \in ClientsOf(c) /\ new.queue = r /\ new.seen = f
  <2> HIDE DEF r, f
  <2> QED
    BY <1>1, <1>2, <1>5 DEF ClientsOf
<1> HIDE DEF new, r
<1>7. Follows(c, k, new, N)
  BY <1>2, <1>4, <1>6, SeesFollows DEF Typed
<1> QED
  BY <1>7 DEF new, r

(* The frame that was handed over arrives.                                 *)
LEMMA DeliveredFollows ==
    ASSUME NEW c, NEW k, NEW N, Typed(c, k), NEW h \in k.queue.handed, h.item # None
    PROVE  Follows(c, k, [k EXCEPT !.seen = h.item, !.queue = Delivered(k.queue, c)], N)
<1> DEFINE q == k.queue
           r == Delivered(q, c)
           new == [k EXCEPT !.seen = h.item, !.queue = r]
<1>1. q \in Queues(Frame, {c}, {}) /\ Served(q, ClientQueueSize) /\ k \in ClientsOf(c)
  BY DEF Typed, ClientsOf
<1>2. r \in Queues(Frame, {c}, {}) /\ Served(r, ClientQueueSize)
  BY <1>1, DeliveredServed, SinkAssumption
<1>3. r.items = q.items /\ r.handed = {}
  BY <1>1 DEF Delivered, HandedTo, Queues
<1>4. h.item \in Frame
  BY <1>1 DEF Queues
<1>5. /\ new \in ClientsOf(c) /\ new.queue = r /\ new.seen = h.item
  <2> HIDE DEF r
  <2> QED
    BY <1>1, <1>2, <1>4 DEF ClientsOf
<1> HIDE DEF new, r
<1>6. Follows(c, k, new, N)
  BY <1>2, <1>3, <1>5, SeesFollows DEF Typed
<1> QED
  BY <1>6 DEF new, r

-----------------------------------------------------------------------------
(* The steps of the sink and of its sockets.                               *)

SinkTyped ==
    /\ sinkEpoch \in 0..MaxEpoch
    /\ boundaryPending \in BOOLEAN
    /\ seq \in 0..(SeqMod - 1)
    /\ sinkClosed \in BOOLEAN
    /\ clients = [c \in Clients |-> clients[c]]
    /\ \A c \in Clients : Typed(c, clients[c])

(* A step that puts no frames but those of N before the clients.           *)
Offers(N) == \A c \in Clients : Follows(c, clients[c], clients'[c], N)

(* The frame that publish_frame makes of a picture of epoch e.             *)
Stamped(f, e, kind) ==
    /\ f.seq = seq
    /\ f.epoch = e
    /\ f.kind = kind
    /\ f.boundary = (boundaryPending \/ e > sinkEpoch)
    /\ f.boundary => f.key

LEMMA SinkStarts ==
    ASSUME SinkInit
    PROVE  /\ SinkTyped
           /\ \A c \in Clients : FramesOf(clients[c]) = {} /\ \A R : Lined(clients[c], R)
<1>1. 0 \in 0..MaxEpoch /\ 0 \in 0..(SeqMod - 1)
  BY SinkAssumption
<1>2. \A c \in Clients : clients[c] = Away
  BY DEF SinkInit
<1>3. \A c \in Clients : Typed(c, clients[c])
  BY <1>2, AwayFollows DEF Follows
<1>4. boundaryPending \in BOOLEAN /\ sinkClosed \in BOOLEAN
  BY DEF SinkInit
<1>5. clients = [c \in Clients |-> clients[c]]
  BY DEF SinkInit
<1>6. FramesOf(Away) = {} /\ \A R : Lined(Away, R)
  BY DEF FramesOf, Lined, Away, NewQueue
<1> QED
  BY <1>1, <1>2, <1>3, <1>4, <1>5, <1>6 DEF SinkInit, SinkTyped

LEMMA NothingOffered ==
    ASSUME SinkTyped, NEW N, UNCHANGED clients
    PROVE  Offers(N)
BY SameFollows DEF SinkTyped, Offers

(* A frame that is published is offered to everybody who is connected.     *)
LEMMA PublishOffers ==
    ASSUME SinkTyped, NEW e \in 0..MaxEpoch, NEW kind \in Kinds, PublishFrame(e, kind)
    PROVE  /\ SinkTyped'
           /\ Refused(e) => UNCHANGED sinkVars
           /\ ~Refused(e) =>
                 /\ sinkEpoch <= e /\ sinkEpoch' = e /\ boundaryPending' = FALSE
                 /\ \/ MayFailEncode /\ UNCHANGED <<seq, clients>>
                    \/ /\ seq' = (seq + 1) % SeqMod
                       /\ \/ UNCHANGED clients
                          \/ \E f \in Frame : Stamped(f, e, kind) /\ Offers({f})
<1>1. CASE Refused(e)
  BY <1>1 DEF PublishFrame, sinkVars, SinkTyped
<1>2. CASE ~Refused(e)
  <2>1. /\ sinkEpoch' = e /\ boundaryPending' = FALSE /\ sinkClosed' = sinkClosed
        /\ sinkEpoch <= e
    BY <1>2, SinkAssumption DEF PublishFrame, Refused, SinkTyped
  <2>2. CASE MayFailEncode /\ UNCHANGED <<seq, clients>>
    BY <1>2, <2>1, <2>2 DEF SinkTyped
  <2>3. ASSUME NEW intervalOver \in BOOLEAN,
               LET boundary == boundaryPending \/ e > sinkEpoch
                   f == [seq      |-> seq,
                         epoch    |-> e,
                         kind     |-> kind,
                         key      |-> Keyframe(boundary) \/ (Joined # {} /\ intervalOver),
                         boundary |-> boundary]
               IN  /\ seq' = (seq + 1) % SeqMod
                   /\ clients' = [c \in Clients |-> IF c \in Joined
                                                    THEN Sent(clients[c], f)
                                                    ELSE clients[c]]
        PROVE  /\ SinkTyped'
               /\ seq' = (seq + 1) % SeqMod
               /\ \/ UNCHANGED clients
                  \/ \E f \in Frame : Stamped(f, e, kind) /\ Offers({f})
    <3> DEFINE boundary == boundaryPending \/ e > sinkEpoch
               key == Keyframe(boundary) \/ (Joined # {} /\ intervalOver)
               f == [seq |-> seq, epoch |-> e, kind |-> kind, key |-> key, boundary |-> boundary]
    <3>1. boundary \in BOOLEAN /\ key \in BOOLEAN
      BY DEF Keyframe
    <3>2. Joined # {} /\ boundary => key
      BY DEF Keyframe
    <3>3. /\ f \in Frame /\ f.seq = seq /\ f.epoch = e /\ f.kind = kind
          /\ f.boundary = boundary /\ f.key = key
      <4> HIDE DEF boundary, key
      <4> QED
        BY <3>1 DEF SinkTyped, Frame
    <3>4. /\ seq' = (seq + 1) % SeqMod
          /\ clients' = [c \in Clients |-> IF c \in Joined THEN Sent(clients[c], f)
                                                           ELSE clients[c]]
      BY <2>3
    <3>5. Joined # {} => Stamped(f, e, kind)
      <4> HIDE DEF f, key
      <4> QED
        BY <3>2, <3>3 DEF Stamped
    <3> HIDE DEF f
    <3>6. seq' \in 0..(SeqMod - 1)
      BY <3>4, SinkAssumption DEF SinkTyped
    <3>7. \A c \in Clients :
             Follows(c, clients[c], IF c \in Joined THEN Sent(clients[c], f) ELSE clients[c], {f})
      BY <3>3, SentFollows, SameFollows DEF SinkTyped
    <3>8. Offers({f})
      BY <3>4, <3>7 DEF Offers
    <3>9. clients' = [c \in Clients |-> clients'[c]] /\ \A c \in Clients : Typed(c, clients'[c])
      BY <3>4, <3>8 DEF Offers, Follows
    <3>10. SinkTyped'
      BY <2>1, <3>6, <3>9 DEF SinkTyped
    <3>11. CASE Joined = {}
      <4>1. clients' = [c \in Clients |-> clients[c]]
        BY <3>4, <3>11
      <4> QED
        BY <3>4, <3>10, <4>1 DEF SinkTyped
    <3>12. CASE Joined # {}
      BY <3>3, <3>4, <3>5, <3>8, <3>10, <3>12
    <3> QED
      BY <3>11, <3>12
  <2> QED
    BY <1>2, <2>1, <2>2, <2>3 DEF PublishFrame
<1> QED
  BY <1>1, <1>2

(* A step of one socket.                                                   *)
LEMMA OneClientOffers ==
    ASSUME SinkTyped, NEW c \in Clients, NEW new, clients' = [clients EXCEPT ![c] = new],
           Follows(c, clients[c], new, {}),
           UNCHANGED <<sinkEpoch, boundaryPending, seq, sinkClosed>>
    PROVE  SinkTyped' /\ Offers({})
<1>1. \A d \in Clients : clients'[d] = IF d = c THEN new ELSE clients[d]
  BY DEF SinkTyped
<1>2. \A d \in Clients : Follows(d, clients[d], clients'[d], {})
  BY <1>1, SameFollows DEF SinkTyped
<1>3. clients' = [d \in Clients |-> clients'[d]]
  BY DEF SinkTyped
<1>4. \A d \in Clients : Typed(d, clients'[d])
  BY <1>2 DEF Follows
<1> QED
  BY <1>2, <1>3, <1>4 DEF SinkTyped, Offers

LEMMA ClientOffers ==
    ASSUME SinkTyped, NEW c \in Clients, ClientStep(c)
    PROVE  SinkTyped' /\ Offers({})
<1> DEFINE k == clients[c]
<1>0. Typed(c, k) /\ Follows(c, k, Away, {}) /\ Follows(c, k, Arrived, {})
  BY AwayFollows DEF SinkTyped
<1>1. CASE AddClient(c)
  BY <1>0, <1>1, OneClientOffers DEF AddClient
<1>2. CASE RemoveClient(c)
  BY <1>0, <1>2, OneClientOffers DEF RemoveClient
<1>3. CASE RequestKeyframe(c)
  <2> DEFINE new == [k EXCEPT !.wants = TRUE]
  <2>1. clients' = [clients EXCEPT ![c] = new]
    BY <1>3 DEF RequestKeyframe, SinkTyped
  <2>2. Follows(c, k, new, {})
    BY <1>0, QuietFollows
  <2> HIDE DEF new
  <2> QED
    BY <1>3, <2>1, <2>2, OneClientOffers DEF RequestKeyframe
<1>4. CASE ClientGets(c)
  <2>0. k.queue.handed = {}
    BY <1>4 DEF ClientGets, IsGetting
  <2>1. CASE k.queue.items # <<>> /\ Receives(c, Head(k.queue.items), Taken(k.queue))
    <3> DEFINE new == [k EXCEPT !.seen = Head(k.queue.items), !.queue = Taken(k.queue)]
    <3>1. clients' = [clients EXCEPT ![c] = Away] \/ clients' = [clients EXCEPT ![c] = new]
      BY <2>1 DEF Receives
    <3>2. Follows(c, k, new, {})
      BY <1>0, <2>0, <2>1, TakenFollows
    <3> HIDE DEF new
    <3> QED
      BY <1>0, <1>4, <3>1, <3>2, OneClientOffers DEF ClientGets
  <2>2. CASE k.queue.items = <<>> /\ k.queue.closed /\ Receives(c, None, k.queue)
    BY <1>0, <1>4, <2>2, OneClientOffers DEF ClientGets, Receives
  <2>3. CASE /\ k.queue.items = <<>> /\ ~k.queue.closed
             /\ clients' = [clients EXCEPT ![c].queue = Waiting(k.queue, c)]
    <3> DEFINE new == [k EXCEPT !.queue = Waiting(k.queue, c)]
    <3>1. clients' = [clients EXCEPT ![c] = new]
      BY <2>3 DEF SinkTyped
    <3>2. Follows(c, k, new, {})
      BY <1>0, <2>3, QuietFollows
    <3> HIDE DEF new
    <3> QED
      BY <1>4, <3>1, <3>2, OneClientOffers DEF ClientGets
  <2> QED
    BY <1>4, <2>1, <2>2, <2>3 DEF ClientGets
<1>5. CASE ClientReceives(c)
  <2>1. PICK h \in k.queue.handed : Receives(c, h.item, Delivered(k.queue, c))
    BY <1>5 DEF ClientReceives, HandedTo
  <2>2. CASE h.item = None
    BY <1>0, <1>5, <2>1, <2>2, OneClientOffers DEF ClientReceives, Receives
  <2>3. CASE h.item # None
    <3> DEFINE new == [k EXCEPT !.seen = h.item, !.queue = Delivered(k.queue, c)]
    <3>1. clients' = [clients EXCEPT ![c] = new]
      BY <2>1, <2>3 DEF Receives, SinkTyped
    <3>2. Follows(c, k, new, {})
      BY <1>0, <2>3, DeliveredFollows
    <3> HIDE DEF new
    <3> QED
      BY <1>5, <3>1, <3>2, OneClientOffers DEF ClientReceives
  <2> QED
    BY <2>2, <2>3
<1>6. CASE GetTimesOut(c)
  <2> DEFINE new == [k EXCEPT !.queue = GetterGone(@, c)]
  <2>1. clients' = [clients EXCEPT ![c] = Away] \/ clients' = [clients EXCEPT ![c] = new]
    <3>1. CASE sinkClosed
      BY <1>6, <3>1 DEF GetTimesOut
    <3>2. CASE ~sinkClosed
      BY <1>6, <3>2 DEF GetTimesOut
    <3> QED
      BY <3>1, <3>2
  <2>2. Follows(c, k, new, {})
    BY <1>0, QuietFollows
  <2> HIDE DEF new
  <2> QED
    BY <1>0, <1>6, <2>1, <2>2, OneClientOffers DEF GetTimesOut
<1> QED
  BY <1>1, <1>2, <1>3, <1>4, <1>5, <1>6 DEF ClientStep

(* Everybody's client changes at once.                                     *)
LEMMA EveryClientOffers ==
    ASSUME SinkTyped, SinkStop \/ ApplyFeedback
    PROVE  SinkTyped' /\ Offers({})
<1> DEFINE Stopped(c) == IF c \in Joined THEN [clients[c] EXCEPT !.queue = Closed(@)] ELSE clients[c]
           Asked(c) == IF c \in Joined THEN [clients[c] EXCEPT !.wants = TRUE] ELSE clients[c]
<1>1. \A c \in Clients : /\ Follows(c, clients[c], Stopped(c), {})
                         /\ Follows(c, clients[c], Asked(c), {})
  BY QuietFollows, SameFollows DEF SinkTyped
<1>2. \/ clients' = [c \in Clients |-> Stopped(c)]
      \/ clients' = [c \in Clients |-> Asked(c)]
  BY DEF SinkStop, ApplyFeedback
<1>3. sinkClosed' \in BOOLEAN /\ UNCHANGED <<sinkEpoch, boundaryPending, seq>>
  BY DEF SinkStop, ApplyFeedback, SinkTyped
<1> HIDE DEF Stopped, Asked
<1>4. Offers({}) /\ clients' = [c \in Clients |-> clients'[c]]
  BY <1>1, <1>2 DEF Offers
<1>5. \A c \in Clients : Typed(c, clients'[c])
  BY <1>4 DEF Offers, Follows
<1> QED
  BY <1>3, <1>4, <1>5 DEF SinkTyped

(* A step of the sink that is not publish_frame.                           *)
LEMMA QuietOffers ==
    ASSUME SinkTyped,
           \/ UNCHANGED sinkVars
           \/ \E e \in 0..MaxEpoch : SinkCancelEpoch(e)
           \/ SinkStop
           \/ ApplyFeedback
           \/ \E c \in Clients : ClientStep(c)
    PROVE  /\ SinkTyped'
           /\ Offers({})
           /\ seq' = seq
           /\ \/ UNCHANGED <<sinkEpoch, boundaryPending>>
              \/ boundaryPending' /\ sinkEpoch < sinkEpoch'
<1>1. CASE UNCHANGED sinkVars
  BY <1>1, NothingOffered DEF sinkVars, SinkTyped
<1>2. ASSUME NEW e \in 0..MaxEpoch, SinkCancelEpoch(e)
      PROVE  /\ SinkTyped' /\ Offers({}) /\ seq' = seq
             /\ \/ UNCHANGED <<sinkEpoch, boundaryPending>>
                \/ boundaryPending' /\ sinkEpoch < sinkEpoch'
  <2>1. UNCHANGED <<seq, sinkClosed, clients>>
    BY <1>2 DEF SinkCancelEpoch
  <2>2. \/ UNCHANGED <<sinkEpoch, boundaryPending>>
        \/ boundaryPending' = TRUE /\ sinkEpoch' = e /\ sinkEpoch < sinkEpoch'
    BY <1>2, SinkAssumption DEF SinkCancelEpoch, SinkTyped
  <2>3. SinkTyped'
    BY <2>1, <2>2 DEF SinkTyped
  <2> QED
    BY <2>1, <2>2, <2>3, NothingOffered
<1>3. CASE SinkStop \/ ApplyFeedback
  BY <1>3, EveryClientOffers DEF SinkStop, ApplyFeedback
<1>4. ASSUME NEW c \in Clients, ClientStep(c)
      PROVE  /\ SinkTyped' /\ Offers({}) /\ seq' = seq
             /\ UNCHANGED <<sinkEpoch, boundaryPending>>
  <2>1. UNCHANGED <<sinkEpoch, boundaryPending, seq, sinkClosed>>
    BY <1>4 DEF ClientStep, AddClient, RemoveClient, RequestKeyframe, ClientGets, ClientReceives,
       GetTimesOut
  <2> QED
    BY <1>4, <2>1, ClientOffers
<1> QED
  BY <1>1, <1>2, <1>3, <1>4

(* Whatever holds between all the old frames, and between them and the new *)
(* ones, holds between all that there are now.                             *)
LEMMA OffersLined ==
    ASSUME NEW N, Offers(N), NEW R, NEW c \in Clients,
           Lined(clients[c], R), FramesOf(clients[c]) \X N \subseteq R
    PROVE  Lined(clients'[c], R)
BY DEF Offers, Follows

LEMMA OffersFrames ==
    ASSUME NEW N, Offers(N), NEW c \in Clients
    PROVE  FramesOf(clients'[c]) \subseteq FramesOf(clients[c]) \cup N
BY DEF Offers, Follows

LEMMA FramesTyped ==
    ASSUME SinkTyped, NEW c \in Clients
    PROVE  FramesOf(clients[c]) \subseteq Frame
<1>1. clients[c] \in ClientsOf(c)
  BY DEF SinkTyped, Typed
<1>2. clients[c].queue \in Queues(Frame, {c}, {}) /\ clients[c].seen \in Frame \cup {None}
  BY <1>1 DEF ClientsOf
<1>3. /\ clients[c].queue.items \in Seq(Frame)
      /\ \A h \in clients[c].queue.handed : h.item \in Frame \cup {None}
  BY <1>2 DEF Queues
<1>4. \A i \in 1..Len(clients[c].queue.items) : clients[c].queue.items[i] \in Frame
  BY <1>3
<1> QED
  BY <1>2, <1>3, <1>4 DEF FramesOf

(* The frames on their way are the client's frames, and every two of them, *)
(* in the order of arrival, are in the relations its frames are in.        *)
LEMMA OnItsWayLined ==
    ASSUME SinkTyped, NEW c \in Clients
    PROVE  /\ OnItsWay(c) \in Seq(Frame)
           /\ \A i \in 1..Len(OnItsWay(c)) : OnItsWay(c)[i] \in FramesOf(clients[c])
           /\ \A R : Lined(clients[c], R) =>
                 \A i, j \in 1..Len(OnItsWay(c)) :
                    i < j => <<OnItsWay(c)[i], OnItsWay(c)[j]>> \in R
<1> DEFINE k == clients[c]
           handed == {h.item : h \in k.queue.handed} \ {None}
           a == IF k.seen = None THEN <<>> ELSE <<k.seen>>
           b == IF handed = {} THEN <<>> ELSE <<CHOOSE f \in handed : TRUE>>
           items == k.queue.items
           s == OnItsWay(c)
<1>1. FramesOf(k) \subseteq Frame /\ items \in Seq(Frame)
  BY FramesTyped DEF SinkTyped, Typed, ClientsOf, Queues
<1>2. FramesOf(k) = ({k.seen} \ {None}) \cup handed \cup {items[i] : i \in 1..Len(items)}
  BY DEF FramesOf
<1>3. s = a \o b \o items
  BY DEF OnItsWay
<1>4. /\ a = <<>> \/ (k.seen # None /\ a = <<k.seen>>)
      /\ b = <<>> \/ \E f \in handed : b = <<f>>
  OBVIOUS
<1>5. /\ a \in Seq(Frame) /\ b \in Seq(Frame)
      /\ Len(a) \in {0, 1} /\ Len(b) \in {0, 1} /\ Len(items) \in Nat
      /\ \A i \in 1..Len(a) : a[i] = k.seen /\ k.seen # None
      /\ \A i \in 1..Len(b) : b[i] \in handed
  <2>1. \A f \in Frame : <<f>> \in Seq(Frame) /\ Len(<<f>>) = 1 /\ <<f>>[1] = f
    OBVIOUS
  <2>2. <<>> \in Seq(Frame) /\ Len(<<>>) = 0
    OBVIOUS
  <2>3. (k.seen # None => k.seen \in Frame) /\ handed \subseteq Frame
    BY <1>1, <1>2
  <2> HIDE DEF k, handed, a, b, items, s
  <2>4. a \in Seq(Frame) /\ Len(a) \in {0, 1} /\ \A i \in 1..Len(a) : a[i] = k.seen /\ k.seen # None
    <3>1. CASE a = <<>>
      BY <2>2, <3>1
    <3>2. CASE k.seen # None /\ a = <<k.seen>>
      <4>1. a \in Seq(Frame) /\ Len(a) = 1 /\ a[1] = k.seen
        BY <2>1, <2>3, <3>2
      <4> QED
        BY <3>2, <4>1
    <3> QED
      BY <1>4, <3>1, <3>2
  <2>5. b \in Seq(Frame) /\ Len(b) \in {0, 1} /\ \A i \in 1..Len(b) : b[i] \in handed
    <3>1. CASE b = <<>>
      BY <2>2, <3>1
    <3>2. ASSUME NEW f \in handed, b = <<f>>
          PROVE  b \in Seq(Frame) /\ Len(b) \in {0, 1} /\ \A i \in 1..Len(b) : b[i] \in handed
      BY <2>1, <2>3, <3>2
    <3> QED
      BY <1>4, <3>1, <3>2
  <2>6. Len(items) \in Nat
    BY <1>1
  <2> QED
    BY <2>4, <2>5, <2>6
<1> HIDE DEF k, handed, a, b, items, s
<1>6. /\ s \in Seq(Frame)
      /\ Len(s) = Len(a) + Len(b) + Len(items)
      /\ \A i \in 1..Len(s) :
            s[i] = IF i <= Len(a) THEN a[i]
                   ELSE IF i <= Len(a) + Len(b) THEN b[i - Len(a)]
                   ELSE items[i - (Len(a) + Len(b))]
  <2> DEFINE ab == a \o b
  <2>0. \A x, y \in Seq(Frame) :
           /\ x \o y \in Seq(Frame) /\ Len(x \o y) = Len(x) + Len(y)
           /\ \A i \in 1..(Len(x) + Len(y)) :
                 (x \o y)[i] = IF i <= Len(x) THEN x[i] ELSE y[i - Len(x)]
    BY ConcatProperties
  <2>1. /\ ab \in Seq(Frame) /\ Len(ab) = Len(a) + Len(b)
        /\ \A i \in 1..(Len(a) + Len(b)) : ab[i] = IF i <= Len(a) THEN a[i] ELSE b[i - Len(a)]
    BY <1>5, <2>0
  <2> HIDE DEF ab
  <2>2. /\ ab \o items \in Seq(Frame) /\ Len(ab \o items) = Len(ab) + Len(items)
        /\ \A i \in 1..(Len(ab) + Len(items)) :
              (ab \o items)[i] = IF i <= Len(ab) THEN ab[i] ELSE items[i - Len(ab)]
    BY <1>1, <2>0, <2>1
  <2>3. s = ab \o items
    BY <1>3 DEF ab
  <2>4. s \in Seq(Frame) /\ Len(s) = Len(a) + Len(b) + Len(items)
    BY <2>1, <2>2, <2>3
  <2>5. ASSUME NEW i \in 1..Len(s)
        PROVE  s[i] = IF i <= Len(a) THEN a[i]
                      ELSE IF i <= Len(a) + Len(b) THEN b[i - Len(a)]
                      ELSE items[i - (Len(a) + Len(b))]
    <3>1. s[i] = IF i <= Len(a) + Len(b) THEN ab[i] ELSE items[i - (Len(a) + Len(b))]
      BY <2>1, <2>2, <2>3, <2>4
    <3>2. i <= Len(a) + Len(b) => ab[i] = IF i <= Len(a) THEN a[i] ELSE b[i - Len(a)]
      BY <1>5, <2>1
    <3>3. i <= Len(a) => i <= Len(a) + Len(b)
      BY <1>5, <2>4
    <3> HIDE DEF ab
    <3>4. CASE i <= Len(a) + Len(b)
      BY <3>1, <3>2, <3>4
    <3>5. CASE ~(i <= Len(a) + Len(b))
      BY <3>1, <3>3, <3>5
    <3> QED
      BY <3>4, <3>5
  <2> QED
    BY <2>4, <2>5
<1>7. \A i \in 1..Len(s) :
         \/ i \in 1..Len(a) /\ s[i] = k.seen /\ k.seen # None
         \/ i - Len(a) \in 1..Len(b) /\ s[i] \in handed /\ i > Len(a)
         \/ /\ i - (Len(a) + Len(b)) \in 1..Len(items)
            /\ s[i] = items[i - (Len(a) + Len(b))] /\ i > Len(a) + Len(b)
  <2> SUFFICES ASSUME NEW i \in 1..Len(s)
               PROVE  \/ i \in 1..Len(a) /\ s[i] = k.seen /\ k.seen # None
                      \/ i - Len(a) \in 1..Len(b) /\ s[i] \in handed /\ i > Len(a)
                      \/ /\ i - (Len(a) + Len(b)) \in 1..Len(items)
                         /\ s[i] = items[i - (Len(a) + Len(b))] /\ i > Len(a) + Len(b)
    OBVIOUS
  <2>1. CASE i <= Len(a)
    BY <1>5, <1>6, <2>1
  <2>2. CASE i > Len(a) /\ i <= Len(a) + Len(b)
    <3>1. i - Len(a) \in 1..Len(b)
      BY <1>5, <2>2
    <3>2. s[i] = b[i - Len(a)]
      BY <1>5, <1>6, <2>2
    <3> QED
      BY <1>5, <2>2, <3>1, <3>2
  <2>3. CASE i > Len(a) /\ i > Len(a) + Len(b)
    BY <1>5, <1>6, <2>3
  <2> QED
    BY <1>5, <1>6, <2>1, <2>2, <2>3
<1>8. \A i \in 1..Len(s) : s[i] \in FramesOf(k)
  BY <1>2, <1>7
<1>9. ASSUME NEW R, Lined(k, R), NEW i \in 1..Len(s), NEW j \in 1..Len(s), i < j
      PROVE  <<s[i], s[j]>> \in R
  <2>1. /\ \A f \in handed, n \in 1..Len(items) : <<f, items[n]>> \in R
        /\ \A m, n \in 1..Len(items) : m < n => <<items[m], items[n]>> \in R
        /\ k.seen # None => \A n \in 1..Len(items) : <<k.seen, items[n]>> \in R
        /\ k.seen # None => \A f \in handed : <<k.seen, f>> \in R
    BY <1>9 DEF Lined, handed, items
  <2>2. CASE i \in 1..Len(a) /\ s[i] = k.seen /\ k.seen # None
    <3>1. j > Len(a)
      BY <1>5, <1>6, <1>9, <2>2
    <3>2. ~(j \in 1..Len(a))
      BY <1>5, <3>1
    <3>3. \/ s[j] \in handed
          \/ j - (Len(a) + Len(b)) \in 1..Len(items) /\ s[j] = items[j - (Len(a) + Len(b))]
      BY <1>7, <3>2
    <3> QED
      BY <2>1, <2>2, <3>3
  <2>3. CASE i - Len(a) \in 1..Len(b) /\ s[i] \in handed /\ i > Len(a)
    <3>0. i \in Int /\ j \in Int /\ i < j /\ Len(a) \in Nat /\ Len(b) \in Nat /\ Len(b) <= 1
      BY <1>5, <1>6, <1>9
    <3>1. j > Len(a) + Len(b) /\ ~(j \in 1..Len(a))
      BY <2>3, <3>0
    <3>2. ~(j - Len(a) \in 1..Len(b))
      BY <3>0, <3>1
    <3>3. /\ j - (Len(a) + Len(b)) \in 1..Len(items)
          /\ s[j] = items[j - (Len(a) + Len(b))]
      BY <1>7, <3>1, <3>2
    <3>4. \A n \in 1..Len(items) : <<s[i], items[n]>> \in R
      BY <2>1, <2>3
    <3> QED
      BY <3>3, <3>4
  <2>4. CASE /\ i - (Len(a) + Len(b)) \in 1..Len(items)
             /\ s[i] = items[i - (Len(a) + Len(b))] /\ i > Len(a) + Len(b)
    <3>1. j > Len(a) + Len(b) /\ ~(j \in 1..Len(a))
      BY <1>5, <1>6, <1>9, <2>4
    <3>2. ~(j - Len(a) \in 1..Len(b))
      BY <1>5, <1>6, <3>1
    <3>3. i - (Len(a) + Len(b)) < j - (Len(a) + Len(b))
      BY <1>5, <1>6, <1>9
    <3>4. /\ j - (Len(a) + Len(b)) \in 1..Len(items)
          /\ s[j] = items[j - (Len(a) + Len(b))]
      BY <1>7, <3>1, <3>2
    <3>5. <<items[i - (Len(a) + Len(b))], items[j - (Len(a) + Len(b))]>> \in R
      BY <2>1, <2>4, <3>3, <3>4
    <3> QED
      BY <2>4, <3>4, <3>5
  <2> QED
    BY <1>7, <2>2, <2>3, <2>4
<1> QED
  BY <1>6, <1>8, <1>9 DEF s, k

-----------------------------------------------------------------------------
(* Whatever drives the sink: its types, and the order of the epochs.       *)

SinkMoves ==
    \/ UNCHANGED sinkVars
    \/ \E e \in 0..MaxEpoch, kind \in Kinds : PublishFrame(e, kind)
    \/ \E e \in 0..MaxEpoch : SinkCancelEpoch(e)
    \/ SinkStop
    \/ ApplyFeedback
    \/ \E c \in Clients : ClientStep(c)

EpochOrder == {x \in Frame \X Frame : x[1].epoch <= x[2].epoch}

(* The frames of a client are in the order of their epochs, up to the      *)
(* sink's own.                                                             *)
EpochsInv ==
    \A c \in Clients :
        /\ Lined(clients[c], EpochOrder)
        /\ \A f \in FramesOf(clients[c]) : f.epoch <= sinkEpoch

SinkInv == SinkTyped /\ EpochsInv

LEMMA SinkTypedStep == SinkTyped /\ SinkMoves => SinkTyped'
BY PublishOffers, QuietOffers DEF SinkMoves

LEMMA SinkInvInit == SinkInit => SinkInv
BY SinkStarts DEF SinkInv, EpochsInv

LEMMA SinkInvStep == SinkInv /\ SinkMoves => SinkInv'
<1> SUFFICES ASSUME SinkInv, SinkMoves PROVE SinkInv'
  OBVIOUS
<1>0. SinkTyped /\ SinkTyped' /\ sinkEpoch \in Int /\ sinkEpoch' \in Int
  BY SinkTypedStep, SinkAssumption DEF SinkInv, SinkTyped
<1>1. ASSUME NEW N, Offers(N), N \subseteq Frame, sinkEpoch <= sinkEpoch',
             \A f \in N : f.epoch = sinkEpoch'
      PROVE  SinkInv'
  <2> SUFFICES ASSUME NEW c \in Clients
               PROVE  /\ Lined(clients'[c], EpochOrder)
                      /\ \A f \in FramesOf(clients'[c]) : f.epoch <= sinkEpoch'
    BY <1>0 DEF SinkInv, EpochsInv
  <2>1. /\ Lined(clients[c], EpochOrder)
        /\ \A f \in FramesOf(clients[c]) : f \in Frame /\ f.epoch <= sinkEpoch /\ f.epoch \in Int
    BY <1>0, FramesTyped, SinkAssumption DEF SinkInv, EpochsInv, Frame
  <2>2. \A f \in FramesOf(clients[c]) : f.epoch <= sinkEpoch'
    BY <1>0, <1>1, <2>1
  <2>3. FramesOf(clients[c]) \X N \subseteq EpochOrder
    BY <1>1, <2>1, <2>2 DEF EpochOrder
  <2>4. Lined(clients'[c], EpochOrder)
    BY <1>1, <2>1, <2>3, OffersLined
  <2>5. FramesOf(clients'[c]) \subseteq FramesOf(clients[c]) \cup N
    BY <1>1, OffersFrames
  <2> QED
    BY <1>0, <1>1, <2>2, <2>4, <2>5
<1>2. ASSUME NEW e \in 0..MaxEpoch, NEW kind \in Kinds, PublishFrame(e, kind)
      PROVE  SinkInv'
  <2>1. CASE Refused(e)
    <3>1. UNCHANGED sinkVars
      BY <1>0, <1>2, <2>1, PublishOffers
    <3> QED
      BY <1>0, <3>1 DEF sinkVars, SinkInv, EpochsInv
  <2>2. CASE ~Refused(e)
    <3>1. /\ sinkEpoch <= sinkEpoch' /\ sinkEpoch' = e
          /\ \/ UNCHANGED clients
             \/ \E f \in Frame : Stamped(f, e, kind) /\ Offers({f})
      BY <1>0, <1>2, <2>2, PublishOffers
    <3>2. CASE UNCHANGED clients
      <4>1. Offers({})
        BY <1>0, <3>2, NothingOffered
      <4> QED
        BY <1>1, <3>1, <4>1
    <3>3. ASSUME NEW f \in Frame, Stamped(f, e, kind), Offers({f}) PROVE SinkInv'
      BY <1>1, <3>1, <3>3 DEF Stamped
    <3> QED
      BY <3>1, <3>2, <3>3
  <2> QED
    BY <2>1, <2>2
<1>3. CASE Offers({}) /\ (sinkEpoch' = sinkEpoch \/ sinkEpoch < sinkEpoch')
  BY <1>0, <1>1, <1>3
<1> QED
  BY <1>0, <1>2, <1>3, QuietOffers DEF SinkMoves

LEMMA SinkInvAscends == SinkInv => EpochsAscend
<1> SUFFICES ASSUME SinkInv, NEW c \in Clients, NEW i \in 1..Len(OnItsWay(c)), NEW j \in 1..i
             PROVE  /\ OnItsWay(c)[i].epoch <= sinkEpoch
                    /\ OnItsWay(c)[j].epoch <= OnItsWay(c)[i].epoch
  <2>1. ASSUME NEW c \in Clients, NEW i \in 1..Len(OnItsWay(c)) PROVE i \in 1..i
    OBVIOUS
  <2> QED
    BY <2>1 DEF EpochsAscend
<1> DEFINE s == OnItsWay(c)
<1>1. /\ s \in Seq(Frame)
      /\ \A n \in 1..Len(s) : s[n] \in FramesOf(clients[c])
      /\ \A m, n \in 1..Len(s) : m < n => <<s[m], s[n]>> \in EpochOrder
  BY OnItsWayLined DEF SinkInv, EpochsInv
<1> HIDE DEF s
<1>2. j \in 1..Len(s) /\ (j = i \/ j < i)
  BY <1>1 DEF s
<1>3. s[i].epoch \in Int /\ s[i].epoch <= sinkEpoch
  <2>1. s[i] \in FramesOf(clients[c]) /\ s[i] \in Frame
    BY <1>1, FramesTyped DEF s, SinkInv
  <2> QED
    BY <2>1, SinkAssumption DEF SinkInv, EpochsInv, Frame
<1>4. j < i => s[j].epoch <= s[i].epoch
  BY <1>1, <1>2 DEF s, EpochOrder
<1> QED
  BY <1>2, <1>3, <1>4 DEF s

LEMMA SinkTypedServes == SinkTyped => ClientsServed
BY DEF SinkTyped, Typed, Served, ClientsServed

(* What the proofs know of the types implies the declared ones.              *)
LEMMA SinkTypedOK == SinkTyped => SinkTypeOK
<1> SUFFICES ASSUME SinkTyped PROVE SinkTypeOK
  OBVIOUS
<1>1. ASSUME NEW c \in Clients
      PROVE  clients[c] \in [joined : BOOLEAN, queue : QueueType, wants : BOOLEAN,
                             seen : Frame \cup {None}]
  <2>1. clients[c] \in ClientsOf(c)
    BY DEF SinkTyped, Typed
  <2>2. Queues(Frame, {c}, {}) \subseteq QueueType
    <3>1. \A s \in Seq([by : {}, item : Frame]) : s = <<>>
      <4>1. [by : {}, item : Frame] = {}
        OBVIOUS
      <4>2. \A s \in Seq({}) : s = <<>>
        OBVIOUS
      <4> QED
        BY <4>1, <4>2
    <3>2. Seq({c}) \subseteq Seq(Clients)
      OBVIOUS
    <3>3. SUBSET [to : {c}, item : Frame \cup {None}] \subseteq
          SUBSET [to : Clients, item : Frame \cup {None}]
      OBVIOUS
    <3> QED
      BY <3>1, <3>2, <3>3 DEF Queues, QueueType
  <2> QED
    BY <2>1, <2>2 DEF ClientsOf
<1>2. clients \in [Clients -> [joined : BOOLEAN, queue : QueueType, wants : BOOLEAN,
                               seen : Frame \cup {None}]]
  BY <1>1 DEF SinkTyped
<1> QED
  BY <1>2 DEF SinkTyped, SinkTypeOK
===============================================================================
