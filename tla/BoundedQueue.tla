----------------------------- MODULE BoundedQueue -----------------------------
(***************************************************************************)
(* BoundedAsyncQueue of runtime/queues.py, as operators on a queue.  Its   *)
(* event is set exactly while it has items; `waiting' are the consumers    *)
(* suspended in dequeue, `woken' those the event has released and whose    *)
(* task has not run yet.  An item carries in `stamp' what                  *)
(* getattr(item, "epoch", 0) finds: the epoch of a microphone frame, 0 for *)
(* an event, which is a dict.                                              *)
(***************************************************************************)
EXTENDS Naturals, Sequences

NewBounded == [items |-> <<>>, epoch |-> 0, waiting |-> {}, woken |-> {}]

(* enqueue: an item of an old epoch, and any item while the queue is full, *)
(* is refused; it never waits.                                             *)
Enqueued(q, x, e, capacity) ==
    IF e < q.epoch \/ Len(q.items) >= capacity
    THEN q
    ELSE [q EXCEPT !.items = Append(@, x), !.woken = @ \cup q.waiting, !.waiting = {}]

(* All of the queue is older than e: so it always is with events, whose    *)
(* stamp is 0, and with frames, stamped when they were pushed.             *)
AllOlder(q, e) == \A i \in DOMAIN q.items : q.items[i].stamp < e

(* advance_epoch: what is older goes, though a consumer may be awake for it.*)
Purged(q, e) ==
    IF e <= q.epoch
    THEN q
    ELSE [q EXCEPT !.items = IF AllOlder(q, e) THEN <<>>
                             ELSE SelectSeq(@, LAMBDA x : x.stamp >= e),
                   !.epoch = e]

(* dequeue: the event is not set, so c is suspended.                       *)
Suspended(q, c) == [q EXCEPT !.waiting = @ \cup {c}]

(* popleft, by a consumer c that has passed the event.                     *)
PoppedBy(q, c) == [q EXCEPT !.items = Tail(@), !.woken = @ \ {c}]

(* The consumer's task ends where it is.                                   *)
ConsumerGone(q, c) == [q EXCEPT !.waiting = @ \ {c}, !.woken = @ \ {c}]

(* c's task may go on from dequeue: it did not wait, or it was released.   *)
MayPass(q, c) ==
    \/ c \in q.woken
    \/ c \notin q.waiting /\ q.items # <<>>

(* Two tasks passed the event, or the items were removed in between: the   *)
(* deque is empty when c pops.                                             *)
PopsNothing(q, c) == c \in q.woken /\ q.items = <<>>
=============================================================================
