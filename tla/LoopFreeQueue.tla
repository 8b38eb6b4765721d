---------------------------- MODULE LoopFreeQueue ----------------------------
(***************************************************************************)
(* The bounded FIFO between tasks of _common/loopqueue.py, as operators on *)
(* a queue.  A getter or a putter is the task that waits: `getters' and    *)
(* `putters' are those with an unresolved future.  A future is resolved    *)
(* through call_soon_threadsafe, so an item given to a getter is on its    *)
(* way (`handed') until the getter's task runs.  A putter that is blocked  *)
(* and not in `putters' has been resolved.                                 *)
(***************************************************************************)
EXTENDS Integers, Sequences

SeqExt == INSTANCE SequencesExt

CONSTANT None      \* no item: what a closed queue delivers

NewQueue == [items |-> <<>>, getters |-> <<>>, handed |-> {}, putters |-> <<>>, closed |-> FALSE]

(* The first getter's future is resolved with the item.                    *)
HandedOff(q, x) ==
    [q EXCEPT !.getters = Tail(@), !.handed = @ \cup {[to |-> Head(q.getters), item |-> x]}]

\* Mutant: the buffer is filled from the wrong end.
Put_Front(q, x, by, size) ==
    IF q.getters # <<>> THEN HandedOff(q, x)
    ELSE IF Len(q.items) < size THEN [q EXCEPT !.items = <<x>> \o @]
    ELSE [q EXCEPT !.putters = Append(@, [by |-> by, item |-> x])]

(* put, by a task that waits while the buffer is full.                     *)
Put(q, x, by, size) ==
    IF q.getters # <<>> THEN HandedOff(q, x)
    ELSE IF Len(q.items) < size THEN [q EXCEPT !.items = Append(@, x)]
    ELSE [q EXCEPT !.putters = Append(@, [by |-> by, item |-> x])]

\* Mutant: the item is buffered although a getter waits.
Offered_Buffered(q, x, size) ==
    IF q.closed THEN q
    ELSE IF Len(q.items) < size THEN [q EXCEPT !.items = Append(@, x)]
    ELSE [q EXCEPT !.items = Append(Tail(@), x)]

\* Mutant: the item is buffered ahead of the older ones.
Offered_Front(q, x, size) ==
    IF q.closed THEN q
    ELSE IF q.getters # <<>> THEN HandedOff(q, x)
    ELSE IF Len(q.items) < size THEN [q EXCEPT !.items = <<x>> \o @]
    ELSE [q EXCEPT !.items = <<x>> \o Tail(@)]

(* offer: never waits; a full buffer loses its oldest item, a closed queue *)
(* the new one.                                                            *)
Offered(q, x, size) ==
    IF q.closed THEN q
    ELSE IF q.getters # <<>> THEN HandedOff(q, x)
    ELSE IF Len(q.items) < size THEN [q EXCEPT !.items = Append(@, x)]
    ELSE [q EXCEPT !.items = Append(Tail(@), x)]

\* Mutant: the slot that is free now is offered to nobody.
Taken_NoWake(q) == [q EXCEPT !.items = Tail(@)]

(* The head is taken, and the first putter's item gets the free slot.      *)
Taken(q) ==
    IF q.putters = <<>>
    THEN [q EXCEPT !.items = Tail(@)]
    ELSE [q EXCEPT !.items = Append(Tail(@), Head(q.putters).item), !.putters = Tail(@)]

(* get_nowait until the buffer is empty: the putters' items go as well.    *)
Drained(q) == [q EXCEPT !.items = <<>>, !.putters = <<>>]

Waiting(q, g) == [q EXCEPT !.getters = Append(@, g)]

HandedTo(q, g) == {h \in q.handed : h.to = g}

(* The getter's task runs: it has its item.                                *)
Delivered(q, g) == [q EXCEPT !.handed = @ \ HandedTo(q, g)]

(* list.remove: a task is in a list at most once.                          *)
Without(s, mine) == IF mine = {} THEN s ELSE SeqExt!RemoveAt(s, CHOOSE i \in mine : TRUE)

(* The getter's task is cancelled or times out; an item that was on its    *)
(* way to it is lost.                                                      *)
GetterGone(q, g) ==
    [q EXCEPT !.getters = Without(@, {i \in DOMAIN @ : @[i] = g}),
              !.handed = @ \ HandedTo(q, g)]

(* A putter that is cancelled or times out takes its item with it, unless  *)
(* the item has got its slot.                                              *)
PutterGone(q, p) ==
    [q EXCEPT !.putters = Without(@, {i \in DOMAIN @ : @[i].by = p})]

(* close: the getters receive None.                                        *)
Closed(q) ==
    [q EXCEPT !.closed = TRUE,
              !.getters = <<>>,
              !.handed = @ \cup {[to |-> q.getters[i], item |-> None] : i \in 1..Len(q.getters)}]

(* Nobody waits for what is there: a getter waits for an item only while   *)
(* there is none, a putter for a slot only while the buffer is full.       *)
NobodyWaitsInVain(q, size) ==
    /\ q.getters # <<>> => q.items = <<>> /\ ~q.closed
    /\ q.putters # <<>> => Len(q.items) = size
=============================================================================
