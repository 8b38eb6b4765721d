------------------------------ MODULE VideoSink ------------------------------
(***************************************************************************)
(* WebSocketSink (ws_sink.py) and the video socket of each client          *)
(* (publish/ws_routes.py): frames are stamped with the epoch, a sequence   *)
(* number and the keyframe and boundary flags, and offered to one small    *)
(* LoopFreeQueue per client, which loses its oldest frame when the client  *)
(* is slow.  Everything runs on one loop.  The payload, the quality tier   *)
(* and the presentation time are left out: whether the keyframe interval   *)
(* has run out is a choice.                                                *)
(***************************************************************************)
EXTENDS LoopFreeQueue, FiniteSets

CONSTANTS
    Clients,           \* connections that may be open at once
    ClientQueueSize,   \* client_queue_size
    SeqMod,            \* the sequence number is 16 bits wide: 2^16
    MayFailEncode,     \* whether the encoder may raise
    MaxEpoch,          \* bound: the highest epoch
    MaxSeq             \* bound: the frames the environment publishes

ASSUME SinkAssumption ==
    /\ ClientQueueSize \in Nat \ {0} /\ SeqMod \in Nat \ {0}
    /\ MaxEpoch \in Nat /\ MaxSeq \in Nat
    /\ MayFailEncode \in BOOLEAN
    /\ None \notin Clients

VARIABLES
    sinkEpoch,         \* _current_epoch
    boundaryPending,   \* _boundary_pending
    seq,               \* _seq
    sinkClosed,        \* _closed
    clients            \* _clients, and what each client has received

sinkVars == <<sinkEpoch, boundaryPending, seq, sinkClosed, clients>>

Kinds == {"speech", "transition"}

Frame == [seq      : 0..(SeqMod - 1),
          epoch    : 0..MaxEpoch,
          kind     : Kinds,
          key      : BOOLEAN,
          boundary : BOOLEAN]

(* A client: whether it is connected, its queue, wants_keyframe, and the   *)
(* frame it received last.                                                 *)
Away == [joined |-> FALSE, queue |-> NewQueue, wants |-> FALSE, seen |-> None]

Arrived == [joined |-> TRUE, queue |-> NewQueue, wants |-> TRUE, seen |-> None]

Joined == {c \in Clients : clients[c].joined}

-----------------------------------------------------------------------------
(* publish_frame and cancel_epoch, called by the adapter.                  *)

Sent(k, f) ==
    [k EXCEPT !.queue = Offered(@, f, ClientQueueSize), !.wants = @ /\ ~f.key]

\* Mutant: a late frame of an old epoch is let through.
Refused_ClosedOnly(e) == sinkClosed

Refused(e) == sinkClosed \/ e < sinkEpoch

\* Mutant: the request for a keyframe overrides the boundary.
Keyframe_NoBoundary(boundary) ==
    /\ Joined # {}
    /\ ~boundary
    /\ \E c \in Joined : clients[c].wants

(* Whether the frame must be a keyframe.                                   *)
Keyframe(boundary) ==
    /\ Joined # {}
    /\ boundary \/ \E c \in Joined : clients[c].wants

(* The boundary flag is cleared before the frame is encoded; a frame that  *)
(* cannot be encoded gets no sequence number.                              *)
PublishFrame(e, kind) ==
    IF Refused(e)
    THEN UNCHANGED sinkVars
    ELSE /\ sinkEpoch' = e
         /\ boundaryPending' = FALSE
         /\ \/ /\ MayFailEncode
               /\ UNCHANGED <<seq, clients>>
            \/ \E intervalOver \in BOOLEAN :
                  LET boundary == boundaryPending \/ e > sinkEpoch
                      f == [seq      |-> seq,
                            epoch    |-> e,
                            kind     |-> kind,
                            key      |-> Keyframe(boundary) \/ (Joined # {} /\ intervalOver),
                            boundary |-> boundary]
                  IN  /\ seq' = (seq + 1) % SeqMod
                      /\ clients' = [c \in Clients |-> IF c \in Joined
                                                       THEN Sent(clients[c], f)
                                                       ELSE clients[c]]
         /\ UNCHANGED sinkClosed

SinkCancelEpoch(e) ==
    /\ IF e > sinkEpoch
       THEN sinkEpoch' = e /\ boundaryPending' = TRUE
       ELSE UNCHANGED <<sinkEpoch, boundaryPending>>
    /\ UNCHANGED <<seq, sinkClosed, clients>>

SinkStop ==
    /\ ~sinkClosed
    /\ sinkClosed' = TRUE
    /\ clients' = [c \in Clients |-> IF c \in Joined
                                     THEN [clients[c] EXCEPT !.queue = Closed(@)]
                                     ELSE clients[c]]
    /\ UNCHANGED <<sinkEpoch, boundaryPending, seq>>

-----------------------------------------------------------------------------
(* The video socket of client c.                                           *)

(* A socket that was accepted before stop may register after it.           *)
AddClient(c) ==
    /\ ~clients[c].joined
    /\ clients' = [clients EXCEPT ![c] = Arrived]
    /\ UNCHANGED <<sinkEpoch, boundaryPending, seq, sinkClosed>>

(* The peer disconnects.                                                   *)
RemoveClient(c) ==
    /\ clients[c].joined
    /\ clients' = [clients EXCEPT ![c] = Away]
    /\ UNCHANGED <<sinkEpoch, boundaryPending, seq, sinkClosed>>

RequestKeyframe(c) ==
    /\ clients[c].joined
    /\ clients' = [clients EXCEPT ![c].wants = TRUE]
    /\ UNCHANGED <<sinkEpoch, boundaryPending, seq, sinkClosed>>

(* A client's report moves the quality tier: everybody resynchronises.     *)
ApplyFeedback ==
    /\ Joined # {}
    /\ clients' = [c \in Clients |-> IF c \in Joined
                                     THEN [clients[c] EXCEPT !.wants = TRUE]
                                     ELSE clients[c]]
    /\ UNCHANGED <<sinkEpoch, boundaryPending, seq, sinkClosed>>

IsGetting(c) ==
    \/ clients[c].queue.getters # <<>>
    \/ clients[c].queue.handed # {}

(* The frame reaches the client; after the end-of-stream sentinel the      *)
(* socket is closed and the client removed.                                *)
Receives(c, x, q) ==
    clients' = [clients EXCEPT ![c] = IF x = None
                                      THEN Away
                                      ELSE [@ EXCEPT !.seen = x, !.queue = q]]

(* client.queue.get(): a frame is there, the queue is closed, or the task  *)
(* waits.                                                                  *)
ClientGets(c) ==
    /\ clients[c].joined
    /\ ~IsGetting(c)
    /\ LET q == clients[c].queue
       IN  \/ q.items # <<>> /\ Receives(c, Head(q.items), Taken(q))
           \/ q.items = <<>> /\ q.closed /\ Receives(c, None, q)
           \/ /\ q.items = <<>> /\ ~q.closed
              /\ clients' = [clients EXCEPT ![c].queue = Waiting(q, c)]
    /\ UNCHANGED <<sinkEpoch, boundaryPending, seq, sinkClosed>>

ClientReceives(c) ==
    /\ \E h \in HandedTo(clients[c].queue, c) :
          Receives(c, h.item, Delivered(clients[c].queue, c))
    /\ UNCHANGED <<sinkEpoch, boundaryPending, seq, sinkClosed>>

\* Mutant: the socket does not look whether its session is still there.
GetTimesOut_NoCheck(c) ==
    /\ IsGetting(c)
    /\ clients' = [clients EXCEPT ![c].queue = GetterGone(@, c)]
    /\ UNCHANGED <<sinkEpoch, boundaryPending, seq, sinkClosed>>

(* wait_for gives up after half a second, perhaps on a frame that is on    *)
(* its way, and the socket is closed if the session is gone, as it is by   *)
(* the time the sink is stopped.                                           *)
GetTimesOut(c) ==
    /\ IsGetting(c)
    /\ clients' = [clients EXCEPT ![c] = IF sinkClosed
                                         THEN Away
                                         ELSE [clients[c] EXCEPT !.queue = GetterGone(@, c)]]
    /\ UNCHANGED <<sinkEpoch, boundaryPending, seq, sinkClosed>>

ClientStep(c) ==
    \/ AddClient(c)
    \/ RemoveClient(c)
    \/ RequestKeyframe(c)
    \/ ClientGets(c)
    \/ ClientReceives(c)
    \/ GetTimesOut(c)

-----------------------------------------------------------------------------

SinkInit ==
    /\ sinkEpoch = 0
    /\ boundaryPending = FALSE
    /\ seq = 0
    /\ sinkClosed = FALSE
    /\ clients = [c \in Clients |-> Away]

-----------------------------------------------------------------------------
(* Properties.                                                             *)

QueueType ==
    [items   : Seq(Frame),
     getters : Seq(Clients),
     handed  : SUBSET [to : Clients, item : Frame \cup {None}],
     putters : {<<>>},
     closed  : BOOLEAN]

(* Type invariant of the sink.                                             *)
SinkTypeOK ==
    /\ sinkEpoch \in 0..MaxEpoch
    /\ boundaryPending \in BOOLEAN
    /\ seq \in 0..(SeqMod - 1)
    /\ sinkClosed \in BOOLEAN
    /\ clients \in [Clients -> [joined : BOOLEAN, queue : QueueType, wants : BOOLEAN,
                                seen : Frame \cup {None}]]

(* What a client has in front of it, in the order it will receive it.      *)
OnItsWay(c) ==
    LET k == clients[c]
        handed == {h.item : h \in k.queue.handed} \ {None}
    IN  (IF k.seen = None THEN <<>> ELSE <<k.seen>>)
        \o (IF handed = {} THEN <<>> ELSE <<CHOOSE f \in handed : TRUE>>)
        \o k.queue.items

(* Frames reach a client in the order of their epochs, whatever the        *)
(* publisher hands over and whatever the queues lose: after the first      *)
(* frame of an epoch nothing older is shown (README.md:47, "the publishing *)
(* side drops all expired frames").                                        *)
EpochsAscend ==
    \A c \in Clients :
        LET s == OnItsWay(c)
        IN  \A i \in 1..Len(s) :
                /\ s[i].epoch <= sinkEpoch
                /\ \A j \in 1..i : s[j].epoch <= s[i].epoch

(* A client that sees no gap in the sequence numbers sees every epoch      *)
(* begin with a keyframe that has the boundary flag, so that it knows when *)
(* to flush (ws_sink.py:18-20).  One whose queue lost that very frame sees *)
(* the gap and no flag.                                                    *)
BoundaryIsMarked ==
    \A c \in Clients :
        LET s == OnItsWay(c)
        IN  \A i \in 2..Len(s) :
                s[i].seq = (s[i - 1].seq + 1) % SeqMod /\ s[i].epoch # s[i - 1].epoch
                    => s[i].boundary /\ s[i].key

(* A client waits for a frame only while there is none for it.             *)
ClientsServed ==
    \A c \in Clients : NobodyWaitsInVain(clients[c].queue, ClientQueueSize)

(* The sockets' tasks run and their timers fire.                           *)
SinkFairness ==
    \A c \in Clients : WF_sinkVars(ClientGets(c) \/ ClientReceives(c) \/ GetTimesOut(c))

(* Once the sink is stopped every socket is closed, that of a client that  *)
(* registers after stop included.                                          *)
EveryClientEnds ==
    \A c \in Clients : sinkClosed /\ clients[c].joined ~> ~clients[c].joined
=============================================================================
