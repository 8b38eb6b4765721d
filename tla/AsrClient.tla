------------------------------- MODULE AsrClient -------------------------------
(***************************************************************************)
(* RealtimeAsrClient (audio_in/adapters/realtime_asr_client.py) and the    *)
(* recognition service at the other end, which is external.  The client    *)
(* holds one connection; its reader buffers what the service answers, a    *)
(* supervisor connects again when the connection is lost.  Of the four     *)
(* buffers only that of the recogniser is kept, and of its events only the *)
(* final results; the others are filled, drained and cleared with it.      *)
(***************************************************************************)
EXTENDS Integers, Sequences

CONSTANTS
    MaxConnections,    \* bound: connections that are made
    MaxOut,            \* bound: messages waiting to be sent
    MaxReplies,        \* bound: results on the way, and results buffered
    MayStall           \* whether a send may hang on a lost connection until the
                       \* next one is made, a second later at least

ASSUME ClientAssumption ==
    /\ MaxConnections \in Nat \ {0} /\ MaxOut \in Nat \ {0} /\ MaxReplies \in Nat \ {0}
    /\ MayStall \in BOOLEAN

VARIABLES
    place,             \* where connect or the supervisor is: "opening" a
                       \* connection, "starting" (the start message), "watching"
                       \* the reader, "pausing" before the next attempt, "idle"
    supervised,        \* whether the supervisor task exists
    closing,           \* "no", "begun" (close waits for the tasks), "done"
    made,              \* how many connections have been made
    ws,                \* _ws: the connection in use, or 0
    live,              \* the connections that still work
    reader,            \* the connection the reader task reads, or 0
    connected,         \* _connected
    out,               \* the messages of the send tasks, in order of _send_lock
    busy,              \* the connection the first of them is being sent on, or 0
    cache,             \* external: the epoch of the oldest audio that the service
                       \* has heard since its last reset, or 0
    replies,           \* external: results on the way to the reader
    asrBuf             \* _asr_buf

clientVars == <<place, supervised, closing, made, ws, live, reader, connected, out, busy,
                cache, replies, asrBuf>>
linkVars == <<made, ws, live, busy>>
serviceVars == <<cache, replies>>

-----------------------------------------------------------------------------
(* connect, connect_with_reconnect and the supervisor.                     *)

(* _connect_once: the handshake succeeds and _ws is replaced.              *)
Handshakes ==
    /\ place = "opening"
    /\ made < MaxConnections
    /\ MayStall \/ busy = 0
    /\ made' = made + 1 /\ ws' = made' /\ live' = live \union {made'}
    /\ place' = "starting"
    /\ cache' = 0 /\ replies' = <<>>
    /\ UNCHANGED <<supervised, closing, reader, connected, out, busy, asrBuf>>

(* The start message is sent: the reader begins.  When close has taken     *)
(* _ws away meanwhile, the reader fails at once.                           *)
Starts(reconnects) ==
    /\ place = "starting"
    /\ connected' = (ws # 0) /\ reader' = ws
    /\ supervised' = (supervised \/ reconnects)
    /\ place' = IF reconnects THEN "watching" ELSE "idle"
    /\ UNCHANGED <<linkVars, serviceVars, closing, out, asrBuf>>

\* Mutant: a failed attempt is the last one.
AfterFailure_GivesUp(reconnects) == "idle"

AfterFailure(reconnects) == IF reconnects THEN "pausing" ELSE "idle"

AttemptFails(reconnects) ==
    /\ place = "opening" \/ (place = "starting" /\ ws \notin live)
    /\ connected' = FALSE
    /\ place' = AfterFailure(reconnects)
    /\ UNCHANGED <<linkVars, serviceVars, supervised, closing, reader, out, asrBuf>>

(* The supervisor finds that the reader has ended.                         *)
FindsDrop ==
    /\ place = "watching" /\ reader = 0
    /\ place' = IF closing = "no" THEN "pausing" ELSE "idle"
    /\ UNCHANGED <<linkVars, serviceVars, supervised, closing, reader, connected, out, asrBuf>>

\* Mutant: what was buffered before the drop is kept.
BufferAtReconnect_Kept == asrBuf

(* The buffers when the supervisor connects again: cleared.                *)
BufferAtReconnect == IF supervised THEN <<>> ELSE asrBuf

(* The next attempt, after the delay.                                      *)
PauseEnds ==
    /\ place = "pausing"
    /\ place' = IF closing = "no" THEN "opening" ELSE "idle"
    /\ asrBuf' = BufferAtReconnect
    /\ UNCHANGED <<linkVars, serviceVars, supervised, closing, reader, connected, out>>

-----------------------------------------------------------------------------
(* The reader, which ends when the connection is lost.                     *)

Reads ==
    /\ reader # 0
    /\ replies # <<>> /\ Len(asrBuf) < MaxReplies
    /\ asrBuf' = Append(asrBuf, Head(replies))
    /\ replies' = Tail(replies)
    /\ UNCHANGED <<place, supervised, closing, linkVars, reader, connected, out, cache>>

ReaderEnds ==
    /\ reader # 0 /\ reader \notin live
    /\ reader' = 0
    /\ connected' = FALSE
    /\ UNCHANGED <<place, supervised, closing, linkVars, serviceVars, out, asrBuf>>

-----------------------------------------------------------------------------
(* Sends: one task per message, one at a time under _send_lock.            *)

(* send_frame and send_control: nothing is sent while disconnected.  The   *)
(* epoch of a frame is kept, 0 stands for advance_epoch.                   *)
Sent(message) ==
    IF connected /\ ws # 0 THEN Append(out, message) ELSE out

SendBegins ==
    /\ out # <<>> /\ busy = 0 /\ ws # 0
    /\ busy' = ws
    /\ UNCHANGED <<place, supervised, closing, made, ws, live, reader, connected, out,
                   serviceVars, asrBuf>>

Heard(message) ==
    IF message = 0 THEN 0 ELSE IF cache = 0 THEN message ELSE cache

SendEnds ==
    /\ busy # 0
    /\ busy' = 0 /\ out' = Tail(out)
    /\ IF busy \in live
       THEN /\ cache' = IF busy = ws THEN Heard(Head(out)) ELSE cache
            /\ UNCHANGED connected
       ELSE connected' = FALSE /\ UNCHANGED cache
    /\ UNCHANGED <<place, supervised, closing, made, ws, live, reader, replies, asrBuf>>

(* Without a connection object a send fails at once.                       *)
SendFails ==
    /\ out # <<>> /\ busy = 0 /\ ws = 0
    /\ out' = Tail(out) /\ connected' = FALSE
    /\ UNCHANGED <<place, supervised, closing, linkVars, serviceVars, reader, asrBuf>>

-----------------------------------------------------------------------------
(* External: the service answers, and connections are lost, as long as     *)
(* another one can be made within the bound.                               *)

Recognises ==
    /\ cache # 0 /\ ws \in live
    /\ Len(replies) < MaxReplies
    /\ replies' = Append(replies, [heard |-> cache, on |-> ws])
    /\ cache' = 0
    /\ UNCHANGED <<place, supervised, closing, linkVars, reader, connected, out, asrBuf>>

LinkDrops ==
    /\ ws \in live
    /\ made < MaxConnections
    /\ live' = live \ {ws}
    /\ UNCHANGED <<place, supervised, closing, made, ws, busy, reader, connected, out,
                   serviceVars, asrBuf>>

-----------------------------------------------------------------------------
(* close: the supervisor is cancelled, and with it the reader that it      *)
(* awaits; then the reader is cancelled and the connection closed.  The    *)
(* first connect belongs to its caller and is not cancelled.               *)

CloseBegins ==
    /\ closing = "no"
    /\ closing' = "begun"
    /\ supervised' = FALSE
    /\ place' = IF supervised THEN "idle" ELSE place
    /\ reader' = IF supervised /\ place = "watching" THEN 0 ELSE reader
    /\ connected' = (connected /\ ~(supervised /\ place = "watching"))
    /\ UNCHANGED <<linkVars, serviceVars, out, asrBuf>>

CloseEnds ==
    /\ closing = "begun"
    /\ closing' = "done"
    /\ connected' = FALSE /\ reader' = 0
    /\ ws' = 0 /\ live' = live \ {ws}
    /\ UNCHANGED <<place, supervised, made, busy, serviceVars, out, asrBuf>>

-----------------------------------------------------------------------------
ClientStep(reconnects) ==
    \/ Handshakes \/ Starts(reconnects) \/ AttemptFails(reconnects) \/ FindsDrop \/ PauseEnds
    \/ Reads \/ ReaderEnds \/ SendBegins \/ SendEnds \/ SendFails
    \/ Recognises \/ LinkDrops \/ CloseBegins \/ CloseEnds

ClientInit(connects) ==
    /\ place = IF connects THEN "opening" ELSE "idle"
    /\ supervised = FALSE /\ closing = "no"
    /\ made = 0 /\ ws = 0 /\ live = {}
    /\ reader = 0 /\ connected = FALSE
    /\ out = <<>> /\ busy = 0
    /\ cache = 0 /\ replies = <<>> /\ asrBuf = <<>>
=============================================================================
