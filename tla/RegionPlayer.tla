----------------------------- MODULE RegionPlayer -----------------------------
(***************************************************************************)
(* The region codec (region_codec.py) over the video sink, and the browser *)
(* that plays it (web/player.js).  The encoder sends the whole canvas for a*)
(* keyframe or when the background is not that of the frame before, and    *)
(* the mouth otherwise; the player draws the mouth over the last canvas it *)
(* has decoded.  Decoding is asynchronous.  A picture is its background    *)
(* and the number of its frame; tiers, feathering and sizes are left out.  *)
(***************************************************************************)
EXTENDS VideoSink

CONSTANTS
    Backgrounds,       \* what may be behind the mouth
    MaxDecoding,       \* bound: the decodes that may be pending at a player
    MayMisdecode       \* whether decodes may fail or overtake one another

ASSUME PlayerAssumption ==
    /\ None \notin Backgrounds /\ None \notin Nat
    /\ MaxDecoding \in Nat \ {0}
    /\ MayMisdecode \in BOOLEAN

VARIABLES
    base,              \* _base_hash: the background of the last frame encoded
    wire,              \* what has been sent: the background of each frame, and
                       \* whether it differed from base
    player             \* the player of each client

playerVars == <<sinkVars, base, wire, player>>

(* last: lastSeq.  under: the background of the base canvas.  drawn: the   *)
(* frame that is shown and the background it is shown on.  decoding: the   *)
(* decodes that are pending, in the order of arrival.  Histories: canvas,  *)
(* the last canvas that has arrived; whole, no frame is missing since; and *)
(* laid, the canvas that was drawn last.                                   *)
NewPlayer == [last |-> None, under |-> None, drawn |-> None, decoding |-> <<>>,
              canvas |-> None, whole |-> FALSE, laid |-> None]

-----------------------------------------------------------------------------
(* encode.                                                                 *)

\* Mutant: the base is replaced by keyframes only.
BaseAfter_KeyOnly(bg) == IF base = None THEN bg ELSE base

(* The hash is kept before anything can go wrong.                          *)
BaseAfter(bg) == bg

PublishRegion(e, kind, bg) ==
    /\ PublishFrame(e, kind)
    /\ IF Refused(e)
       THEN UNCHANGED <<base, wire>>
       ELSE /\ base' = BaseAfter(bg)
            /\ wire' = IF seq' = seq
                       THEN wire
                       ELSE [wire EXCEPT ![seq] = [bg |-> bg, changed |-> bg # base]]
    /\ UNCHANGED player

IsCanvas(f) == f.key \/ wire[f.seq].changed

-----------------------------------------------------------------------------
(* The player.                                                             *)

(* _handleWire: the frame goes to the decoder.                             *)
Handled(p, f) ==
    LET whole == IsCanvas(f) \/ (p.whole /\ f.seq = (p.last + 1) % SeqMod)
        canvas == IF IsCanvas(f) THEN f.seq ELSE p.canvas
    IN  [p EXCEPT !.last = f.seq,
                  !.whole = whole,
                  !.canvas = canvas,
                  !.decoding = Append(@, [frame |-> f, whole |-> whole, canvas |-> canvas])]

(* What the socket of client c does; a new connection has a new player.    *)
PlayerSocket(c) ==
    /\ ClientStep(c)
    /\ player' =
         [player EXCEPT ![c] =
             IF ~clients'[c].joined \/ ~clients[c].joined THEN NewPlayer
             ELSE IF clients'[c].seen # clients[c].seen   THEN Handled(@, clients'[c].seen)
             ELSE @]
    /\ Len(player'[c].decoding) <= MaxDecoding
    /\ UNCHANGED <<base, wire>>

(* _composePatch: a canvas becomes the base, a mouth is drawn over it.     *)
Composed(p, i) ==
    LET d == p.decoding[i]
        f == d.frame
        bg == IF IsCanvas(f) THEN wire[f.seq].bg ELSE p.under
        laid == IF IsCanvas(f) THEN f.seq ELSE p.laid
    IN  [p EXCEPT !.decoding = SeqExt!RemoveAt(@, i),
                  !.under = bg,
                  !.laid = laid,
                  !.drawn = [seq |-> f.seq, on |-> bg, sure |-> d.whole /\ d.canvas = laid]]

(* A decode ends, perhaps before an earlier one; one that fails is one     *)
(* that never ends.                                                        *)
Decodes(c) ==
    /\ \E i \in DOMAIN player[c].decoding :
          /\ i > 1 => MayMisdecode
          /\ player' = [player EXCEPT ![c] = Composed(@, i)]
    /\ UNCHANGED <<sinkVars, base, wire>>

-----------------------------------------------------------------------------
PlayerInit ==
    /\ SinkInit
    /\ base = None
    /\ wire = [n \in 0..MaxSeq |-> None]
    /\ player = [c \in Clients |-> NewPlayer]

PlayerNext ==
    \/ \E e \in 0..MaxEpoch, bg \in Backgrounds :
          seq < MaxSeq /\ PublishRegion(e, "speech", bg)
    \/ \E e \in 0..MaxEpoch : SinkCancelEpoch(e) /\ UNCHANGED <<base, wire, player>>
    \/ SinkStop /\ UNCHANGED <<base, wire, player>>
    \/ ApplyFeedback /\ UNCHANGED <<base, wire, player>>
    \/ \E c \in Clients : PlayerSocket(c) \/ Decodes(c)

PlayerSpec == PlayerInit /\ [][PlayerNext]_playerVars

-----------------------------------------------------------------------------
(* Properties.                                                             *)

(* A mouth is shown on the background it was filmed against, as long as no *)
(* frame was lost since the canvas before it and that canvas was decoded in*)
(* its turn: an encoder with one base for all its clients suits each of    *)
(* them, whatever the others have received and whenever they came.  After a*)
(* loss the code does not keep what is written of it, that a lost frame    *)
(* never corrupts the stream and that the next frame restores correctness  *)
(* (region_codec.py:17-19, ws_sink.py:21-23): when the canvas of another   *)
(* background is lost, the patches that follow are drawn on the old one    *)
(* until a canvas comes.  Of these nothing is said (`sure`).               *)
PictureMatches ==
    \A c \in Clients :
        LET d == player[c].drawn
        IN  d # None /\ d.sure => d.on = wire[d.seq].bg
=============================================================================
