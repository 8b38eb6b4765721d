-------------------------- MODULE RegionPlayer_proofs --------------------------
(***************************************************************************)
(* The video sink under the region codec and its players: the order of the *)
(* frames and of the keyframes that mark an epoch, the wakeups of the      *)
(* sockets and the pictures that are shown, for any number of clients,     *)
(* epochs and frames and for queues of any size.                           *)
(***************************************************************************)
EXTENDS RegionPlayer, VideoSink_proofs

LEMMA PlayerSinkMoves == [PlayerNext]_playerVars => SinkMoves
BY DEF PlayerNext, playerVars, SinkMoves, PublishRegion, PlayerSocket, Decodes, Kinds

LEMMA PlayerAlwaysSink == PlayerSpec => []SinkInv
BY SinkInvInit, SinkInvStep, PlayerSinkMoves, PTL DEF PlayerSpec, PlayerInit

(* The frames that reach a client never go back to an older epoch, whatever*)
(* its queue loses and however slow it is (ws_sink.py, loopqueue.py).      *)
THEOREM EpochsAlwaysAscend == PlayerSpec => []EpochsAscend
BY SinkInvAscends, PlayerAlwaysSink, PTL

(* A socket waits only while there is nothing for its client, through      *)
(* hand-offs, timeouts and the end of the session (ws_routes.py).          *)
THEOREM ClientsAreServed == PlayerSpec => []ClientsServed
<1>1. SinkInv => ClientsServed
  BY SinkTypedServes DEF SinkInv
<1> QED
  BY <1>1, PlayerAlwaysSink, PTL

(* The sink and the queues of its clients keep their types under every     *)
(* interleaving of publishers, clients and timeouts (ws_sink.py).          *)
THEOREM SinkTypeCorrect == PlayerSpec => []SinkTypeOK
<1>1. SinkInv => SinkTypeOK
  BY SinkTypedOK DEF SinkInv
<1> QED
  BY <1>1, PlayerAlwaysSink, PTL

-----------------------------------------------------------------------------
(* The frame with the next number that is of another epoch is a keyframe   *)
(* with the boundary flag.  It is the next frame the sink makes that has to*)
(* be marked: the sink's epoch has moved on since the last one, or         *)
(* _boundary_pending tells.  The numbers must not come round again, and    *)
(* the encoder must not lose the frame that had the flag.                  *)

Exact == ~MayFailEncode /\ MaxSeq < SeqMod

MarkedOrder ==
    {x \in Frame \X Frame :
        x[2].seq = x[1].seq + 1 /\ x[1].epoch # x[2].epoch => x[2].boundary /\ x[2].key}

BoundaryInv ==
    /\ seq <= MaxSeq
    /\ \A c \in Clients :
          /\ Lined(clients[c], MarkedOrder)
          /\ \A f \in FramesOf(clients[c]) :
                /\ f.seq < seq
                /\ f.seq + 1 = seq => f.epoch = sinkEpoch \/ boundaryPending

LEMMA BoundaryInit == SinkInit => BoundaryInv
<1> SUFFICES ASSUME SinkInit PROVE BoundaryInv
  OBVIOUS
<1>1. seq <= MaxSeq
  BY SinkAssumption DEF SinkInit
<1> QED
  BY <1>1, SinkStarts DEF BoundaryInv

(* What a step of the sink does to the numbers.                            *)
LEMMA NumberStep ==
    ASSUME Exact, SinkTyped, seq < MaxSeq,
           NEW e \in 0..MaxEpoch, NEW kind \in Kinds, PublishFrame(e, kind)
    PROVE  \/ Refused(e) /\ UNCHANGED sinkVars
           \/ /\ ~Refused(e)
              /\ seq' = seq + 1
              /\ sinkEpoch <= e /\ sinkEpoch' = e
              /\ \/ UNCHANGED clients
                 \/ \E f \in Frame : Stamped(f, e, kind) /\ Offers({f})
<1>1. (seq + 1) % SeqMod = seq + 1
  <2>1. seq + 1 \in 0..(SeqMod - 1) /\ SeqMod \in Nat \ {0}
    BY SinkAssumption DEF SinkTyped, Exact
  <2> QED
    BY <2>1
<1> QED
  BY <1>1, PublishOffers DEF Exact

LEMMA BoundaryPublish ==
    ASSUME Exact, SinkTyped, BoundaryInv, seq < MaxSeq,
           NEW e \in 0..MaxEpoch, NEW kind \in Kinds, PublishFrame(e, kind)
    PROVE  BoundaryInv'
<1>0. seq \in Nat /\ MaxSeq \in Nat /\ sinkEpoch \in Nat /\ e \in Nat
  BY SinkAssumption DEF SinkTyped
<1>1. CASE UNCHANGED sinkVars
  BY <1>1 DEF sinkVars, BoundaryInv
<1>2. CASE seq' = seq + 1 /\ UNCHANGED clients
  <2>1. \A c \in Clients : \A f \in FramesOf(clients[c]) : f.seq \in Int
    BY FramesTyped, SinkAssumption DEF Frame
  <2> QED
    BY <1>0, <1>2, <2>1 DEF BoundaryInv
<1>3. ASSUME seq' = seq + 1, sinkEpoch <= e, sinkEpoch' = e,
             NEW f \in Frame, Stamped(f, e, kind), Offers({f})
      PROVE  BoundaryInv'
  <2> SUFFICES ASSUME NEW c \in Clients
               PROVE  /\ Lined(clients'[c], MarkedOrder)
                      /\ \A g \in FramesOf(clients'[c]) :
                            /\ g.seq < seq'
                            /\ g.seq + 1 = seq' => g.epoch = sinkEpoch' \/ boundaryPending'
    BY <1>0, <1>3 DEF BoundaryInv
  <2>1. \A g \in FramesOf(clients[c]) :
           /\ g \in Frame /\ g.seq \in Int /\ g.epoch \in Int /\ g.seq < seq
           /\ g.seq + 1 = seq => g.epoch = sinkEpoch \/ boundaryPending
    BY FramesTyped, SinkAssumption DEF Frame, BoundaryInv
  <2>2. f.seq = seq /\ f.epoch = e /\ (boundaryPending \/ e > sinkEpoch => f.boundary /\ f.key)
    BY <1>3 DEF Stamped
  <2>3. \A g \in FramesOf(clients[c]) :
           f.seq = g.seq + 1 /\ g.epoch # f.epoch => f.boundary /\ f.key
    BY <1>0, <1>3, <2>1, <2>2
  <2>4. FramesOf(clients[c]) \X {f} \subseteq MarkedOrder
    BY <2>1, <2>3 DEF MarkedOrder
  <2>5. Lined(clients'[c], MarkedOrder)
    BY <1>3, <2>4, OffersLined DEF BoundaryInv
  <2>6. FramesOf(clients'[c]) \subseteq FramesOf(clients[c]) \cup {f}
    BY <1>3, OffersFrames
  <2> QED
    BY <1>0, <1>3, <2>1, <2>2, <2>5, <2>6
<1> QED
  BY <1>1, <1>2, <1>3, NumberStep

LEMMA BoundaryQuiet ==
    ASSUME SinkTyped, BoundaryInv, Offers({}), seq' = seq,
           \/ UNCHANGED <<sinkEpoch, boundaryPending>>
           \/ boundaryPending'
    PROVE  BoundaryInv'
<1> SUFFICES ASSUME NEW c \in Clients
             PROVE  /\ Lined(clients'[c], MarkedOrder)
                    /\ \A g \in FramesOf(clients'[c]) :
                          /\ g.seq < seq'
                          /\ g.seq + 1 = seq' => g.epoch = sinkEpoch' \/ boundaryPending'
  BY DEF BoundaryInv
<1>1. Lined(clients'[c], MarkedOrder)
  BY OffersLined DEF BoundaryInv
<1>2. FramesOf(clients'[c]) \subseteq FramesOf(clients[c])
  BY OffersFrames
<1> QED
  BY <1>1, <1>2 DEF BoundaryInv

(* A step of the player's specification: a frame is published while there  *)
(* are numbers left, or the sink does something else.                      *)
LEMMA PlayerMoves ==
    ASSUME [PlayerNext]_playerVars
    PROVE  \/ \E e \in 0..MaxEpoch, bg \in Backgrounds :
                 seq < MaxSeq /\ PublishRegion(e, "speech", bg)
           \/ /\ \/ UNCHANGED sinkVars
                 \/ \E e \in 0..MaxEpoch : SinkCancelEpoch(e)
                 \/ SinkStop
                 \/ ApplyFeedback
                 \/ \E c \in Clients : ClientStep(c)
              /\ UNCHANGED <<base, wire>>
              /\ \/ UNCHANGED player
                 \/ \E c \in Clients : PlayerSocket(c) \/ Decodes(c)
BY DEF PlayerNext, playerVars, PlayerSocket, Decodes

LEMMA BoundaryStep ==
    Exact /\ SinkTyped /\ BoundaryInv /\ [PlayerNext]_playerVars => BoundaryInv'
<1> SUFFICES ASSUME Exact, SinkTyped, BoundaryInv, [PlayerNext]_playerVars PROVE BoundaryInv'
  OBVIOUS
<1>1. ASSUME NEW e \in 0..MaxEpoch, NEW bg \in Backgrounds, seq < MaxSeq,
             PublishRegion(e, "speech", bg)
      PROVE  BoundaryInv'
  BY <1>1, BoundaryPublish DEF PublishRegion, Kinds
<1>2. CASE \/ UNCHANGED sinkVars
           \/ \E e \in 0..MaxEpoch : SinkCancelEpoch(e)
           \/ SinkStop
           \/ ApplyFeedback
           \/ \E c \in Clients : ClientStep(c)
  BY <1>2, QuietOffers, BoundaryQuiet
<1> QED
  BY <1>1, <1>2, PlayerMoves

LEMMA PlayerAlwaysMarked == Exact => (PlayerSpec => []BoundaryInv)
<1> SUFFICES ASSUME Exact PROVE PlayerSpec => []BoundaryInv
  OBVIOUS
<1>1. SinkInv /\ BoundaryInv /\ [PlayerNext]_playerVars => BoundaryInv'
  BY BoundaryStep DEF SinkInv
<1> QED
  BY <1>1, BoundaryInit, PlayerAlwaysSink, PTL DEF PlayerSpec, PlayerInit

(* Of two frames that a client receives one after the other and whose      *)
(* numbers are consecutive, the second has the boundary flag and is a      *)
(* keyframe if it is of another epoch (ws_sink.py:18-20), as long as the   *)
(* encoder does not fail on the frame that has the flag, and the 16 bits of*)
(* the number do not come round while a client misses exactly that many    *)
(* frames.  A client whose queue has lost the frame with the flag is not   *)
(* told: it sees a gap in the numbers, and nothing is said of it.          *)
THEOREM BoundariesAreMarked ==
    ~MayFailEncode /\ MaxSeq < SeqMod => (PlayerSpec => []BoundaryIsMarked)
<1> SUFFICES ASSUME Exact PROVE PlayerSpec => []BoundaryIsMarked
  BY DEF Exact
<1>1. SinkTyped /\ BoundaryInv => BoundaryIsMarked
  <2> SUFFICES ASSUME SinkTyped, BoundaryInv, NEW c \in Clients,
                      NEW i \in 2..Len(OnItsWay(c)),
                      OnItsWay(c)[i].seq = (OnItsWay(c)[i - 1].seq + 1) % SeqMod,
                      OnItsWay(c)[i].epoch # OnItsWay(c)[i - 1].epoch
               PROVE  OnItsWay(c)[i].boundary /\ OnItsWay(c)[i].key
    BY DEF BoundaryIsMarked
  <2> DEFINE s == OnItsWay(c)
  <2>1. /\ s \in Seq(Frame)
        /\ \A n \in 1..Len(s) : s[n] \in FramesOf(clients[c])
        /\ \A m, n \in 1..Len(s) : m < n => <<s[m], s[n]>> \in MarkedOrder
    BY OnItsWayLined DEF BoundaryInv
  <2> HIDE DEF s
  <2>2. i - 1 \in 1..Len(s) /\ i \in 1..Len(s) /\ i - 1 < i
    BY <2>1 DEF s
  <2>3. <<s[i - 1], s[i]>> \in MarkedOrder
    BY <2>1, <2>2
  <2>4. s[i - 1].seq \in Nat /\ s[i - 1].seq < seq /\ seq <= MaxSeq
    <3>1. s[i - 1] \in FramesOf(clients[c]) /\ s[i - 1] \in Frame
      BY <2>1, <2>2, FramesTyped
    <3> QED
      BY <3>1, SinkAssumption DEF BoundaryInv, Frame
  <2>5. (s[i - 1].seq + 1) % SeqMod = s[i - 1].seq + 1
    <3>1. seq \in Int /\ MaxSeq \in Int /\ SeqMod \in Nat \ {0}
      BY SinkAssumption DEF SinkTyped
    <3>2. s[i - 1].seq + 1 \in 0..(SeqMod - 1)
      BY <2>4, <3>1 DEF Exact
    <3>3. \A m \in Nat \ {0} : \A n \in 0..(m - 1) : n % m = n
      OBVIOUS
    <3> QED
      BY <3>1, <3>2, <3>3
  <2> QED
    BY <2>3, <2>5 DEF s, MarkedOrder
<1>2. SinkInv => SinkTyped
  BY DEF SinkInv
<1>3. PlayerSpec => []BoundaryInv
  BY PlayerAlwaysMarked
<1> QED
  BY <1>1, <1>2, <1>3, PlayerAlwaysSink, PTL

-----------------------------------------------------------------------------
(* The pictures.                                                           *)

Numbers == 0..(SeqMod - 1)

SentFrame == [bg : Backgrounds, changed : BOOLEAN]

Pending == [frame : Frame, whole : BOOLEAN, canvas : Numbers \cup {None}]

Drawn == [seq : Numbers, on : Backgrounds \cup {None}, sure : BOOLEAN]

Players ==
    [last : Numbers \cup {None}, under : Backgrounds \cup {None}, drawn : Drawn \cup {None},
     decoding : Seq(Pending), canvas : Numbers \cup {None}, whole : BOOLEAN,
     laid : Numbers \cup {None}]

(* The first n frames have been encoded with backgrounds w, the last one   *)
(* with b; a frame that is not a canvas has that of the frame before.      *)
Encoded(w, b, n) ==
    /\ w \in [0..MaxSeq -> SentFrame \cup {None}]
    /\ \A m \in 0..(n - 1) : w[m] \in SentFrame
    /\ n > 0 => b = w[n - 1].bg
    /\ \A m \in 1..(n - 1) : ~w[m].changed => w[m].bg = w[m - 1].bg

(* A decode that is pending: nothing is missing since a canvas that was    *)
(* filmed against the same background.                                     *)
PendingFits(d, w, n) ==
    /\ d.frame.seq < n
    /\ d.frame.key \/ w[d.frame.seq].changed => d.canvas = d.frame.seq
    /\ d.whole => d.canvas \in 0..(n - 1) /\ w[d.canvas].bg = w[d.frame.seq].bg

(* A player: the same of what has arrived last; and below the mouth there  *)
(* is the background of the canvas that was drawn last.                    *)
Fits(p, w, n) ==
    /\ p \in Players
    /\ p.whole => /\ p.last \in 0..(n - 1) /\ p.canvas \in 0..(n - 1)
                  /\ w[p.canvas].bg = w[p.last].bg
    /\ \A i \in 1..Len(p.decoding) : PendingFits(p.decoding[i], w, n)
    /\ p.laid # None => p.laid \in 0..(n - 1) /\ p.under = w[p.laid].bg
    /\ p.drawn # None /\ p.drawn.sure =>
          p.drawn.seq \in 0..(n - 1) /\ p.drawn.on = w[p.drawn.seq].bg

PictureInv ==
    /\ Encoded(wire, base, seq)
    /\ player = [c \in Clients |-> player[c]]
    /\ \A c \in Clients : Fits(player[c], wire, seq)

LEMMA NewPlayerFits == \A w, n : Fits(NewPlayer, w, n)
<1>1. NewPlayer \in Players /\ Len(NewPlayer.decoding) = 0
  BY DEF NewPlayer, Players
<1> QED
  BY <1>1 DEF NewPlayer, Fits

(* More frames are encoded.                                                *)
LEMMA LaterFits ==
    ASSUME NEW p, NEW w, NEW v, NEW n \in Nat, NEW m \in Nat, n <= m,
           Fits(p, w, n), \A i \in 0..(n - 1) : v[i] = w[i]
    PROVE  Fits(p, v, m)
<1>1. 0..(n - 1) \subseteq 0..(m - 1)
  OBVIOUS
<1>2. ASSUME NEW d \in Pending, PendingFits(d, w, n) PROVE PendingFits(d, v, m)
  <2>1. d.frame.seq \in 0..(n - 1) /\ d.frame.seq < m
    BY <1>2, SinkAssumption DEF Pending, Frame, PendingFits
  <2> QED
    BY <1>1, <1>2, <2>1 DEF PendingFits
<1>3. \A i \in 1..Len(p.decoding) : p.decoding[i] \in Pending
  <2>1. p.decoding \in Seq(Pending)
    BY DEF Fits, Players
  <2> QED
    BY <2>1
<1> QED
  BY <1>1, <1>2, <1>3 DEF Fits

LEMMA EncodedStep ==
    ASSUME NEW w, NEW b, NEW n \in Nat, n <= MaxSeq, Encoded(w, b, n), NEW bg \in Backgrounds,
           NEW v, v = [w EXCEPT ![n] = [bg |-> bg, changed |-> bg # b]]
    PROVE  Encoded(v, bg, n + 1)
<1>1. /\ v \in [0..MaxSeq -> SentFrame \cup {None}]
      /\ v[n] = [bg |-> bg, changed |-> bg # b] /\ v[n] \in SentFrame
      /\ \A m \in 0..(n - 1) : v[m] = w[m]
  BY SinkAssumption DEF Encoded, SentFrame
<1>2. \A m \in 0..n : m = n \/ m \in 0..(n - 1)
  OBVIOUS
<1>3. \A m \in 0..n : v[m] \in SentFrame
  BY <1>1, <1>2 DEF Encoded
<1>4. ASSUME NEW m \in 1..n, ~v[m].changed PROVE v[m].bg = v[m - 1].bg
  <2>1. CASE m = n
    <3>0. v[n].changed = (bg # b) /\ v[n].bg = bg
      BY <1>1
    <3>1. bg = b /\ v[m - 1] = w[m - 1] /\ v[m].bg = bg
      <4>1. m - 1 \in 0..(n - 1)
        BY <2>1
      <4> QED
        BY <1>1, <1>4, <2>1, <3>0, <4>1
    <3> QED
      BY <2>1, <3>1 DEF Encoded
  <2>2. CASE m \in 1..(n - 1)
    <3>1. m \in 0..(n - 1) /\ m - 1 \in 0..(n - 1)
      BY <2>2
    <3> QED
      BY <1>1, <1>4, <2>2, <3>1 DEF Encoded
  <2> QED
    BY <2>1, <2>2
<1> QED
  BY <1>1, <1>3, <1>4 DEF Encoded

(* The next frame comes to a player.                                       *)
LEMMA HandledFits ==
    ASSUME Exact, NEW p, seq \in Nat, seq <= MaxSeq, NEW f \in Frame, f.seq < seq,
           Encoded(wire, base, seq), Fits(p, wire, seq)
    PROVE  Fits(Handled(p, f), wire, seq)
<1> DEFINE whole == IsCanvas(f) \/ (p.whole /\ f.seq = (p.last + 1) % SeqMod)
           canvas == IF IsCanvas(f) THEN f.seq ELSE p.canvas
           d == [frame |-> f, whole |-> whole, canvas |-> canvas]
           new == Handled(p, f)
<1>1. f.seq \in Numbers /\ f.seq \in 0..(seq - 1) /\ seq \in Int
  BY SinkAssumption DEF Frame, Numbers
<1>2. p \in Players /\ p.decoding \in Seq(Pending)
  BY DEF Fits, Players
<1>3. whole \in BOOLEAN /\ canvas \in Numbers \cup {None}
  <2>1. f.key \in BOOLEAN /\ wire[f.seq].changed \in BOOLEAN /\ p.whole \in BOOLEAN
    BY <1>1, <1>2 DEF Frame, Encoded, SentFrame, Players
  <2> QED
    BY <1>1, <1>2, <2>1 DEF IsCanvas, Players
<1>4. d \in Pending /\ d.frame = f /\ d.whole = whole /\ d.canvas = canvas
  <2> HIDE DEF whole, canvas
  <2> QED
    BY <1>3 DEF Pending
<1>5. whole => canvas \in 0..(seq - 1) /\ wire[canvas].bg = wire[f.seq].bg
  <2>1. CASE IsCanvas(f)
    BY <1>1, <2>1
  <2>2. CASE ~IsCanvas(f) /\ p.whole /\ f.seq = (p.last + 1) % SeqMod
    <3>1. /\ p.last \in 0..(seq - 1) /\ p.canvas \in 0..(seq - 1)
          /\ wire[p.canvas].bg = wire[p.last].bg
      BY <2>2 DEF Fits
    <3>2. (p.last + 1) % SeqMod = p.last + 1
      <4>1. \A m \in Nat \ {0} : \A n \in 0..(m - 1) : n % m = n
        OBVIOUS
      <4>2. p.last + 1 \in 0..(SeqMod - 1) /\ SeqMod \in Nat \ {0}
        BY <1>1, <3>1, SinkAssumption DEF Exact
      <4> QED
        BY <4>1, <4>2
    <3>3. f.seq \in 1..(seq - 1) /\ f.seq - 1 = p.last
      BY <1>1, <2>2, <3>1, <3>2
    <3>4. wire[f.seq].bg = wire[f.seq - 1].bg
      BY <2>2, <3>3 DEF IsCanvas, Encoded
    <3> QED
      BY <2>2, <3>1, <3>3, <3>4
  <2> QED
    BY <2>1, <2>2
<1>6. PendingFits(d, wire, seq)
  <2>1. f.key \/ wire[f.seq].changed => canvas = f.seq
    BY DEF IsCanvas
  <2> HIDE DEF d, whole, canvas
  <2> QED
    BY <1>4, <1>5, <2>1 DEF PendingFits
<1> DEFINE decoding == Append(p.decoding, d)
<1>7. /\ new \in Players
      /\ new.last = f.seq /\ new.whole = whole /\ new.canvas = canvas
      /\ new.decoding = decoding
      /\ new.under = p.under /\ new.drawn = p.drawn /\ new.laid = p.laid
  <2>1. new = [p EXCEPT !.last = f.seq, !.whole = whole, !.canvas = canvas, !.decoding = decoding]
    BY DEF Handled
  <2> HIDE DEF new, whole, canvas, d
  <2>2. decoding \in Seq(Pending)
    BY <1>2, <1>4
  <2> HIDE DEF decoding
  <2> QED
    BY <1>1, <1>2, <1>3, <2>1, <2>2 DEF Players
<1>8. \A i \in 1..Len(decoding) : PendingFits(decoding[i], wire, seq)
  <2> HIDE DEF d
  <2>1. \A i \in 1..Len(decoding) :
           (i \in 1..Len(p.decoding) /\ decoding[i] = p.decoding[i]) \/ decoding[i] = d
    BY <1>2, <1>4
  <2> HIDE DEF decoding
  <2> QED
    BY <1>6, <2>1 DEF Fits
<1> HIDE DEF new, whole, canvas, d, decoding
<1>9. Fits(new, wire, seq)
  BY <1>1, <1>5, <1>7, <1>8 DEF Fits
<1> QED
  BY <1>9 DEF new

(* A decode ends.                                                          *)
LEMMA ComposedFits ==
    ASSUME NEW p, seq \in Nat, Encoded(wire, base, seq), Fits(p, wire, seq),
           NEW i \in DOMAIN p.decoding
    PROVE  Fits(Composed(p, i), wire, seq)
<1> DEFINE d == p.decoding[i]
           f == d.frame
           bg == IF IsCanvas(f) THEN wire[f.seq].bg ELSE p.under
           laid == IF IsCanvas(f) THEN f.seq ELSE p.laid
           sure == d.whole /\ d.canvas = laid
           drawn == [seq |-> f.seq, on |-> bg, sure |-> sure]
           decoding == SeqExt!RemoveAt(p.decoding, i)
           new == Composed(p, i)
<1>1. p \in Players /\ p.decoding \in Seq(Pending) /\ i \in 1..Len(p.decoding)
  BY DEF Fits, Players
<1>2. d \in Pending /\ PendingFits(d, wire, seq)
  BY <1>1 DEF Fits
<1>3. /\ f \in Frame /\ f.seq \in Numbers /\ f.seq \in 0..(seq - 1)
      /\ wire[f.seq] \in SentFrame
  <2>1. f \in Frame /\ f.seq < seq
    BY <1>2 DEF Pending, PendingFits
  <2> HIDE DEF f
  <2>2. f.seq \in Numbers /\ f.seq \in 0..(seq - 1)
    BY <2>1, SinkAssumption DEF Frame, Numbers
  <2> QED
    BY <2>1, <2>2 DEF Encoded
<1>4. decoding \in Seq(Pending) /\ \A k \in 1..Len(decoding) : \E j \in 1..Len(p.decoding) :
                                      decoding[k] = p.decoding[j]
  <2>1. decoding = Without(p.decoding, {i})
    <3>1. (CHOOSE j \in {i} : TRUE) = i /\ {i} # {}
      OBVIOUS
    <3> QED
      BY <3>1 DEF Without
  <2> DEFINE s == p.decoding
             mine == {i}
  <2>2. mine \in SUBSET DOMAIN s /\ s \in Seq(Pending)
    BY <1>1
  <2> HIDE DEF decoding, s, mine
  <2>3. Without(s, mine) \in Seq(Pending)
    BY <2>2, WithoutType
  <2>4. \A k \in 1..Len(Without(s, mine)) : \E j \in 1..Len(s) : Without(s, mine)[k] = s[j]
    BY <2>2, WithoutElements
  <2> QED
    BY <2>1, <2>3, <2>4 DEF s, mine
<1>5. /\ bg \in Backgrounds \cup {None} /\ laid \in Numbers \cup {None}
      /\ laid # None => laid \in 0..(seq - 1) /\ bg = wire[laid].bg
      /\ IsCanvas(f) => laid = f.seq /\ d.canvas = f.seq
  <2>1. /\ p.under \in Backgrounds \cup {None} /\ p.laid \in Numbers \cup {None}
        /\ p.laid # None => p.laid \in 0..(seq - 1) /\ p.under = wire[p.laid].bg
    BY <1>1 DEF Players, Fits
  <2>2. IsCanvas(f) => d.canvas = f.seq
    BY <1>2 DEF PendingFits, IsCanvas
  <2>3. wire[f.seq].bg \in Backgrounds
    BY <1>3 DEF SentFrame
  <2> HIDE DEF f
  <2>4. CASE IsCanvas(f)
    BY <1>3, <2>2, <2>3, <2>4
  <2>5. CASE ~IsCanvas(f)
    BY <2>1, <2>5
  <2> QED
    BY <2>4, <2>5
<1>6. sure => bg = wire[f.seq].bg
  <2>1. d.whole => d.canvas \in 0..(seq - 1) /\ wire[d.canvas].bg = wire[f.seq].bg
    BY <1>2 DEF PendingFits
  <2>2. ASSUME sure PROVE laid \in 0..(seq - 1) /\ laid # None
    <3>1. laid \in Nat
      BY <2>1, <2>2
    <3> QED
      BY <2>1, <2>2, <3>1, PlayerAssumption
  <2> HIDE DEF f, bg, laid, d
  <2> QED
    BY <1>5, <2>1, <2>2
<1>7. sure \in BOOLEAN /\ drawn \in Drawn
  <2>1. sure \in BOOLEAN
    BY <1>2 DEF Pending
  <2> HIDE DEF sure, f, bg
  <2> QED
    BY <1>3, <1>5, <2>1 DEF Drawn
<1>8. /\ new \in Players
      /\ new.decoding = decoding /\ new.under = bg /\ new.laid = laid /\ new.drawn = drawn
      /\ new.last = p.last /\ new.whole = p.whole /\ new.canvas = p.canvas
  <2>1. new = [p EXCEPT !.decoding = decoding, !.under = bg, !.laid = laid, !.drawn = drawn]
    BY <1>1 DEF Composed, Players
  <2> HIDE DEF new, decoding, bg, laid, drawn
  <2> QED
    BY <1>1, <1>4, <1>5, <1>7, <2>1 DEF Players
<1>9. drawn.sure => drawn.seq \in 0..(seq - 1) /\ drawn.on = wire[drawn.seq].bg
  <2> HIDE DEF f, bg, sure
  <2> QED
    BY <1>3, <1>6
<1>10. \A k \in 1..Len(decoding) : PendingFits(decoding[k], wire, seq)
  <2> HIDE DEF decoding
  <2> QED
    BY <1>4 DEF Fits
<1> HIDE DEF new, decoding, bg, laid, drawn, f, sure, d
<1>11. Fits(new, wire, seq)
  BY <1>5, <1>8, <1>9, <1>10 DEF Fits
<1> QED
  BY <1>11 DEF new

LEMMA PictureInit == PlayerInit => PictureInv
<1> SUFFICES ASSUME PlayerInit PROVE PictureInv
  OBVIOUS
<1>1. Encoded(wire, base, seq)
  BY DEF PlayerInit, SinkInit, Encoded
<1>2. player = [c \in Clients |-> player[c]] /\ \A c \in Clients : player[c] = NewPlayer
  BY DEF PlayerInit
<1> QED
  BY <1>1, <1>2, NewPlayerFits DEF PictureInv

LEMMA PicturePublish ==
    ASSUME Exact, SinkTyped, PictureInv, seq < MaxSeq,
           NEW e \in 0..MaxEpoch, NEW bg \in Backgrounds, PublishRegion(e, "speech", bg)
    PROVE  PictureInv'
<1>0. seq \in Nat /\ MaxSeq \in Nat
  BY SinkAssumption DEF SinkTyped
<1>1. CASE Refused(e)
  <2>1. UNCHANGED <<seq, base, wire, player>>
    BY <1>1 DEF PublishRegion, PublishFrame, sinkVars
  <2> QED
    BY <2>1 DEF PictureInv
<1>2. CASE ~Refused(e)
  <2>1. seq' = seq + 1 /\ seq' # seq
    BY <1>0, <1>2, NumberStep DEF PublishRegion, Kinds
  <2>2. /\ base' = bg
        /\ wire' = [wire EXCEPT ![seq] = [bg |-> bg, changed |-> bg # base]]
        /\ player' = player
    BY <1>2, <2>1 DEF PublishRegion, BaseAfter
  <2>3. Encoded(wire', base', seq')
    <3> DEFINE v == wire'
    <3>1. v = [wire EXCEPT ![seq] = [bg |-> bg, changed |-> bg # base]] /\ seq <= MaxSeq
      BY <1>0, <2>2
    <3> HIDE DEF v
    <3>2. Encoded(v, bg, seq + 1)
      BY <1>0, <3>1, EncodedStep DEF PictureInv
    <3> QED
      BY <2>1, <2>2, <3>2 DEF v
  <2>4. \A i \in 0..(seq - 1) : wire'[i] = wire[i]
    BY <1>0, <2>2 DEF PictureInv, Encoded
  <2>5. ASSUME NEW c \in Clients PROVE Fits(player[c], wire', seq')
    <3> DEFINE p == player[c]
               w == wire
               v == wire'
               n == seq
               m == seq'
    <3>1. Fits(p, w, n) /\ n \in Nat /\ m \in Nat /\ n <= m /\ \A i \in 0..(n - 1) : v[i] = w[i]
      BY <1>0, <2>1, <2>4 DEF PictureInv
    <3>2. \A q, x, y, i, j : /\ Fits(q, x, i) /\ i \in Nat /\ j \in Nat /\ i <= j
                             /\ \A k \in 0..(i - 1) : y[k] = x[k]
                             => Fits(q, y, j)
      BY LaterFits
    <3> HIDE DEF p, w, v, n, m
    <3>3. Fits(p, v, m)
      BY <3>1, <3>2
    <3> QED
      BY <3>3 DEF p, v, m
  <2> QED
    BY <2>2, <2>3, <2>5 DEF PictureInv
<1> QED
  BY <1>1, <1>2

(* What a socket shows to its player is a frame.                           *)
LEMMA SeesFrame ==
    ASSUME SinkTyped, BoundaryInv, NEW c \in Clients, ClientStep(c),
           clients'[c].joined, clients[c].joined, clients'[c].seen # clients[c].seen
    PROVE  clients'[c].seen \in Frame /\ clients'[c].seen.seq < seq
<1>1. \A new : clients' = [clients EXCEPT ![c] = new] => clients'[c] = new
  BY DEF SinkTyped
<1>2. ~Away.joined
  BY DEF Away
<1>3. clients'[c].seen # None
  <2> SUFFICES ASSUME clients'[c].seen = None PROVE FALSE
    OBVIOUS
  <2>0. clients[c] \in ClientsOf(c)
    BY DEF SinkTyped, Typed
  <2>1. CASE AddClient(c) \/ RemoveClient(c)
    BY <1>1, <1>2, <2>1 DEF AddClient, RemoveClient
  <2>2. CASE RequestKeyframe(c)
    BY <2>0, <2>2 DEF RequestKeyframe, SinkTyped, ClientsOf
  <2>3. ASSUME NEW x, NEW q, Receives(c, x, q) PROVE FALSE
    <3>1. CASE x = None
      BY <1>1, <1>2, <2>3, <3>1 DEF Receives
    <3>2. CASE x # None
      <4>1. clients'[c] = [clients[c] EXCEPT !.seen = x, !.queue = q]
        BY <2>3, <3>2 DEF Receives, SinkTyped
      <4> QED
        BY <2>0, <3>2, <4>1 DEF ClientsOf
    <3> QED
      BY <3>1, <3>2
  <2>4. CASE ClientGets(c)
    <3>1. CASE clients' = [clients EXCEPT ![c].queue = Waiting(clients[c].queue, c)]
      BY <2>0, <3>1 DEF SinkTyped, ClientsOf
    <3> QED
      BY <2>3, <2>4, <3>1 DEF ClientGets
  <2>5. CASE ClientReceives(c)
    BY <2>3, <2>5 DEF ClientReceives
  <2>6. CASE GetTimesOut(c)
    <3>1. CASE sinkClosed
      BY <1>1, <1>2, <2>6, <3>1 DEF GetTimesOut
    <3>2. CASE ~sinkClosed
      BY <1>1, <2>0, <2>6, <3>2 DEF GetTimesOut, ClientsOf
    <3> QED
      BY <3>1, <3>2
  <2> QED
    BY <2>1, <2>2, <2>4, <2>5, <2>6 DEF ClientStep
<1>4. FramesOf(clients'[c]) \subseteq FramesOf(clients[c])
  BY ClientOffers, OffersFrames
<1>5. clients'[c].seen \in FramesOf(clients'[c])
  BY <1>3 DEF FramesOf
<1> QED
  BY <1>4, <1>5, FramesTyped DEF BoundaryInv

(* A step of one player.                                                   *)
LEMMA OnePlayerFits ==
    ASSUME PictureInv, NEW c \in Clients, NEW new, player' = [player EXCEPT ![c] = new],
           Fits(new, wire, seq), UNCHANGED <<base, wire, seq>>
    PROVE  PictureInv'
<1>1. \A d \in Clients : player'[d] = IF d = c THEN new ELSE player[d]
  BY DEF PictureInv
<1>2. player' = [d \in Clients |-> player'[d]]
  BY DEF PictureInv
<1> QED
  BY <1>1, <1>2 DEF PictureInv

LEMMA PictureStep ==
    Exact /\ SinkTyped /\ BoundaryInv /\ PictureInv /\ [PlayerNext]_playerVars => PictureInv'
<1> SUFFICES ASSUME Exact, SinkTyped, BoundaryInv, PictureInv, [PlayerNext]_playerVars
             PROVE  PictureInv'
  OBVIOUS
<1>0. seq \in Nat /\ seq <= MaxSeq /\ Encoded(wire, base, seq)
  BY SinkAssumption DEF SinkTyped, BoundaryInv, PictureInv
<1>1. ASSUME NEW e \in 0..MaxEpoch, NEW bg \in Backgrounds, seq < MaxSeq,
             PublishRegion(e, "speech", bg)
      PROVE  PictureInv'
  BY <1>1, PicturePublish
<1>2. CASE UNCHANGED <<base, wire, player, seq>>
  BY <1>2 DEF PictureInv
<1>3. ASSUME NEW c \in Clients, PlayerSocket(c) PROVE PictureInv'
  <2> DEFINE p == player[c]
             f == clients'[c].seen
  <2>1. ClientStep(c) /\ seq' = seq /\ UNCHANGED <<base, wire>>
    BY <1>3, QuietOffers DEF PlayerSocket
  <2>2. Fits(p, wire, seq)
    BY DEF PictureInv
  <2>3. CASE ~clients'[c].joined \/ ~clients[c].joined
    <3>1. player' = [player EXCEPT ![c] = NewPlayer]
      BY <1>3, <2>3 DEF PlayerSocket
    <3>2. Fits(NewPlayer, wire, seq)
      BY NewPlayerFits
    <3> QED
      BY <2>1, <3>1, <3>2, OnePlayerFits
  <2>4. CASE clients'[c].joined /\ clients[c].joined /\ f # clients[c].seen
    <3>1. player' = [player EXCEPT ![c] = Handled(p, f)]
      BY <1>3, <2>4 DEF PlayerSocket
    <3>2. f \in Frame /\ f.seq < seq
      BY <2>1, <2>4, SeesFrame
    <3> HIDE DEF f, p
    <3>3. Fits(Handled(p, f), wire, seq)
      BY <1>0, <2>2, <3>2, HandledFits
    <3> QED
      BY <2>1, <3>1, <3>3, OnePlayerFits
  <2>5. CASE clients'[c].joined /\ clients[c].joined /\ f = clients[c].seen
    <3>1. player' = [player EXCEPT ![c] = p]
      BY <1>3, <2>5 DEF PlayerSocket
    <3> QED
      BY <2>1, <2>2, <3>1, OnePlayerFits
  <2> QED
    BY <2>3, <2>4, <2>5
<1>4. ASSUME NEW c \in Clients, Decodes(c) PROVE PictureInv'
  <2>1. PICK i \in DOMAIN player[c].decoding : player' = [player EXCEPT ![c] = Composed(@, i)]
    BY <1>4 DEF Decodes
  <2> DEFINE p == player[c]
  <2>2. player' = [player EXCEPT ![c] = Composed(p, i)] /\ i \in DOMAIN p.decoding
    BY <2>1
  <2>3. Fits(p, wire, seq)
    BY DEF PictureInv
  <2> HIDE DEF p
  <2>4. Fits(Composed(p, i), wire, seq)
    BY <1>0, <2>2, <2>3, ComposedFits
  <2>5. UNCHANGED <<base, wire, seq>>
    BY <1>4 DEF Decodes, sinkVars
  <2> QED
    BY <2>2, <2>4, <2>5, OnePlayerFits
<1>5. CASE seq' = seq /\ UNCHANGED <<base, wire, player>>
  BY <1>5 DEF PictureInv
<1> QED
  BY <1>1, <1>3, <1>4, <1>5, PlayerMoves, QuietOffers

(* A mouth is shown on the background it was filmed against, whenever the  *)
(* player can tell that it has missed nothing: whatever else each client   *)
(* has lost, whenever it came, and in whatever order its decodes end       *)
(* (region_codec.py:16-19, player.js).  As above, the numbers must not come*)
(* round, and the encoder must not fail once it has kept the hash.         *)
THEOREM PicturesMatch ==
    ~MayFailEncode /\ MaxSeq < SeqMod => (PlayerSpec => []PictureMatches)
<1> SUFFICES ASSUME Exact PROVE PlayerSpec => []PictureMatches
  BY DEF Exact
<1>1. PictureInv => PictureMatches
  BY DEF PictureInv, Fits, PictureMatches
<1>2. SinkInv /\ BoundaryInv /\ PictureInv /\ [PlayerNext]_playerVars => PictureInv'
  BY PictureStep DEF SinkInv
<1>3. PlayerSpec => []BoundaryInv
  BY PlayerAlwaysMarked
<1> QED
  BY <1>1, <1>2, <1>3, PictureInit, PlayerAlwaysSink, PTL DEF PlayerSpec
===============================================================================
