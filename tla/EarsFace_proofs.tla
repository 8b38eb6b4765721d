---------------------------- MODULE EarsFace_proofs ----------------------------
(***************************************************************************)
(* Theorems about AudioInput and about AvatarWorker, for any thresholds of *)
(* the detectors, any bounds, any number of sessions, and any numbers of   *)
(* reference frames and of frames in a batch.                              *)
(***************************************************************************)
EXTENDS AudioInput, AvatarWorker, SequenceTheorems, TLAPS

-----------------------------------------------------------------------------
(* AudioInput: the types that the proof needs.                             *)

Result == [heard : Nat, on : Nat]

InputTyped ==
    /\ ears \in {"local", "connect", "reconnect"}
    /\ epoch \in Nat \ {0} /\ speechEnd \in Nat
    /\ vad \in [speech : BOOLEAN, hangover : Nat]
    /\ eou \in [pending : BOOLEAN, silence : Int]
    /\ asr \in [pending : Nat, silence : Nat]
    /\ vadActive \in BOOLEAN
    /\ place \in {"opening", "starting", "watching", "pausing", "idle"}
    /\ supervised \in BOOLEAN /\ closing \in {"no", "begun", "done"}
    /\ made \in Nat /\ ws \in Nat /\ reader \in Nat /\ busy \in Nat /\ cache \in Nat
    /\ out \in Seq(Nat) /\ (busy # 0 => out # <<>>)
    /\ replies \in Seq(Result) /\ asrBuf \in Seq(Result)

(* An utterance that waits for its end has seen the speech end, or will;   *)
(* what the recogniser has pending was heard in this epoch.                *)
HeardNow ==
    ears = "local" =>
        /\ eou.pending => vadActive \/ speechEnd = epoch
        /\ asr.pending \in {0, epoch}

(* Without the in-process detectors there is no end of utterance.          *)
RemoteQuiet == ears # "local" => lastEou = Nothing

(* Until the client is closed, a result that is on its way or buffered     *)
(* came over the connection in use: while there is none, nothing reads,    *)
(* and before another one is made the buffer is empty.                     *)
HeardHere ==
    closing = "no" =>
        /\ \A i \in 1..Len(replies) : replies[i].on = ws
        /\ \A i \in 1..Len(asrBuf) : asrBuf[i].on = ws
        /\ place = "opening" => asrBuf = <<>>
        /\ place \in {"opening", "starting", "pausing"} => reader = 0
        /\ place # "idle" /\ ~supervised => asrBuf = <<>> /\ reader = 0

InputInv == InputTyped /\ HeardNow /\ RemoteQuiet /\ HeardHere /\ ActsOnCurrent

-----------------------------------------------------------------------------
LEMMA InputInvInit == InputInit => InputInv
<1> SUFFICES ASSUME InputInit PROVE InputInv
  OBVIOUS
<1>1. InputTyped
  <2>1. vad \in [speech : BOOLEAN, hangover : Nat]
    BY DEF InputInit, NewVad
  <2>2. eou \in [pending : BOOLEAN, silence : Int]
    BY DEF InputInit, NewEou
  <2>3. asr \in [pending : Nat, silence : Nat]
    BY DEF InputInit, NewAsr
  <2>4. out \in Seq(Nat) /\ replies \in Seq(Result) /\ asrBuf \in Seq(Result)
    BY DEF InputInit, ClientInit
  <2>5. vadActive \in BOOLEAN /\ supervised \in BOOLEAN
    BY Zenon DEF InputInit, ClientInit
  <2>6. /\ epoch \in Nat \ {0} /\ speechEnd \in Nat
        /\ ears \in {"local", "connect", "reconnect"} /\ closing \in {"no", "begun", "done"}
        /\ place \in {"opening", "starting", "watching", "pausing", "idle"}
        /\ made \in Nat /\ ws \in Nat /\ reader \in Nat /\ busy = 0 /\ cache \in Nat
    BY DEF InputInit, ClientInit
  <2> QED BY <2>1, <2>2, <2>3, <2>4, <2>5, <2>6 DEF InputTyped
<1>2. HeardNow /\ RemoteQuiet
  BY DEF InputInit, HeardNow, RemoteQuiet, NewEou, NewAsr
<1>3. HeardHere
  BY DEF InputInit, ClientInit, HeardHere
<1>4. ActsOnCurrent
  BY DEF InputInit, ActsOnCurrent, Nothing
<1> QED BY <1>1, <1>2, <1>3, <1>4 DEF InputInv

(* What the detectors do to their records.                                 *)
LEMMA DetectorsTyped ==
    ASSUME InputTyped, NEW level \in Levels, NEW gap \in Nat, NEW active \in BOOLEAN
    PROVE  /\ SpeechEnds(vad, level) \in BOOLEAN /\ SpeechStarts(vad, level) \in BOOLEAN
           /\ VadAfter(vad, level) \in [speech : BOOLEAN, hangover : Nat]
           /\ EouAfter(eou, gap, active) \in [pending : BOOLEAN, silence : Int]
           /\ AsrAfter(asr, level, epoch) \in [pending : Nat, silence : Nat]
<1>1. /\ vad.speech \in BOOLEAN /\ vad.hangover \in Nat
      /\ eou.pending \in BOOLEAN /\ eou.silence \in Int
      /\ asr.pending \in Nat /\ asr.silence \in Nat /\ epoch \in Nat
  BY DEF InputTyped
<1>2. SpeechEnds(vad, level) \in BOOLEAN /\ SpeechStarts(vad, level) \in BOOLEAN
  BY <1>1 DEF SpeechEnds, SpeechStarts
<1>3. VadAfter(vad, level) \in [speech : BOOLEAN, hangover : Nat]
  <2>1. ((vad.speech \/ level = "loud") /\ ~SpeechEnds(vad, level)) \in BOOLEAN
    OBVIOUS
  <2>2. (IF vad.speech THEN IF level = "quiet" THEN vad.hangover + 1 ELSE 0
         ELSE IF level = "loud" THEN 0 ELSE vad.hangover) \in Nat
    BY <1>1
  <2> QED BY <2>1, <2>2 DEF VadAfter
<1>4. EouAfter(eou, gap, active) \in [pending : BOOLEAN, silence : Int]
  <2>1. Silence(eou, gap) \in Int
    BY <1>1 DEF Silence
  <2>2. eou \in [pending : BOOLEAN, silence : Int]
    BY DEF InputTyped
  <2> QED BY <1>1, <2>1, <2>2 DEF EouAfter, NewEou
<1>5. AsrAfter(asr, level, epoch) \in [pending : Nat, silence : Nat]
  BY <1>1, DetectorAssumption DEF AsrAfter
<1> QED BY <1>2, <1>3, <1>4, <1>5

(* A frame that the in-process detectors hear.                             *)
LEMMA LocalStep ==
    ASSUME InputInv, ProcessLocally
    PROVE  InputInv'
<1>1. PICK level \in Levels, gap \in 1 .. MaxGap :
         LET active == (vadActive \/ SpeechStarts(vad, level)) /\ ~SpeechEnds(vad, level)
             ended  == IF SpeechEnds(vad, level) THEN epoch ELSE speechEnd
         IN  /\ vad' = VadAfter(vad, level)
             /\ vadActive' = active
             /\ speechEnd' = ended
             /\ eou' = EouAfter(eou, gap, active)
             /\ lastEou' = IF UtteranceEnds(eou, gap, active)
                           THEN [Nothing EXCEPT !.epoch = epoch, !.heard = ended]
                           ELSE lastEou
             /\ asr' = AsrAfter(asr, level, epoch)
             /\ lastFinal' = IF Finals(asr, level)
                             THEN [Nothing EXCEPT !.epoch = epoch, !.heard = asr.pending]
                             ELSE lastFinal
  BY DEF ProcessLocally
<1> DEFINE active == (vadActive \/ SpeechStarts(vad, level)) /\ ~SpeechEnds(vad, level)
           ended  == IF SpeechEnds(vad, level) THEN epoch ELSE speechEnd
<1>2. /\ ears = "local" /\ ears' = ears /\ epoch' = epoch /\ UNCHANGED clientVars
      /\ gap \in Nat /\ InputTyped /\ epoch \in Nat /\ vadActive \in BOOLEAN
      /\ speechEnd \in Nat
  BY InputAssumption DEF ProcessLocally, InputInv, InputTyped
<1>3. /\ SpeechEnds(vad, level) \in BOOLEAN /\ SpeechStarts(vad, level) \in BOOLEAN
      /\ active \in BOOLEAN
  BY <1>2, DetectorsTyped
<1>4. /\ VadAfter(vad, level) \in [speech : BOOLEAN, hangover : Nat]
      /\ EouAfter(eou, gap, active) \in [pending : BOOLEAN, silence : Int]
      /\ AsrAfter(asr, level, epoch) \in [pending : Nat, silence : Nat]
  BY <1>2, <1>3, DetectorsTyped
<1>5. ended \in Nat
  BY <1>2
<1>6. InputTyped'
  BY <1>1, <1>2, <1>3, <1>4, <1>5 DEF InputTyped, clientVars
<1>7. eou.pending /\ ~active => ended = epoch
  (* The speech went on until this frame ended it, or it had ended before. *)
  <2> SUFFICES ASSUME eou.pending, ~active
               PROVE  ended = epoch
    OBVIOUS
  <2>1. CASE SpeechEnds(vad, level)
    BY <2>1
  <2>2. CASE ~SpeechEnds(vad, level)
    BY <2>2, <1>2 DEF InputInv, HeardNow
  <2> QED BY <2>1, <2>2
<1>8. HeardNow'
  <2>1. eou'.pending => vadActive' \/ speechEnd' = epoch'
    <3>1. CASE active
      BY <3>1, <1>1
    <3>2. CASE ~active /\ UtteranceEnds(eou, gap, active)
      BY <3>2, <1>1 DEF EouAfter, NewEou
    <3>3. CASE ~active /\ ~UtteranceEnds(eou, gap, active)
      <4>1. eou'.pending = eou.pending
        BY <3>3, <1>1, <1>2 DEF EouAfter, InputTyped
      <4> QED BY <3>3, <4>1, <1>1, <1>2, <1>7
    <3> QED BY <3>1, <3>2, <3>3, <1>3
  <2>2. asr'.pending \in {0, epoch}
    BY <1>1, <1>2 DEF AsrAfter, InputInv, HeardNow
  <2> QED BY <1>2, <2>1, <2>2 DEF HeardNow
<1>9. RemoteQuiet' /\ HeardHere'
  BY <1>2 DEF RemoteQuiet, HeardHere, InputInv, clientVars
<1>10. ActsOnCurrent'
  <2>1. lastEou'.heard = lastEou'.epoch
    <3>1. CASE UtteranceEnds(eou, gap, active)
      <4>1. ended = epoch
        BY <3>1, <1>7 DEF UtteranceEnds
      <4> QED BY <3>1, <4>1, <1>1 DEF Nothing
    <3>2. CASE ~UtteranceEnds(eou, gap, active)
      BY <3>2, <1>1 DEF InputInv, ActsOnCurrent
    <3> QED BY <3>1, <3>2
  <2>2. lastFinal'.heard = lastFinal'.epoch /\ lastFinal'.on = lastFinal'.using
    <3>1. CASE Finals(asr, level)
      BY <3>1, <1>1, <1>2 DEF Nothing, Finals, InputInv, HeardNow
    <3>2. CASE ~Finals(asr, level)
      BY <3>2, <1>1, <1>2 DEF InputInv, ActsOnCurrent
    <3> QED BY <3>1, <3>2
  <2> QED BY <2>1, <2>2 DEF ActsOnCurrent
<1> QED BY <1>6, <1>8, <1>9, <1>10 DEF InputInv

LEMMA SentTyped ==
    ASSUME InputTyped, NEW message \in Nat
    PROVE  Sent(message) \in Seq(Nat) /\ (out # <<>> => Sent(message) # <<>>)
<1>1. out \in Seq(Nat)
  BY DEF InputTyped
<1>2. /\ Append(out, message) \in Seq(Nat)
      /\ Len(Append(out, message)) = Len(out) + 1 /\ Len(out) \in Nat
  BY <1>1
<1>3. CASE connected /\ ws # 0
  <2>1. Sent(message) = Append(out, message)
    BY <1>3, Zenon DEF Sent
  <2> QED BY <2>1, <1>2
<1>4. CASE ~(connected /\ ws # 0)
  BY <1>1, <1>4 DEF Sent
<1> QED BY <1>3, <1>4

(* A frame that is sent, and results that are drained.                     *)
LEMMA RemoteStep ==
    ASSUME InputInv, ProcessRemotely
    PROVE  InputInv'
<1>1. /\ ears # "local" /\ closing = "no" /\ out' = Sent(epoch) /\ asrBuf' = <<>>
      /\ UNCHANGED <<ears, epoch, vad, eou, asr, vadActive, speechEnd, lastEou>>
      /\ UNCHANGED <<place, supervised, closing, made, ws, live, busy, cache, replies, reader,
                     connected>>
      /\ InputTyped
  BY DEF ProcessRemotely, InputInv, linkVars, serviceVars
<1>2. Sent(epoch) \in Seq(Nat) /\ (out # <<>> => Sent(epoch) # <<>>)
  BY <1>1, SentTyped DEF InputTyped
<1>3. InputTyped'
  BY <1>1, <1>2 DEF InputTyped
<1>4. HeardNow' /\ RemoteQuiet'
  BY <1>1 DEF HeardNow, RemoteQuiet, InputInv
<1>5. HeardHere'
  <2>1. Len(asrBuf') = 0
    BY <1>1
  <2>2. \A i \in 1..Len(asrBuf') : asrBuf'[i].on = ws'
    BY <2>1
  <2>3. /\ \A i \in 1..Len(replies) : replies[i].on = ws
        /\ place \in {"opening", "starting", "pausing"} => reader = 0
        /\ place # "idle" /\ ~supervised => reader = 0
    BY <1>1 DEF InputInv, HeardHere
  <2> QED BY <1>1, <2>2, <2>3 DEF HeardHere
<1>6. ActsOnCurrent'
  <2>1. lastEou' = lastEou /\ lastEou.heard = lastEou.epoch /\ ears' # "local"
    BY <1>1 DEF InputInv, ActsOnCurrent
  <2>2. lastFinal'.on = lastFinal'.using
    <3>1. CASE asrBuf = <<>>
      BY <3>1 DEF ProcessRemotely, InputInv, ActsOnCurrent
    <3>2. CASE asrBuf # <<>>
      <4>1. 1 \in 1..Len(asrBuf)
        BY <3>2, <1>1 DEF InputTyped
      <4>2. asrBuf[1].on = ws
        BY <4>1, <1>1 DEF InputInv, HeardHere
      <4> QED BY <3>2, <4>2 DEF ProcessRemotely
    <3> QED BY <3>1, <3>2
  <2> QED BY <2>1, <2>2 DEF ActsOnCurrent
<1> QED BY <1>3, <1>4, <1>5, <1>6 DEF InputInv

(* The epoch advances, and the in-process detectors forget what they heard.*)
LEMMA InputEpochStep ==
    ASSUME InputInv, AdvanceEpoch
    PROVE  InputInv'
<1>1. /\ epoch' = epoch + 1
      /\ out' = IF ears = "local" THEN out ELSE Sent(0)
      /\ asr' = AsrForEpoch /\ vad' = NewVad /\ eou' = EouForEpoch
      /\ UNCHANGED <<ears, vadActive, speechEnd, lastEou, lastFinal>>
      /\ UNCHANGED <<place, supervised, closing, made, ws, live, busy, cache, replies, reader,
                     connected, asrBuf>>
      /\ InputTyped
  BY DEF AdvanceEpoch, InputInv, linkVars, serviceVars
<1>2. Sent(0) \in Seq(Nat) /\ (out # <<>> => Sent(0) # <<>>)
  BY <1>1, SentTyped DEF InputTyped
<1>3. InputTyped'
  BY <1>1, <1>2 DEF InputTyped, AsrForEpoch, EouForEpoch, NewVad, NewEou, NewAsr
<1>4. HeardNow'
  BY <1>1 DEF HeardNow, AsrForEpoch, EouForEpoch, NewEou, NewAsr
<1>5. RemoteQuiet' /\ HeardHere' /\ ActsOnCurrent'
  BY <1>1 DEF RemoteQuiet, HeardHere, ActsOnCurrent, InputInv
<1> QED BY <1>3, <1>4, <1>5 DEF InputInv

(* The client and the service leave alone what the worker has heard.       *)
LEMMA EarsKept ==
    ASSUME InputInv, UNCHANGED earVars
    PROVE  HeardNow' /\ RemoteQuiet' /\ ActsOnCurrent'
BY DEF InputInv, earVars, HeardNow, RemoteQuiet, ActsOnCurrent

(* A connection is made, on an empty buffer; the service begins anew.      *)
LEMMA HandshakesKeeps ==
    ASSUME InputInv, Handshakes, UNCHANGED earVars
    PROVE  InputTyped' /\ HeardHere'
<1>1. /\ place = "opening" /\ made' = made + 1 /\ ws' = made' /\ place' = "starting"
      /\ cache' = 0 /\ replies' = <<>>
      /\ UNCHANGED <<supervised, closing, reader, connected, out, busy, asrBuf>>
      /\ InputTyped /\ HeardHere
  BY DEF Handshakes, InputInv
<1>2. InputTyped'
  BY <1>1 DEF InputTyped, earVars
<1>3. HeardHere'
  <2> SUFFICES ASSUME closing = "no"
               PROVE  HeardHere'
    BY <1>1 DEF HeardHere
  <2>1. asrBuf' = <<>> /\ reader' = 0
    BY <1>1 DEF HeardHere
  <2>2. Len(asrBuf') = 0 /\ Len(replies') = 0
    BY <1>1, <2>1
  <2> QED BY <1>1, <2>1, <2>2 DEF HeardHere
<1> QED BY <1>2, <1>3

(* What connect and the supervisor do otherwise: the connection in use, the*)
(* results on their way and, unless it is emptied, the buffer stay.        *)
LEMMA SupervisorKeeps ==
    ASSUME InputInv, UNCHANGED earVars, NEW r \in BOOLEAN,
           Starts(r) \/ AttemptFails(r) \/ FindsDrop \/ PauseEnds
    PROVE  InputTyped' /\ HeardHere'
<1>1. InputTyped /\ HeardHere
  BY DEF InputInv
<1>2. CASE Starts(r)
  <2>1. /\ place = "starting" /\ reader' = ws /\ supervised' = (supervised \/ r)
        /\ place' = IF r THEN "watching" ELSE "idle"
        /\ UNCHANGED <<made, ws, live, busy, cache, replies, closing, out, asrBuf>>
    BY <1>2 DEF Starts, linkVars, serviceVars
  <2>2. supervised' \in BOOLEAN /\ (r => supervised')
    BY <2>1, <1>1 DEF InputTyped
  <2>3. InputTyped'
    BY <2>1, <2>2, <1>1 DEF InputTyped, earVars
  <2>4. HeardHere'
    BY <2>1, <2>2, <1>1 DEF HeardHere
  <2> QED BY <2>3, <2>4
<1>3. CASE AttemptFails(r)
  <2>1. /\ place \in {"opening", "starting"} /\ place' \in {"pausing", "idle"}
        /\ UNCHANGED <<made, ws, live, busy, cache, replies, supervised, closing, reader, out,
                       asrBuf>>
    BY <1>3 DEF AttemptFails, AfterFailure, linkVars, serviceVars
  <2>2. InputTyped'
    BY <2>1, <1>1 DEF InputTyped, earVars
  <2>3. HeardHere'
    BY <2>1, <1>1 DEF HeardHere
  <2> QED BY <2>2, <2>3
<1>4. CASE FindsDrop
  <2>1. /\ place = "watching" /\ reader = 0 /\ place' \in {"pausing", "idle"}
        /\ UNCHANGED <<made, ws, live, busy, cache, replies, supervised, closing, reader, out,
                       asrBuf>>
    BY <1>4 DEF FindsDrop, linkVars, serviceVars
  <2>2. InputTyped'
    BY <2>1, <1>1 DEF InputTyped, earVars
  <2>3. HeardHere'
    BY <2>1, <1>1 DEF HeardHere
  <2> QED BY <2>2, <2>3
<1>5. CASE PauseEnds
  <2>1. /\ place = "pausing" /\ place' \in {"opening", "idle"}
        /\ asrBuf' = IF supervised THEN <<>> ELSE asrBuf
        /\ UNCHANGED <<made, ws, live, busy, cache, replies, supervised, closing, reader, out>>
    BY <1>5 DEF PauseEnds, BufferAtReconnect, linkVars, serviceVars
  <2>2. asrBuf' \in Seq(Result)
    BY <2>1, <1>1 DEF InputTyped
  <2>3. InputTyped'
    BY <2>1, <2>2, <1>1 DEF InputTyped, earVars
  <2>4. HeardHere'
    <3> SUFFICES ASSUME closing = "no"
                 PROVE  HeardHere'
      BY <2>1 DEF HeardHere
    <3>1. asrBuf' = <<>> /\ reader = 0
      BY <2>1, <1>1 DEF HeardHere
    <3>2. Len(asrBuf') = 0
      BY <3>1
    <3> QED BY <2>1, <3>1, <3>2, <1>1 DEF HeardHere
  <2> QED BY <2>3, <2>4
<1> QED BY <1>2, <1>3, <1>4, <1>5

(* The reader buffers the next result, or ends.                            *)
LEMMA ReaderKeeps ==
    ASSUME InputInv, UNCHANGED earVars, Reads \/ ReaderEnds
    PROVE  InputTyped' /\ HeardHere'
<1>1. InputTyped /\ HeardHere
  BY DEF InputInv
<1>2. CASE Reads
  <2>1. /\ reader # 0 /\ replies # <<>> /\ asrBuf' = Append(asrBuf, Head(replies))
        /\ replies' = Tail(replies)
        /\ UNCHANGED <<place, supervised, closing, made, ws, live, busy, reader, connected, out,
                       cache>>
        /\ asrBuf \in Seq(Result) /\ replies \in Seq(Result)
    BY <1>2, <1>1 DEF Reads, linkVars, InputTyped
  <2>2. /\ Head(replies) = replies[1] /\ replies[1] \in Result /\ 1 \in 1..Len(replies)
        /\ Tail(replies) \in Seq(Result) /\ Len(Tail(replies)) = Len(replies) - 1
        /\ Len(replies) \in Nat /\ Len(asrBuf) \in Nat
        /\ \A i \in 1..Len(Tail(replies)) : Tail(replies)[i] = replies[i + 1]
    BY <2>1
  <2>3. /\ asrBuf' \in Seq(Result) /\ Len(asrBuf') = Len(asrBuf) + 1
        /\ \A i \in 1..Len(asrBuf) : asrBuf'[i] = asrBuf[i]
        /\ asrBuf'[Len(asrBuf) + 1] = replies[1]
    BY <2>1, <2>2
  <2>4. InputTyped'
    BY <2>1, <2>2, <2>3, <1>1 DEF InputTyped, earVars
  <2>5. HeardHere'
    <3> SUFFICES ASSUME closing = "no"
                 PROVE  HeardHere'
      BY <2>1 DEF HeardHere
    <3>1. \A i \in 1..Len(replies') : replies'[i].on = ws'
      <4> SUFFICES ASSUME NEW i \in 1..Len(replies')
                   PROVE  replies'[i].on = ws'
        OBVIOUS
      <4>1. i + 1 \in 1..Len(replies) /\ replies'[i] = replies[i + 1]
        BY <2>1, <2>2
      <4> QED BY <4>1, <2>1, <1>1 DEF HeardHere
    <3>2. \A i \in 1..Len(asrBuf') : asrBuf'[i].on = ws'
      <4> SUFFICES ASSUME NEW i \in 1..Len(asrBuf')
                   PROVE  asrBuf'[i].on = ws'
        OBVIOUS
      <4>1. i \in 1..Len(asrBuf) \/ i = Len(asrBuf) + 1
        BY <2>2, <2>3
      <4>2. replies[1].on = ws /\ \A j \in 1..Len(asrBuf) : asrBuf[j].on = ws
        BY <2>2, <1>1 DEF HeardHere
      <4> QED BY <4>1, <4>2, <2>1, <2>3
    <3>3. place' \notin {"opening", "starting", "pausing"} /\ (place' = "idle" \/ supervised')
      BY <2>1, <1>1 DEF HeardHere
    <3> QED BY <3>1, <3>2, <3>3 DEF HeardHere
  <2> QED BY <2>4, <2>5
<1>3. CASE ReaderEnds
  <2>1. /\ reader' = 0
        /\ UNCHANGED <<place, supervised, closing, made, ws, live, busy, cache, replies, out,
                       asrBuf>>
    BY <1>3 DEF ReaderEnds, linkVars, serviceVars
  <2>2. InputTyped'
    BY <2>1, <1>1 DEF InputTyped, earVars
  <2>3. HeardHere'
    BY <2>1, <1>1 DEF HeardHere
  <2> QED BY <2>2, <2>3
<1> QED BY <1>2, <1>3

(* The send tasks leave the results alone.                                 *)
LEMMA SendsKeep ==
    ASSUME InputInv, UNCHANGED earVars, SendBegins \/ SendEnds \/ SendFails \/ LinkDrops
    PROVE  InputTyped' /\ HeardHere'
<1>1. InputTyped /\ HeardHere
  BY DEF InputInv
<1>2. /\ UNCHANGED <<place, supervised, closing, made, ws, reader, replies, asrBuf>>
      /\ busy' \in {0, ws, busy}
  BY DEF SendBegins, SendEnds, SendFails, LinkDrops, linkVars, serviceVars
<1>3. HeardHere'
  BY <1>1, <1>2 DEF HeardHere
<1>4. busy' \in Nat
  BY <1>1, <1>2 DEF InputTyped
<1>5. CASE SendBegins \/ LinkDrops
  <2>1. out' = out /\ cache' = cache /\ (busy' # 0 => out' # <<>>)
    BY <1>1, <1>5 DEF SendBegins, LinkDrops, serviceVars, InputTyped
  <2> QED BY <2>1, <1>1, <1>2, <1>3, <1>4 DEF InputTyped, earVars
<1>6. CASE SendFails
  <2>1. out # <<>> /\ out' = Tail(out) /\ cache' = cache /\ busy' = 0
    BY <1>6 DEF SendFails, serviceVars, linkVars
  <2>2. out' \in Seq(Nat)
    BY <2>1, <1>1 DEF InputTyped
  <2> QED BY <2>1, <2>2, <1>1, <1>2, <1>3, <1>4 DEF InputTyped, earVars
<1>7. CASE SendEnds
  <2>1. out' = Tail(out) /\ cache' \in {cache, Heard(Head(out))}
    BY <1>7 DEF SendEnds
  <2>2. out # <<>> /\ out \in Seq(Nat) /\ cache \in Nat
    BY <1>7, <1>1 DEF SendEnds, InputTyped
  <2>3. Head(out) \in Nat /\ Tail(out) \in Seq(Nat)
    BY <2>2
  <2>4. Heard(Head(out)) \in Nat
    BY <2>2, <2>3 DEF Heard
  <2>5. busy' = 0
    BY <1>7 DEF SendEnds
  <2> QED BY <2>1, <2>2, <2>3, <2>4, <2>5, <1>1, <1>2, <1>3, <1>4 DEF InputTyped, earVars
<1> QED BY <1>5, <1>6, <1>7, <1>2

(* The service answers over the connection in use.                         *)
LEMMA RecognisesKeeps ==
    ASSUME InputInv, UNCHANGED earVars, Recognises
    PROVE  InputTyped' /\ HeardHere'
<1> DEFINE new == [heard |-> cache, on |-> ws]
<1>1. /\ InputTyped /\ HeardHere /\ replies' = Append(replies, new) /\ cache' = 0
      /\ UNCHANGED <<place, supervised, closing, made, ws, live, busy, reader, connected, out,
                     asrBuf>>
      /\ replies \in Seq(Result) /\ new \in Result /\ new.on = ws
  BY DEF Recognises, InputInv, linkVars, InputTyped, Result
<1> HIDE DEF new
<1>2. /\ replies' \in Seq(Result) /\ Len(replies') = Len(replies) + 1 /\ Len(replies) \in Nat
      /\ \A i \in 1..Len(replies) : replies'[i] = replies[i]
      /\ replies'[Len(replies) + 1] = new
  BY <1>1
<1>3. InputTyped'
  BY <1>1, <1>2 DEF InputTyped, earVars
<1>4. ASSUME closing = "no"
      PROVE  \A i \in 1..Len(replies') : replies'[i].on = ws'
  <2> SUFFICES ASSUME NEW i \in 1..Len(replies')
               PROVE  replies'[i].on = ws'
    OBVIOUS
  <2>1. i \in 1..Len(replies) \/ i = Len(replies) + 1
    BY <1>2
  <2> QED BY <2>1, <1>1, <1>2, <1>4 DEF HeardHere
<1>5. HeardHere'
  BY <1>1, <1>4 DEF HeardHere
<1> QED BY <1>3, <1>5

(* Once it is being closed, nothing is acted upon.                         *)
LEMMA ClosesKeep ==
    ASSUME InputInv, UNCHANGED earVars, CloseBegins \/ CloseEnds
    PROVE  InputTyped' /\ HeardHere'
<1>1. InputTyped
  BY DEF InputInv
<1>2. /\ closing' \in {"begun", "done"}
      /\ place' \in {"idle", place} /\ reader' \in {0, reader} /\ ws' \in {0, ws}
      /\ UNCHANGED <<made, busy, cache, replies, out, asrBuf>>
  BY DEF CloseBegins, CloseEnds, linkVars, serviceVars
<1>3. supervised' \in BOOLEAN
  BY <1>1 DEF CloseBegins, CloseEnds, InputTyped
<1>4. InputTyped'
  BY <1>1, <1>2, <1>3 DEF InputTyped, earVars
<1> QED BY <1>2, <1>4 DEF HeardHere

LEMMA InputInvStep == InputInv /\ [InputNext]_inputVars => InputInv'
<1> SUFFICES ASSUME InputInv, [InputNext]_inputVars
             PROVE  InputInv'
  OBVIOUS
<1>1. CASE ProcessLocally
  BY <1>1, LocalStep
<1>2. CASE ProcessRemotely
  BY <1>2, RemoteStep
<1>3. CASE AdvanceEpoch
  BY <1>3, InputEpochStep
<1>4. CASE Client
  <2>1. UNCHANGED earVars /\ ClientStep(ears = "reconnect")
    BY <1>4 DEF Client
  <2>2. (ears = "reconnect") \in BOOLEAN
    OBVIOUS
  <2>3. InputTyped' /\ HeardHere'
    BY <2>1, <2>2, HandshakesKeeps, SupervisorKeeps, ReaderKeeps, SendsKeep, RecognisesKeeps,
       ClosesKeep DEF ClientStep
  <2> QED BY <2>1, <2>3, EarsKept DEF InputInv
<1>5. CASE UNCHANGED inputVars
  <2>1. InputTyped' /\ HeardHere'
    BY <1>5 DEF inputVars, clientVars, earVars, InputInv, InputTyped, HeardHere
  <2> QED BY <1>5, <2>1, EarsKept DEF InputInv, inputVars
<1> QED BY <1>1, <1>2, <1>3, <1>4, <1>5 DEF InputNext

(* What the worker acts on is current: an end of utterance belongs to an   *)
(* end of speech of its own epoch, an in-process final result was heard in *)
(* the epoch it starts a turn in, and a result of the service came over the*)
(* connection in use (ingest.py, _process_frame; realtime_asr_client.py,   *)
(* the supervisor).                                                        *)
THEOREM ActsOnCurrentAlways == InputSpec => []ActsOnCurrent
<1>1. InputInit => InputInv
  BY InputInvInit
<1>2. InputInv /\ [InputNext]_inputVars => InputInv'
  BY InputInvStep
<1>3. InputInv => ActsOnCurrent
  BY DEF InputInv
<1> QED BY <1>1, <1>2, <1>3, PTL DEF InputSpec

-----------------------------------------------------------------------------
(* AvatarWorker: forth and back over the reference frames.                 *)

LEMMA Divided ==
    ASSUME NEW n \in Nat \ {0}, NEW x \in Nat
    PROVE  /\ x \div n \in Nat /\ x % n \in 0 .. (n - 1)
           /\ x = n * (x \div n) + (x % n)
OBVIOUS

LEMMA AtLeastOnce ==
    ASSUME NEW n \in Nat \ {0}, NEW d \in Nat \ {0}
    PROVE  n * d >= n
<1>1. d - 1 \in Nat /\ n * d = n * (d - 1) + n
  OBVIOUS
<1>2. n * (d - 1) \in Nat
  BY <1>1
<1> QED BY <1>1, <1>2

LEMMA QuotientIsUnique ==
    ASSUME NEW n \in Nat \ {0}, NEW p \in Int, NEW q \in Int,
           NEW r \in 0 .. (n - 1), NEW s \in 0 .. (n - 1),
           n * p + r = n * q + s
    PROVE  p = q /\ r = s
<1>1. n * (p - q) = s - r /\ n * (q - p) = r - s
  OBVIOUS
<1>2. ~(p > q)
  <2> SUFFICES ASSUME p > q PROVE FALSE
    OBVIOUS
  <2>1. p - q \in Nat \ {0}
    OBVIOUS
  <2>2. n * (p - q) >= n
    BY <2>1, AtLeastOnce
  <2> QED BY <2>2, <1>1
<1>3. ~(q > p)
  <2> SUFFICES ASSUME q > p PROVE FALSE
    OBVIOUS
  <2>1. q - p \in Nat \ {0}
    OBVIOUS
  <2>2. n * (q - p) >= n
    BY <2>1, AtLeastOnce
  <2> QED BY <2>2, <1>1
<1>4. p = q
  BY <1>2, <1>3
<1> QED BY <1>1, <1>4

LEMMA MirrorOf ==
    ASSUME NEW n \in Nat \ {0}, NEW q \in Nat, NEW r \in 0 .. (n - 1)
    PROVE  /\ n * q + r \in Nat
           /\ MirrorIndex(n, n * q + r) = IF q % 2 = 0 THEN r ELSE n - r - 1
<1> DEFINE x == n * q + r
<1>1. x \in Nat
  <2>1. n * q \in Nat
    OBVIOUS
  <2> QED BY <2>1
<1> HIDE DEF x
<1> DEFINE d == x \div n
           e == x % n
<1>2. d \in Nat /\ e \in 0 .. (n - 1) /\ x = n * d + e
  BY <1>1, Divided
<1> HIDE DEF d, e
<1>3. d = q /\ e = r
  <2>1. n * d + e = n * q + r
    BY <1>2 DEF x
  <2> QED BY <2>1, <1>2, QuotientIsUnique
<1>4. x \div n = q /\ x % n = r
  BY <1>3 DEF d, e
<1>5. MirrorIndex(n, x) = IF q % 2 = 0 THEN r ELSE n - r - 1
  BY <1>4 DEF MirrorIndex
<1> QED BY <1>1, <1>5 DEF x

(* The frames of a reference that are at most n apart.                     *)
Near(before, after, n) == after - before <= n /\ before - after <= n

LEMMA MirrorRange ==
    ASSUME NEW n \in Nat \ {0}, NEW x \in Nat
    PROVE  MirrorIndex(n, x) \in 0 .. (n - 1)
<1> DEFINE q == x \div n
           r == x % n
<1>1. q \in Nat /\ r \in 0 .. (n - 1) /\ x = n * q + r
  BY Divided
<1> HIDE DEF q, r
<1>2. MirrorIndex(n, x) = IF q % 2 = 0 THEN r ELSE n - r - 1
  BY <1>1, MirrorOf
<1> QED BY <1>1, <1>2

(* From an index to a later one the picture changes by no more frames than *)
(* the index.                                                              *)
LEMMA MirrorReach ==
    ASSUME NEW n \in Nat \ {0}, NEW x \in Nat, NEW y \in Nat, x <= y
    PROVE  Near(MirrorIndex(n, x), MirrorIndex(n, y), y - x)
<1> DEFINE q == x \div n
           r == x % n
           p == y \div n
           u == y % n
<1>1. /\ q \in Nat /\ r \in 0 .. (n - 1) /\ x = n * q + r
      /\ p \in Nat /\ u \in 0 .. (n - 1) /\ y = n * p + u
  BY Divided
<1> HIDE DEF q, r, p, u
<1>2. /\ MirrorIndex(n, x) = IF q % 2 = 0 THEN r ELSE n - r - 1
      /\ MirrorIndex(n, y) = IF p % 2 = 0 THEN u ELSE n - u - 1
  BY <1>1, MirrorOf
<1>3. CASE p = q
  <2>1. y - x = u - r
    BY <1>1, <1>3
  <2> QED BY <2>1, <1>1, <1>2, <1>3 DEF Near
<1>4. CASE p = q + 1
  (* The direction changes once, at a frame that is shown twice.           *)
  <2>1. y - x = n + u - r
    <3>1. n * (q + 1) = n * q + n
      BY <1>1
    <3> QED BY <3>1, <1>1, <1>4
  <2>2. (q % 2 = 0) <=> ~(p % 2 = 0)
    BY <1>1, <1>4
  <2> QED BY <2>1, <2>2, <1>1, <1>2 DEF Near
<1>5. CASE p > q + 1
  (* The whole reference lies between the two.                             *)
  <2>1. p - q - 1 \in Nat \ {0}
    BY <1>1, <1>5
  <2>2. n * (p - q - 1) >= n
    BY <2>1, AtLeastOnce
  <2>3. n * p = n * q + n + n * (p - q - 1)
    BY <1>1
  <2>4. n * p \in Nat /\ n * q \in Nat /\ n * (p - q - 1) \in Nat
    BY <1>1, <2>1
  <2>5. y - x >= n + n + u - r
    BY <2>2, <2>3, <2>4, <1>1
  <2> QED BY <2>5, <1>1, <1>2 DEF Near
<1>6. CASE p < q
  <2>1. q - p \in Nat \ {0}
    BY <1>1, <1>6
  <2>2. n * (q - p) >= n
    BY <2>1, AtLeastOnce
  <2>3. n * q = n * p + n * (q - p)
    BY <1>1
  <2>4. n * p \in Nat /\ n * q \in Nat /\ n * (q - p) \in Nat
    BY <1>1, <2>1
  <2> QED BY <2>2, <2>3, <2>4, <1>1
<1> QED BY <1>1, <1>3, <1>4, <1>5, <1>6

(* After two passes it begins again.                                       *)
LEMMA MirrorPeriod ==
    ASSUME NEW n \in Nat \ {0}, NEW x \in Nat
    PROVE  /\ x % (2 * n) \in Nat
           /\ MirrorIndex(n, x % (2 * n)) = MirrorIndex(n, x)
<1> DEFINE k == 2 * n
           p == x \div k
           m == x % k
           q == m \div n
           r == m % n
<1>1. k \in Nat \ {0}
  OBVIOUS
<1> HIDE DEF k
<1>2. p \in Nat /\ m \in Nat /\ x = k * p + m
  BY <1>1, Divided
<1> HIDE DEF p, m
<1>3. q \in Nat /\ r \in 0 .. (n - 1) /\ m = n * q + r
  BY <1>2, Divided
<1> HIDE DEF q, r
<1>4. MirrorIndex(n, m) = IF q % 2 = 0 THEN r ELSE n - r - 1
  BY <1>3, MirrorOf
<1>5. 2 * p + q \in Nat /\ x = n * (2 * p + q) + r
  BY <1>2, <1>3 DEF k
<1>6. MirrorIndex(n, x) = IF (2 * p + q) % 2 = 0 THEN r ELSE n - r - 1
  BY <1>3, <1>5, MirrorOf
<1>7. (2 * p + q) % 2 = q % 2
  BY <1>2, <1>3
<1>8. m = x % (2 * n)
  BY DEF m, k
<1> QED BY <1>2, <1>4, <1>6, <1>7, <1>8

-----------------------------------------------------------------------------
(* AvatarWorker: the invariant.                                            *)

Picture == [face : Int, body : 0..(Length - 1), shaken : BOOLEAN]

Stages == {"none", "gathering", "pasting", "advancing", "done", "raised"}

Threads == [at : Stages, speaks : BOOLEAN, face : Int, body : Int, shaken : BOOLEAN]

AvatarTyped ==
    /\ frameIndex \in Nat
    /\ waiters \in Seq(Sessions)
    /\ call \in [Sessions -> {"idle", "waiting", "inside", "yielding", "stopped"}]
    /\ thread \in [Sessions -> Threads]
    /\ frames \in [Sessions -> Seq(Picture)]
    /\ cut \in [Sessions -> BOOLEAN]
    /\ shown \in [Sessions -> -1..(Length - 1)]
    /\ skipped \in [Sessions -> Int]
    /\ moved \in SUBSET Sessions

(* Who is in the queue of the lock waits, and is there once.               *)
QueueWaits ==
    /\ \A i \in 1..Len(waiters) : call[waiters[i]] = "waiting"
    /\ \A i, j \in 1..Len(waiters) : waiters[i] = waiters[j] => i = j

(* Where the thread and the frames of a session are that is not stopped.   *)
InPlace(s) ==
    /\ call[s] \in {"idle", "waiting", "yielding"} => thread[s] = NoThread
    /\ call[s] = "inside" => thread[s].at # "none"
    /\ call[s] \in {"idle", "waiting", "inside"} => frames[s] = <<>>

(* How far from what was shown the next picture may be.                    *)
Follows(s, frame) == shown[s] # NoPicture => Near(shown[s], frame, 1 + skipped[s])

(* What is to be shown next follows what has been shown, whatever place it *)
(* has reached: the index, a thread, or the frames that it has returned.   *)
ThreadFollows(s) ==
    LET t == thread[s]
    IN  /\ t.at = "pasting" => t.face \in Nat /\ (s \notin moved => t.face = frameIndex)
        /\ t.at \in {"advancing", "done"} =>
              /\ t.face \in Nat /\ t.body \in Nat
              /\ ~t.shaken => t.face = t.body /\ Follows(s, MirrorIndex(Length, t.body))
        /\ t.at = "advancing" /\ s \notin moved => t.body = frameIndex
        /\ t.at = "done" /\ s \notin moved =>
              MirrorIndex(Length, frameIndex) = MirrorIndex(Length, t.body + Batch)

IndexFollows(s) ==
    thread[s].at \notin {"advancing", "done"} /\ frames[s] = <<>> /\ s \notin moved
        => Follows(s, MirrorIndex(Length, frameIndex))

FramesFollow(s) ==
    LET f == frames[s]
    IN  /\ \A i \in 1..Len(f) : ~f[i].shaken => f[i].face = f[i].body
        /\ \A i, j \in 1..Len(f) : i <= j => Near(f[i].body, f[j].body, j - i)
        /\ f # <<>> /\ ~f[1].shaken => Follows(s, f[1].body)
        /\ s \notin moved =>
              \A i \in 1..Len(f) :
                 Near(f[i].body, MirrorIndex(Length, frameIndex), Len(f) + 1 - i)

Smooth(s) == InPlace(s) /\ ThreadFollows(s) /\ IndexFollows(s) /\ FramesFollow(s)

AvatarInv ==
    AvatarTyped /\ QueueWaits /\ \A s \in Sessions : call[s] # "stopped" => Smooth(s)

LEMMA AvatarInvInit == AvatarInit => AvatarInv
<1> SUFFICES ASSUME AvatarInit PROVE AvatarInv
  OBVIOUS
<1>1. NoThread \in Threads /\ NoPicture \in -1..(Length - 1)
  BY WorkerAssumption DEF NoThread, Threads, Stages, NoPicture
<1>2. AvatarTyped
  BY <1>1 DEF AvatarInit, AvatarTyped
<1>3. QueueWaits
  BY DEF AvatarInit, QueueWaits
<1>4. ASSUME NEW s \in Sessions
      PROVE  Smooth(s)
  <2>1. /\ call[s] = "idle" /\ thread[s] = NoThread /\ frames[s] = <<>>
        /\ shown[s] = NoPicture /\ Len(frames[s]) = 0
    BY DEF AvatarInit
  <2>2. NoThread.at = "none"
    BY DEF NoThread
  <2> QED BY <2>1, <2>2 DEF Smooth, InPlace, ThreadFollows, IndexFollows, FramesFollow, Follows
<1> QED BY <1>2, <1>3, <1>4 DEF AvatarInv

(* A session is not disturbed by what others do, but for the index that    *)
(* they move, of which it is told.                                         *)
LEMMA Untouched ==
    ASSUME NEW s \in Sessions, Smooth(s),
           call'[s] = call[s], thread'[s] = thread[s], frames'[s] = frames[s],
           shown'[s] = shown[s], skipped'[s] = skipped[s],
           s \in moved' \/ (frameIndex' = frameIndex /\ (s \in moved' <=> s \in moved))
    PROVE  Smooth(s)'
<1>1. InPlace(s)'
  BY DEF Smooth, InPlace
<1>2. ThreadFollows(s)'
  BY DEF Smooth, ThreadFollows, Follows
<1>3. IndexFollows(s)'
  BY DEF Smooth, IndexFollows, Follows
<1>4. FramesFollow(s)'
  BY DEF Smooth, FramesFollow, Follows
<1> QED BY <1>1, <1>2, <1>3, <1>4 DEF Smooth

LEMMA OthersKept ==
    ASSUME AvatarInv, NEW r \in Sessions,
           \A s \in Sessions \ {r} :
              /\ call'[s] = call[s] /\ thread'[s] = thread[s] /\ frames'[s] = frames[s]
              /\ shown'[s] = shown[s] /\ skipped'[s] = skipped[s]
              /\ \/ s \in moved' \/ call[s] = "stopped"
                 \/ frameIndex' = frameIndex /\ (s \in moved' <=> s \in moved),
           call'[r] # "stopped" => Smooth(r)'
    PROVE  \A s \in Sessions : call'[s] # "stopped" => Smooth(s)'
<1> SUFFICES ASSUME NEW s \in Sessions, call'[s] # "stopped"
             PROVE  Smooth(s)'
  OBVIOUS
<1>1. CASE s = r
  BY <1>1
<1>2. CASE s # r
  <2>1. Smooth(s)
    BY <1>2 DEF AvatarInv
  <2> QED BY <1>2, <2>1, Untouched
<1> QED BY <1>1, <1>2

(* The queue of the lock when it stays, when a session joins it, when the  *)
(* first one leaves, and when a session is taken out.                      *)
LEMMA QueueStays ==
    ASSUME AvatarInv, NEW r \in Sessions, call[r] # "waiting", waiters' = waiters,
           \A s \in Sessions \ {r} : call'[s] = call[s]
    PROVE  QueueWaits'
<1>1. \A i \in 1..Len(waiters) : waiters[i] \in Sessions /\ waiters[i] # r
  BY DEF AvatarInv, AvatarTyped, QueueWaits
<1> QED BY <1>1 DEF AvatarInv, QueueWaits

LEMMA QueueGrows ==
    ASSUME AvatarInv, NEW r \in Sessions, call[r] # "waiting", waiters' = Append(waiters, r),
           call'[r] = "waiting", \A s \in Sessions \ {r} : call'[s] = call[s]
    PROVE  QueueWaits' /\ waiters' \in Seq(Sessions)
<1>1. /\ waiters \in Seq(Sessions) /\ Len(waiters) \in Nat
      /\ \A i \in 1..Len(waiters) : waiters[i] \in Sessions /\ waiters[i] # r
  BY DEF AvatarInv, AvatarTyped, QueueWaits
<1>2. /\ waiters' \in Seq(Sessions) /\ Len(waiters') = Len(waiters) + 1
      /\ \A i \in 1..Len(waiters) : waiters'[i] = waiters[i]
      /\ waiters'[Len(waiters) + 1] = r
  BY <1>1
<1>3. \A i \in 1..Len(waiters') : i \in 1..Len(waiters) \/ i = Len(waiters) + 1
  BY <1>1, <1>2
<1>4. \A i \in 1..Len(waiters') : call'[waiters'[i]] = "waiting"
  BY <1>1, <1>2, <1>3 DEF AvatarInv, QueueWaits
<1>5. \A i, j \in 1..Len(waiters') : waiters'[i] = waiters'[j] => i = j
  BY <1>1, <1>2, <1>3 DEF AvatarInv, QueueWaits
<1> QED BY <1>2, <1>4, <1>5 DEF QueueWaits

LEMMA QueueMoves ==
    ASSUME AvatarInv, waiters # <<>>, waiters' = Tail(waiters),
           \A s \in Sessions \ {Head(waiters)} : call'[s] = call[s]
    PROVE  QueueWaits' /\ waiters' \in Seq(Sessions) /\ call[Head(waiters)] = "waiting"
<1>1. /\ waiters \in Seq(Sessions) /\ Len(waiters) \in Nat /\ 1 \in 1..Len(waiters)
      /\ Head(waiters) = waiters[1]
  BY DEF AvatarInv, AvatarTyped
<1>2. /\ waiters' \in Seq(Sessions) /\ Len(waiters') = Len(waiters) - 1
      /\ \A i \in 1..Len(waiters') : waiters'[i] = waiters[i + 1] /\ i + 1 \in 1..Len(waiters)
  BY <1>1
<1>3. \A i \in 1..Len(waiters') : waiters[i + 1] \in Sessions \ {waiters[1]}
  <2> SUFFICES ASSUME NEW i \in 1..Len(waiters')
               PROVE  waiters[i + 1] \in Sessions \ {waiters[1]}
    OBVIOUS
  <2>1. i + 1 \in 1..Len(waiters) /\ i + 1 # 1
    BY <1>2
  <2> QED BY <2>1, <1>1 DEF AvatarInv, QueueWaits
<1>4. \A i \in 1..Len(waiters') : call'[waiters'[i]] = "waiting"
  BY <1>1, <1>2, <1>3 DEF AvatarInv, QueueWaits
<1>5. \A i, j \in 1..Len(waiters') : waiters'[i] = waiters'[j] => i = j
  <2> SUFFICES ASSUME NEW i \in 1..Len(waiters'), NEW j \in 1..Len(waiters'),
                      waiters'[i] = waiters'[j]
               PROVE  i = j
    OBVIOUS
  <2>1. i + 1 = j + 1
    BY <1>2 DEF AvatarInv, QueueWaits
  <2> QED BY <2>1
<1> QED BY <1>1, <1>2, <1>4, <1>5 DEF QueueWaits, AvatarInv

LEMMA QueueLeaves ==
    ASSUME AvatarInv, NEW r \in Sessions, waiters' = RemoveFirst(waiters, r),
           \A s \in Sessions \ {r} : call'[s] = call[s]
    PROVE  QueueWaits' /\ waiters' \in Seq(Sessions)
<1>1. /\ waiters \in Seq(Sessions) /\ Len(waiters) \in Nat
      /\ \A i \in 1..Len(waiters) : call[waiters[i]] = "waiting" /\ waiters[i] \in Sessions
      /\ \A i, j \in 1..Len(waiters) : waiters[i] = waiters[j] => i = j
  BY DEF AvatarInv, AvatarTyped, QueueWaits
<1>2. CASE ~\E i \in 1..Len(waiters) : waiters[i] = r
  <2>1. waiters' = waiters
    BY <1>2 DEF RemoveFirst
  <2> QED BY <2>1, <1>1, <1>2 DEF QueueWaits
<1>3. CASE \E i \in 1..Len(waiters) : waiters[i] = r
  <2>1. PICK k \in 1..Len(waiters) : waiters[k] = r
    BY <1>3
  <2>2. {i \in 1..Len(waiters) : waiters[i] = r} = {k}
    BY <2>1, <1>1
  <2>3. SelectInSeq(waiters, LAMBDA v : v = r) = Min({k})
    BY <2>2 DEF SelectInSeq
  <2>4. Min({k}) = k
    BY DEF Min
  <2> DEFINE before == SubSeq(waiters, 1, k - 1)
             after == SubSeq(waiters, k + 1, Len(waiters))
  <2>5. waiters' = before \o after
    BY <1>3, <2>3, <2>4 DEF RemoveFirst, RemoveAt
  <2>6. /\ before \in Seq(Sessions) /\ Len(before) = k - 1
        /\ \A i \in 1..(k - 1) : before[i] = waiters[i]
        /\ after \in Seq(Sessions) /\ Len(after) = Len(waiters) - k
        /\ \A i \in 1..(Len(waiters) - k) : after[i] = waiters[k + i]
    BY <1>1
  <2> HIDE DEF before, after
  <2>7. /\ waiters' \in Seq(Sessions) /\ Len(waiters') = Len(waiters) - 1
        /\ \A i \in 1..(Len(waiters) - 1) :
              waiters'[i] = IF i < k THEN before[i] ELSE after[i - (k - 1)]
    <3>1. /\ before \o after \in Seq(Sessions)
          /\ Len(before \o after) = Len(before) + Len(after)
          /\ \A i \in 1..(Len(before) + Len(after)) :
                (before \o after)[i] =
                   IF i <= Len(before) THEN before[i] ELSE after[i - Len(before)]
      BY <2>6, ConcatProperties
    <3>2. Len(before) + Len(after) = Len(waiters) - 1 /\ Len(before) = k - 1
      BY <2>6, <1>1
    <3>3. \A i \in 1..(Len(waiters) - 1) : i < k <=> i <= k - 1
      BY <1>1
    <3> QED BY <3>1, <3>2, <3>3, <2>5
  <2>8. ASSUME NEW i \in 1..Len(waiters')
        PROVE  \E j \in 1..Len(waiters) :
                  j # k /\ waiters'[i] = waiters[j] /\ j = IF i < k THEN i ELSE i + 1
    <3>1. CASE i < k
      BY <3>1, <2>6, <2>7, <1>1
    <3>2. CASE ~(i < k)
      <4>1. i - (k - 1) \in 1..(Len(waiters) - k) /\ k + (i - (k - 1)) = i + 1
        BY <3>2, <2>7, <1>1
      <4>2. waiters'[i] = waiters[i + 1]
        BY <4>1, <3>2, <2>6, <2>7
      <4>3. i + 1 \in 1..Len(waiters) /\ i + 1 # k
        BY <3>2, <2>7, <1>1
      <4> QED BY <4>2, <4>3, <3>2
    <3> QED BY <3>1, <3>2
  <2>9. \A i \in 1..Len(waiters') : call'[waiters'[i]] = "waiting"
    <3> SUFFICES ASSUME NEW i \in 1..Len(waiters')
                 PROVE  call'[waiters'[i]] = "waiting"
      OBVIOUS
    <3>1. PICK j \in 1..Len(waiters) : j # k /\ waiters'[i] = waiters[j]
      BY <2>8
    <3>2. waiters[j] \in Sessions \ {r}
      BY <3>1, <2>1, <1>1
    <3> QED BY <3>1, <3>2, <1>1
  <2>10. \A i, j \in 1..Len(waiters') : waiters'[i] = waiters'[j] => i = j
    <3> SUFFICES ASSUME NEW i \in 1..Len(waiters'), NEW j \in 1..Len(waiters'),
                        waiters'[i] = waiters'[j]
                 PROVE  i = j
      OBVIOUS
    <3>1. PICK m \in 1..Len(waiters) :
             m # k /\ waiters'[i] = waiters[m] /\ m = IF i < k THEN i ELSE i + 1
      BY <2>8
    <3>2. PICK n \in 1..Len(waiters) :
             n # k /\ waiters'[j] = waiters[n] /\ n = IF j < k THEN j ELSE j + 1
      BY <2>8
    <3>3. m = n
      BY <3>1, <3>2, <1>1
    <3> QED BY <3>1, <3>2, <3>3
  <2> QED BY <2>7, <2>9, <2>10 DEF QueueWaits
<1> QED BY <1>2, <1>3

-----------------------------------------------------------------------------
(* AvatarWorker: the steps.                                                *)

(* The pictures of a batch follow one another.                             *)
LEMMA PicturesOf ==
    ASSUME NEW t \in Threads, t.face \in Nat, t.body \in Nat
    PROVE  /\ Pictures(t) \in Seq(Picture) /\ Len(Pictures(t)) = Batch
           /\ \A i \in 1..Batch :
                 /\ Pictures(t)[i].shaken = t.shaken
                 /\ t.face = t.body => Pictures(t)[i].face = Pictures(t)[i].body
                 /\ Pictures(t)[i].body = MirrorIndex(Length, t.body + i - 1)
           /\ \A i, j \in 1..Batch :
                 i <= j => Near(Pictures(t)[i].body, Pictures(t)[j].body, j - i)
<1>1. Length \in Nat \ {0} /\ Batch \in Nat \ {0} /\ t.shaken \in BOOLEAN
  BY WorkerAssumption DEF Threads
<1> DEFINE P(i) == [face |-> MirrorIndex(Length, t.face + i - 1),
                    body |-> MirrorIndex(Length, t.body + i - 1),
                    shaken |-> t.shaken]
<1>2. Pictures(t) = [i \in 1..Batch |-> P(i)]
  BY DEF Pictures
<1>3. \A i \in 1..Batch : P(i) \in Picture
  <2> SUFFICES ASSUME NEW i \in 1..Batch
               PROVE  P(i) \in Picture
    OBVIOUS
  <2>1. t.face + i - 1 \in Nat /\ t.body + i - 1 \in Nat
    BY <1>1
  <2>2. /\ MirrorIndex(Length, t.face + i - 1) \in Int
        /\ MirrorIndex(Length, t.body + i - 1) \in 0..(Length - 1)
    BY <1>1, <2>1, MirrorRange
  <2> QED BY <1>1, <2>2 DEF Picture
<1>4. /\ Pictures(t) \in Seq(Picture) /\ Len(Pictures(t)) = Batch
      /\ \A i \in 1..Batch : Pictures(t)[i] = P(i)
  <2>1. [i \in 1..Batch |-> P(i)] \in Seq(Picture)
    BY <1>1, <1>3
  <2>2. Len([i \in 1..Batch |-> P(i)]) = Batch
    BY <1>1
  <2> QED BY <1>2, <2>1, <2>2
<1>5. ASSUME NEW i \in 1..Batch
      PROVE  /\ Pictures(t)[i].shaken = t.shaken
             /\ t.face = t.body => Pictures(t)[i].face = Pictures(t)[i].body
             /\ Pictures(t)[i].body = MirrorIndex(Length, t.body + i - 1)
  BY <1>4
<1>6. ASSUME NEW i \in 1..Batch, NEW j \in 1..Batch, i <= j
      PROVE  Near(Pictures(t)[i].body, Pictures(t)[j].body, j - i)
  <2>1. /\ t.body + i - 1 \in Nat /\ t.body + j - 1 \in Nat
        /\ t.body + i - 1 <= t.body + j - 1
        /\ (t.body + j - 1) - (t.body + i - 1) = j - i
    BY <1>1, <1>6
  <2>2. Near(MirrorIndex(Length, t.body + i - 1), MirrorIndex(Length, t.body + j - 1),
             (t.body + j - 1) - (t.body + i - 1))
    BY <1>1, <2>1, MirrorReach
  <2> QED BY <1>5, <2>1, <2>2
<1> QED BY <1>4, <1>5, <1>6

LEMMA CallsStep ==
    ASSUME AvatarInv, NEW r \in Sessions, Calls(r)
    PROVE  AvatarInv'
<1>1. /\ call[r] = "idle" /\ call' = [call EXCEPT ![r] = "waiting"]
      /\ waiters' = Append(waiters, r)
      /\ UNCHANGED <<frameIndex, holder, thread, frames, shown, skipped, moved>>
      /\ AvatarTyped /\ Smooth(r)
  BY DEF Calls, AvatarInv
<1>2. PICK same \in BOOLEAN : cut' = [cut EXCEPT ![r] = @ /\ same]
  BY DEF Calls
<1>3. /\ call'[r] = "waiting" /\ \A s \in Sessions \ {r} : call'[s] = call[s]
      /\ call' \in [Sessions -> {"idle", "waiting", "inside", "yielding", "stopped"}]
  BY <1>1 DEF AvatarTyped
<1>4. cut' \in [Sessions -> BOOLEAN]
  BY <1>1, <1>2 DEF AvatarTyped
<1>5. QueueWaits' /\ waiters' \in Seq(Sessions)
  BY <1>1, <1>3, QueueGrows
<1>6. AvatarTyped'
  BY <1>1, <1>3, <1>4, <1>5 DEF AvatarTyped
<1>7. Smooth(r)'
  <2>1. InPlace(r)'
    BY <1>1, <1>3 DEF Smooth, InPlace
  <2>2. ThreadFollows(r)' /\ IndexFollows(r)' /\ FramesFollow(r)'
    BY <1>1 DEF Smooth, ThreadFollows, IndexFollows, FramesFollow, Follows
  <2> QED BY <2>1, <2>2 DEF Smooth
<1>8. \A s \in Sessions : call'[s] # "stopped" => Smooth(s)'
  BY <1>1, <1>3, <1>7, OthersKept
<1> QED BY <1>5, <1>6, <1>8 DEF AvatarInv

LEMMA GrantedStep ==
    ASSUME AvatarInv, NEW r \in Sessions, Granted(r)
    PROVE  AvatarInv'
<1>1. /\ waiters # <<>> /\ Head(waiters) = r /\ waiters' = Tail(waiters)
      /\ UNCHANGED <<frameIndex, frames, cut, shown, skipped, moved>> /\ AvatarTyped
  BY DEF Granted, AvatarInv
<1>2. PICK c \in {"idle", "inside"}, new \in Threads :
         /\ call' = [call EXCEPT ![r] = c]
         /\ thread' = [thread EXCEPT ![r] = new]
         /\ IF c = "idle" THEN new = thread[r] ELSE new.at = "gathering"
  <2>1. CASE cut[r]
    <3>1. call' = [call EXCEPT ![r] = "idle"] /\ thread' = [thread EXCEPT ![r] = thread[r]]
      BY <2>1, <1>1 DEF Granted, AvatarTyped
    <3>2. thread[r] \in Threads
      BY <1>1 DEF AvatarTyped
    <3> QED BY <3>1, <3>2
  <2>2. CASE ~cut[r]
    <3>1. PICK speaks \in BOOLEAN :
             thread' = [thread EXCEPT ![r] =
                           [NoThread EXCEPT !.at = "gathering", !.speaks = speaks]]
      BY <2>2 DEF Granted
    <3>2. call' = [call EXCEPT ![r] = "inside"]
      BY <2>2 DEF Granted
    <3>3. NoThread \in Threads
      BY DEF NoThread, Threads, Stages
    <3> DEFINE fresh == [NoThread EXCEPT !.at = "gathering", !.speaks = speaks]
    <3>4. fresh \in Threads /\ fresh.at = "gathering"
      BY <3>3 DEF Threads, Stages
    <3> HIDE DEF fresh
    <3> QED BY <3>1, <3>2, <3>4 DEF fresh
  <2> QED BY <2>1, <2>2
<1>3. /\ call'[r] = c /\ thread'[r] = new
      /\ \A s \in Sessions \ {r} : call'[s] = call[s] /\ thread'[s] = thread[s]
      /\ call' \in [Sessions -> {"idle", "waiting", "inside", "yielding", "stopped"}]
      /\ thread' \in [Sessions -> Threads]
  BY <1>1, <1>2 DEF AvatarTyped
<1>4. QueueWaits' /\ waiters' \in Seq(Sessions) /\ call[r] = "waiting"
  BY <1>1, <1>3, QueueMoves
<1>5. AvatarTyped'
  BY <1>1, <1>3, <1>4 DEF AvatarTyped
<1>6. Smooth(r)'
  <2>1. Smooth(r) /\ thread[r] = NoThread /\ NoThread.at = "none"
    BY <1>4 DEF AvatarInv, Smooth, InPlace, NoThread
  <2>2. InPlace(r)'
    BY <1>1, <1>2, <1>3, <1>4, <2>1 DEF Smooth, InPlace
  <2>3. new.at \in {"none", "gathering"}
    BY <1>2, <2>1
  <2>4. ThreadFollows(r)'
    BY <1>3, <2>3 DEF ThreadFollows
  <2>5. IndexFollows(r)' /\ FramesFollow(r)'
    BY <1>1, <1>3, <2>1, <2>3 DEF Smooth, IndexFollows, FramesFollow, Follows
  <2> QED BY <2>2, <2>4, <2>5 DEF Smooth
<1>7. \A s \in Sessions : call'[s] # "stopped" => Smooth(s)'
  BY <1>1, <1>3, <1>6, OthersKept
<1> QED BY <1>4, <1>5, <1>7 DEF AvatarInv

LEMMA ResumesStep ==
    ASSUME AvatarInv, NEW r \in Sessions, Resumes(r)
    PROVE  AvatarInv'
<1> DEFINE t == thread[r]
<1>1. /\ call[r] = "inside" /\ t.at \in {"done", "raised"}
      /\ thread' = [thread EXCEPT ![r] = NoThread]
      /\ UNCHANGED <<frameIndex, waiters, cut, shown, skipped, moved>>
      /\ AvatarTyped /\ Smooth(r) /\ t \in Threads
      /\ NoThread \in Threads /\ NoThread.at = "none"
  BY DEF Resumes, AvatarInv, AvatarTyped, NoThread, Threads, Stages
<1>2. /\ t.at = "done" =>
            call' = [call EXCEPT ![r] = "yielding"]
            /\ frames' = [frames EXCEPT ![r] = Pictures(t)]
      /\ t.at = "raised" => call' = [call EXCEPT ![r] = "idle"] /\ frames' = frames
  BY DEF Resumes
<1>3. frames[r] = <<>>
  BY <1>1 DEF Smooth, InPlace
<1>4. t.at = "done" =>
         /\ t.face \in Nat /\ t.body \in Nat
         /\ ~t.shaken => t.face = t.body /\ Follows(r, MirrorIndex(Length, t.body))
         /\ r \notin moved => MirrorIndex(Length, frameIndex) = MirrorIndex(Length, t.body + Batch)
  BY <1>1 DEF Smooth, ThreadFollows
<1>5. t.at = "done" =>
         /\ Pictures(t) \in Seq(Picture) /\ Len(Pictures(t)) = Batch
         /\ \A i \in 1..Batch :
               /\ Pictures(t)[i].shaken = t.shaken
               /\ t.face = t.body => Pictures(t)[i].face = Pictures(t)[i].body
               /\ Pictures(t)[i].body = MirrorIndex(Length, t.body + i - 1)
         /\ \A i, j \in 1..Batch :
               i <= j => Near(Pictures(t)[i].body, Pictures(t)[j].body, j - i)
  BY <1>1, <1>4, PicturesOf
<1> HIDE DEF t
<1>6. /\ thread'[r] = NoThread /\ call'[r] \in {"idle", "yielding"}
      /\ frames'[r] = IF t.at = "done" THEN Pictures(t) ELSE <<>>
      /\ call'[r] = "idle" => t.at = "raised"
      /\ \A s \in Sessions \ {r} :
            call'[s] = call[s] /\ thread'[s] = thread[s] /\ frames'[s] = frames[s]
      /\ call' \in [Sessions -> {"idle", "waiting", "inside", "yielding", "stopped"}]
      /\ thread' \in [Sessions -> Threads]
  BY <1>1, <1>2, <1>3 DEF AvatarTyped
<1>7. frames' \in [Sessions -> Seq(Picture)]
  BY <1>1, <1>2, <1>5 DEF AvatarTyped
<1>8. AvatarTyped'
  BY <1>1, <1>6, <1>7 DEF AvatarTyped
<1>9. QueueWaits'
  BY <1>1, <1>6, QueueStays
<1>10. Smooth(r)'
  <2>1. InPlace(r)'
    BY <1>1, <1>3, <1>6 DEF InPlace
  <2>2. ThreadFollows(r)'
    BY <1>1, <1>6 DEF ThreadFollows
  <2>3. CASE t.at = "raised"
    <3>1. frames'[r] = <<>> /\ Len(frames'[r]) = 0
      BY <2>3, <1>6
    <3>2. IndexFollows(r)'
      BY <2>3, <1>1, <1>3, <3>1 DEF Smooth, IndexFollows, Follows, t
    <3>3. FramesFollow(r)'
      BY <3>1 DEF FramesFollow
    <3> QED BY <2>1, <2>2, <3>2, <3>3 DEF Smooth
  <2>4. CASE t.at = "done"
    <3>1. frames'[r] = Pictures(t) /\ Batch \in Nat \ {0} /\ Length \in Nat \ {0}
      BY <2>4, <1>6, WorkerAssumption
    <3>2. 1 \in 1..Batch /\ Batch \in 1..Batch /\ frames'[r] # <<>>
      BY <2>4, <1>5, <3>1
    <3>3. IndexFollows(r)'
      BY <3>2 DEF IndexFollows
    <3>4. \A i \in 1..Len(frames'[r]) :
             ~frames'[r][i].shaken => frames'[r][i].face = frames'[r][i].body
      BY <2>4, <1>4, <1>5, <3>1
    <3>5. \A i, j \in 1..Len(frames'[r]) :
             i <= j => Near(frames'[r][i].body, frames'[r][j].body, j - i)
      BY <2>4, <1>5, <3>1
    <3>6. ~frames'[r][1].shaken /\ shown'[r] # NoPicture =>
             Near(shown'[r], frames'[r][1].body, 1 + skipped'[r])
      <4>1. frames'[r][1].shaken = t.shaken
        BY <2>4, <1>5, <3>1, <3>2
      <4>2. frames'[r][1].body = MirrorIndex(Length, t.body)
        <5>1. t.body + 1 - 1 = t.body
          BY <2>4, <1>4
        <5> QED BY <2>4, <1>5, <3>1, <3>2, <5>1
      <4> QED BY <2>4, <1>1, <1>4, <4>1, <4>2 DEF Follows
    <3>7. r \notin moved' => \A i \in 1..Len(frames'[r]) :
             Near(frames'[r][i].body, MirrorIndex(Length, frameIndex'),
                  Len(frames'[r]) + 1 - i)
      <4> SUFFICES ASSUME r \notin moved, NEW i \in 1..Batch
                   PROVE  Near(Pictures(t)[i].body, MirrorIndex(Length, frameIndex),
                               Batch + 1 - i)
        BY <2>4, <1>1, <1>5, <3>1
      <4>1. Pictures(t)[i].body = MirrorIndex(Length, t.body + i - 1)
        BY <2>4, <1>5
      <4>2. /\ t.body + i - 1 \in Nat /\ t.body + Batch \in Nat
            /\ t.body + i - 1 <= t.body + Batch
            /\ (t.body + Batch) - (t.body + i - 1) = Batch + 1 - i
            /\ MirrorIndex(Length, frameIndex) = MirrorIndex(Length, t.body + Batch)
        BY <2>4, <1>4, <3>1
      <4>3. Near(MirrorIndex(Length, t.body + i - 1), MirrorIndex(Length, t.body + Batch),
                 (t.body + Batch) - (t.body + i - 1))
        BY <4>2, <3>1, MirrorReach
      <4> QED BY <4>1, <4>2, <4>3
    <3>8. FramesFollow(r)'
      BY <3>4, <3>5, <3>6, <3>7 DEF FramesFollow, Follows
    <3> QED BY <2>1, <2>2, <3>3, <3>8 DEF Smooth
  <2> QED BY <2>3, <2>4, <1>1 DEF t
<1>11. \A s \in Sessions : call'[s] # "stopped" => Smooth(s)'
  BY <1>1, <1>6, <1>10, OthersKept
<1> QED BY <1>8, <1>9, <1>11 DEF AvatarInv

(* The first of the frames is shown; what follows it is the next one, or   *)
(* the index.                                                              *)
LEMMA PublishesStep ==
    ASSUME AvatarInv, NEW r \in Sessions, Publishes(r)
    PROVE  AvatarInv'
<1> DEFINE f == frames[r]
<1>1. /\ call[r] = "yielding" /\ ~cut[r] /\ f # <<>>
      /\ shown' = [shown EXCEPT ![r] = Head(f).body]
      /\ skipped' = [skipped EXCEPT ![r] = 0]
      /\ frames' = [frames EXCEPT ![r] = Tail(f)]
      /\ UNCHANGED <<frameIndex, holder, waiters, call, thread, cut, moved>>
      /\ AvatarTyped /\ Smooth(r)
  BY DEF Publishes, AvatarInv
<1>2. /\ f \in Seq(Picture) /\ Len(f) \in Nat \ {0} /\ Head(f) = f[1] /\ Head(f) \in Picture
      /\ Tail(f) \in Seq(Picture) /\ Len(Tail(f)) = Len(f) - 1
      /\ \A i \in 1..Len(Tail(f)) : Tail(f)[i] = f[i + 1]
  BY <1>1 DEF AvatarTyped
<1>3. /\ shown'[r] = f[1].body /\ skipped'[r] = 0 /\ frames'[r] = Tail(f)
      /\ \A s \in Sessions \ {r} :
            shown'[s] = shown[s] /\ skipped'[s] = skipped[s] /\ frames'[s] = frames[s]
      /\ shown' \in [Sessions -> -1..(Length - 1)] /\ skipped' \in [Sessions -> Int]
      /\ frames' \in [Sessions -> Seq(Picture)]
  <2>1. f[1].body \in 0..(Length - 1) /\ Length \in Nat \ {0}
    BY <1>2, WorkerAssumption DEF Picture
  <2>2. f[1].body \in -1..(Length - 1)
    BY <2>1
  <2> QED BY <1>1, <1>2, <2>2 DEF AvatarTyped
<1>4. AvatarTyped' /\ QueueWaits'
  BY <1>1, <1>3 DEF AvatarTyped, AvatarInv, QueueWaits
<1>5. thread[r] = NoThread /\ NoThread.at = "none"
  BY <1>1 DEF Smooth, InPlace, NoThread
<1>6. /\ \A i \in 1..Len(f) : ~f[i].shaken => f[i].face = f[i].body
      /\ \A i, j \in 1..Len(f) : i <= j => Near(f[i].body, f[j].body, j - i)
      /\ r \notin moved => \A i \in 1..Len(f) :
            Near(f[i].body, MirrorIndex(Length, frameIndex), Len(f) + 1 - i)
  BY <1>1 DEF Smooth, FramesFollow
<1> HIDE DEF f
<1>7. InPlace(r)' /\ ThreadFollows(r)'
  BY <1>1, <1>5 DEF InPlace, ThreadFollows
<1>8. IndexFollows(r)'
  <2>1. ASSUME Tail(f) = <<>>, r \notin moved
        PROVE  Near(f[1].body, MirrorIndex(Length, frameIndex), 1 + 0)
    <3>1. Len(f) = 1 /\ 1 \in 1..Len(f) /\ Len(f) + 1 - 1 = 1 + 0
      BY <1>2, <2>1
    <3>2. Near(f[1].body, MirrorIndex(Length, frameIndex), Len(f) + 1 - 1)
      BY <2>1, <3>1, <1>6
    <3> QED BY <3>1, <3>2
  <2>2. frames'[r] = <<>> /\ r \notin moved' =>
           Near(shown'[r], MirrorIndex(Length, frameIndex'), 1 + skipped'[r])
    <3>1. /\ frameIndex' = frameIndex /\ moved' = moved
          /\ shown'[r] = f[1].body /\ skipped'[r] = 0 /\ frames'[r] = Tail(f)
      BY <1>1, <1>3
    <3> QED BY <2>1, <3>1
  <2> QED BY <2>2 DEF IndexFollows, Follows
<1>9. FramesFollow(r)'
  <2>1. \A i \in 1..Len(Tail(f)) : i + 1 \in 1..Len(f)
    BY <1>2
  <2>2. \A i \in 1..Len(Tail(f)) : ~Tail(f)[i].shaken => Tail(f)[i].face = Tail(f)[i].body
    BY <1>2, <1>6, <2>1
  <2>3. ASSUME NEW i \in 1..Len(Tail(f)), NEW j \in 1..Len(Tail(f)), i <= j
        PROVE  Near(Tail(f)[i].body, Tail(f)[j].body, j - i)
    <3>1. i + 1 <= j + 1 /\ (j + 1) - (i + 1) = j - i
      BY <2>3
    <3>2. Near(f[i + 1].body, f[j + 1].body, (j + 1) - (i + 1))
      BY <3>1, <2>1, <1>6
    <3> QED BY <3>1, <3>2, <1>2
  <2>4. ASSUME Tail(f) # <<>>
        PROVE  Near(f[1].body, Tail(f)[1].body, 1 + 0)
    <3>1. Len(Tail(f)) # 0
      BY <1>2, <2>4
    <3>2. 1 \in 1..Len(Tail(f)) /\ 2 \in 1..Len(f) /\ 1 \in 1..Len(f) /\ 2 - 1 = 1 + 0
      BY <1>2, <3>1
    <3>3. Tail(f)[1] = f[2]
      BY <1>2, <3>2
    <3>4. Near(f[1].body, f[2].body, 2 - 1)
      BY <1>6, <3>2
    <3> QED BY <3>2, <3>3, <3>4
  <2>5. ASSUME r \notin moved, NEW i \in 1..Len(Tail(f))
        PROVE  Near(Tail(f)[i].body, MirrorIndex(Length, frameIndex), Len(Tail(f)) + 1 - i)
    <3>1. /\ Len(f) \in Nat /\ Len(Tail(f)) = Len(f) - 1 /\ i \in Nat
          /\ Tail(f)[i] = f[i + 1]
      BY <1>2, <2>5
    <3>2. Len(f) + 1 - (i + 1) = Len(Tail(f)) + 1 - i
      BY <3>1
    <3>3. Near(f[i + 1].body, MirrorIndex(Length, frameIndex), Len(f) + 1 - (i + 1))
      BY <2>1, <2>5, <1>6
    <3> QED BY <3>1, <3>2, <3>3
  <2> QED BY <1>1, <1>3, <2>2, <2>3, <2>4, <2>5 DEF FramesFollow, Follows
<1>10. \A s \in Sessions : call'[s] # "stopped" => Smooth(s)'
  BY <1>1, <1>3, <1>7, <1>8, <1>9, OthersKept DEF Smooth
<1> QED BY <1>4, <1>10 DEF AvatarInv

(* Frames that are cut away are as many more that the next picture may be  *)
(* from what was shown; the index is behind the last of them.              *)
LEMMA CutAwayReaches ==
    ASSUME AvatarTyped, NEW r \in Sessions, FramesFollow(r), IndexFollows(r), InPlace(r),
           call[r] = "yielding", r \notin moved, shown[r] # NoPicture
    PROVE  Near(shown[r], MirrorIndex(Length, frameIndex), 1 + CutAway(skipped[r], frames[r]))
<1> DEFINE f == frames[r]
           index == MirrorIndex(Length, frameIndex)
           n == skipped[r]
<1>1. /\ f \in Seq(Picture) /\ n \in Int /\ Length \in Nat \ {0} /\ frameIndex \in Nat
      /\ shown[r] \in 0..(Length - 1)
  BY WorkerAssumption DEF AvatarTyped, NoPicture
<1>2. index \in 0..(Length - 1)
  BY <1>1, MirrorRange
<1>3. CASE f = <<>>
  <2>1. thread[r].at = "none"
    BY DEF InPlace, NoThread
  <2>2. Near(shown[r], index, 1 + n)
    BY <1>3, <2>1 DEF IndexFollows, Follows
  <2> QED BY <1>3, <2>2 DEF CutAway
<1>4. CASE f # <<>>
  <2>1. /\ Len(f) \in Nat \ {0} /\ 1 \in 1..Len(f) /\ Head(f) = f[1]
        /\ f[1] \in Picture
    BY <1>1, <1>4
  <2>2. CutAway(n, f) = IF f[1].shaken \/ n + Len(f) > Length - 2 THEN Length - 2
                        ELSE n + Len(f)
    BY <1>4, <2>1 DEF CutAway
  <2>3. CASE f[1].shaken \/ n + Len(f) > Length - 2
    <3>1. CutAway(n, f) = Length - 2
      BY <2>2, <2>3
    <3>2. Near(shown[r], index, 1 + (Length - 2))
      BY <1>1, <1>2 DEF Near
    <3> QED BY <3>1, <3>2
  <2>4. CASE ~(f[1].shaken \/ n + Len(f) > Length - 2)
    <3>1. CutAway(n, f) = n + Len(f)
      BY <2>2, <2>4
    <3>2. Near(shown[r], f[1].body, 1 + n)
      BY <1>4, <2>4 DEF FramesFollow, Follows
    <3>3. Near(f[1].body, index, Len(f) + 1 - 1)
      BY <2>1 DEF FramesFollow
    <3>4. f[1].body \in Int
      BY <2>1, <1>1 DEF Picture
    <3> DEFINE body == f[1].body
               m == Len(f)
    <3>5. /\ body - shown[r] <= 1 + n /\ shown[r] - body <= 1 + n
          /\ index - body <= m + 1 - 1 /\ body - index <= m + 1 - 1
      BY <3>2, <3>3 DEF Near
    <3>6. body \in Int /\ m \in Int /\ n \in Int /\ shown[r] \in Int /\ index \in Int
      BY <1>1, <1>2, <2>1, <3>4
    <3> HIDE DEF body, m, n, index
    <3>7. index - shown[r] <= 1 + (n + m) /\ shown[r] - index <= 1 + (n + m)
      BY <3>5, <3>6
    <3>8. Near(shown[r], index, 1 + (n + Len(f)))
      BY <3>7 DEF Near, m
    <3> QED BY <3>1, <3>8 DEF n, index
  <2> QED BY <2>3, <2>4
<1> QED BY <1>3, <1>4

LEMMA CallEndsStep ==
    ASSUME AvatarInv, NEW r \in Sessions, CallEnds(r)
    PROVE  AvatarInv'
<1> DEFINE n == CutAway(skipped[r], frames[r])
<1>1. /\ call[r] = "yielding"
      /\ call' = [call EXCEPT ![r] = "idle"]
      /\ frames' = [frames EXCEPT ![r] = <<>>]
      /\ skipped' = [skipped EXCEPT ![r] = n]
      /\ UNCHANGED <<frameIndex, waiters, thread, cut, shown, moved>>
      /\ AvatarTyped /\ Smooth(r)
  BY DEF CallEnds, AvatarInv
<1>2. n \in Int
  <2>1. skipped[r] \in Int /\ Len(frames[r]) \in Nat /\ Length \in Nat
    BY <1>1, WorkerAssumption DEF AvatarTyped
  <2> QED BY <2>1 DEF CutAway
<1>3. r \notin moved /\ shown[r] # NoPicture =>
         Near(shown[r], MirrorIndex(Length, frameIndex), 1 + n)
  BY <1>1, CutAwayReaches DEF Smooth
<1> HIDE DEF n
<1>4. /\ call'[r] = "idle" /\ frames'[r] = <<>> /\ Len(frames'[r]) = 0 /\ skipped'[r] = n
      /\ \A s \in Sessions \ {r} :
            call'[s] = call[s] /\ frames'[s] = frames[s] /\ skipped'[s] = skipped[s]
      /\ call' \in [Sessions -> {"idle", "waiting", "inside", "yielding", "stopped"}]
      /\ frames' \in [Sessions -> Seq(Picture)] /\ skipped' \in [Sessions -> Int]
  BY <1>1, <1>2 DEF AvatarTyped
<1>5. AvatarTyped'
  BY <1>1, <1>4 DEF AvatarTyped
<1>6. QueueWaits'
  BY <1>1, <1>4, QueueStays
<1>7. Smooth(r)'
  <2>1. InPlace(r)'
    BY <1>1, <1>4 DEF Smooth, InPlace
  <2>2. thread[r].at = "none"
    BY <1>1 DEF Smooth, InPlace, NoThread
  <2>3. ThreadFollows(r)'
    BY <1>1, <2>2 DEF ThreadFollows
  <2>4. IndexFollows(r)'
    BY <1>1, <1>3, <1>4 DEF IndexFollows, Follows
  <2>5. FramesFollow(r)'
    BY <1>4 DEF FramesFollow
  <2> QED BY <2>1, <2>3, <2>4, <2>5 DEF Smooth
<1>8. \A s \in Sessions : call'[s] # "stopped" => Smooth(s)'
  BY <1>1, <1>4, <1>7, OthersKept
<1> QED BY <1>5, <1>6, <1>8 DEF AvatarInv

(* A session whose thread exists, and that is not stopped, waits for it.   *)
LEMMA ThreadInside ==
    ASSUME AvatarInv, NEW r \in Sessions, thread[r].at # "none", call[r] # "stopped"
    PROVE  call[r] = "inside" /\ frames[r] = <<>>
<1>1. Smooth(r) /\ NoThread.at = "none"
  BY DEF AvatarInv, NoThread
<1> QED BY <1>1 DEF AvatarInv, AvatarTyped, Smooth, InPlace

(* What a step of a thread has to show: the new thread, and that a session *)
(* which is still there goes on as it should.                              *)
LEMMA ThreadMoves ==
    ASSUME AvatarInv, NEW r \in Sessions, NEW new \in Threads,
           thread[r].at # "none", new.at # "none",
           thread' = [thread EXCEPT ![r] = new],
           UNCHANGED <<waiters, call, frames, cut, shown, skipped>>,
           frameIndex' \in Nat, moved' \in SUBSET Sessions,
           \A s \in Sessions \ {r} :
              \/ s \in moved' \/ call[s] = "stopped"
              \/ frameIndex' = frameIndex /\ (s \in moved' <=> s \in moved),
           ASSUME Smooth(r), frames[r] = <<>>, thread'[r] = new
           PROVE  ThreadFollows(r)' /\ IndexFollows(r)'
    PROVE  AvatarInv'
<1>1. /\ thread'[r] = new /\ thread' \in [Sessions -> Threads]
      /\ \A s \in Sessions \ {r} : thread'[s] = thread[s]
  BY DEF AvatarInv, AvatarTyped
<1>2. AvatarTyped' /\ QueueWaits'
  BY <1>1 DEF AvatarInv, AvatarTyped, QueueWaits
<1>3. ASSUME call[r] # "stopped"
      PROVE  Smooth(r)'
  <2>1. Smooth(r) /\ call[r] = "inside" /\ frames[r] = <<>>
    BY <1>3, ThreadInside DEF AvatarInv
  <2>2. ThreadFollows(r)' /\ IndexFollows(r)'
    BY <2>1, <1>1
  <2>3. InPlace(r)'
    BY <2>1, <1>1 DEF Smooth, InPlace
  <2>4. FramesFollow(r)'
    <3>1. frames'[r] = <<>> /\ Len(frames'[r]) = 0
      BY <2>1
    <3> QED BY <3>1 DEF FramesFollow
  <2> QED BY <2>2, <2>3, <2>4 DEF Smooth
<1>4. \A s \in Sessions : call'[s] # "stopped" => Smooth(s)'
  BY <1>1, <1>3, OthersKept
<1> QED BY <1>2, <1>4 DEF AvatarInv

LEMMA GathersStep ==
    ASSUME AvatarInv, NEW r \in Sessions, Gathers(r)
    PROVE  AvatarInv'
<1> DEFINE new == [thread[r] EXCEPT !.at = "pasting", !.face = frameIndex]
<1>1. /\ thread[r].at = "gathering" /\ thread' = [thread EXCEPT ![r] = new]
      /\ UNCHANGED <<frameIndex, holder, waiters, call, frames, cut, shown, skipped, moved>>
      /\ AvatarTyped
  BY DEF Gathers, AvatarInv, AvatarTyped
<1>2. thread[r] \in Threads /\ frameIndex \in Nat /\ frameIndex \in Int
  BY <1>1 DEF AvatarTyped
<1>3. new \in Threads /\ new.at = "pasting" /\ new.face = frameIndex
  BY <1>2 DEF Threads, Stages
<1> HIDE DEF new
<1>4. ASSUME Smooth(r), frames[r] = <<>>, thread'[r] = new
      PROVE  ThreadFollows(r)' /\ IndexFollows(r)'
  <2>1. ThreadFollows(r)'
    BY <1>1, <1>2, <1>3, <1>4 DEF ThreadFollows
  <2>2. IndexFollows(r)'
    BY <1>1, <1>3, <1>4 DEF Smooth, IndexFollows, Follows
  <2> QED BY <2>1, <2>2
<1>5. moved' \in SUBSET Sessions
  BY <1>1 DEF AvatarTyped
<1> QED BY <1>1, <1>2, <1>3, <1>4, <1>5, ThreadMoves

(* A thread that has taken its frames.                                     *)
Pasted(t, face, body, told) ==
    [t EXCEPT !.at = "advancing", !.body = body, !.face = face, !.shaken = told]

LEMMA PastedThread ==
    ASSUME NEW t \in Threads, NEW face \in Int, NEW body \in Int, NEW told \in BOOLEAN
    PROVE  /\ Pasted(t, face, body, told) \in Threads
           /\ Pasted(t, face, body, told).at = "advancing"
           /\ Pasted(t, face, body, told).face = face
           /\ Pasted(t, face, body, told).body = body
           /\ Pasted(t, face, body, told).shaken = told
BY DEF Pasted, Threads, Stages

(* The frames are taken from the index: unless it was moved, it is where   *)
(* the faces were gathered, and follows what was shown.                    *)
LEMMA PastesStep ==
    ASSUME AvatarInv, NEW r \in Sessions, Pastes(r)
    PROVE  AvatarInv'
<1>0. PICK told \in BOOLEAN : told = (r \in moved) /\ (told <=> r \in moved)
  <2>1. CASE r \in moved
    <3>1. TRUE = (r \in moved)
      BY <2>1
    <3> QED BY <2>1, <3>1, Zenon
  <2>2. CASE r \notin moved
    <3>1. FALSE = (r \in moved)
      BY <2>2
    <3> QED BY <2>2, <3>1, Zenon
  <2> QED BY <2>1, <2>2
<1> DEFINE face == IF thread[r].speaks THEN thread[r].face ELSE frameIndex
           new == Pasted(thread[r], face, frameIndex, told)
<1>1. /\ thread[r].at = IF thread[r].speaks THEN "pasting" ELSE "gathering"
      /\ moved' = moved \ {r}
      /\ UNCHANGED <<frameIndex, holder, waiters, call, frames, cut, shown, skipped>>
      /\ AvatarTyped /\ thread[r] \in Threads /\ frameIndex \in Nat
  BY DEF Pastes, AvatarInv, AvatarTyped
<1>2. thread' = [thread EXCEPT ![r] = new]
  BY <1>0, <1>1 DEF Pastes, AvatarTyped, Pasted
<1>3. face \in Int
  BY <1>1 DEF Threads
<1> HIDE DEF face
<1>4. /\ new \in Threads /\ new.at = "advancing" /\ new.face = face
      /\ new.body = frameIndex /\ new.shaken = told
  <2>1. thread[r] \in Threads /\ frameIndex \in Int /\ face \in Int /\ told \in BOOLEAN
    BY <1>1, <1>3
  <2> QED BY <2>1, PastedThread
<1> HIDE DEF new
<1>5. new.shaken <=> r \in moved
  BY <1>0, <1>4
<1>6. ASSUME Smooth(r), frames[r] = <<>>, thread'[r] = new
      PROVE  ThreadFollows(r)' /\ IndexFollows(r)'
  <2>1. face \in Nat /\ (r \notin moved => face = frameIndex)
    <3>1. CASE thread[r].speaks
      BY <3>1, <1>1, <1>6 DEF Smooth, ThreadFollows, face
    <3>2. CASE ~thread[r].speaks
      BY <3>2, <1>1 DEF face
    <3> QED BY <3>1, <3>2
  <2>2. r \notin moved => Follows(r, MirrorIndex(Length, frameIndex))
    BY <1>1, <1>6 DEF Smooth, IndexFollows
  <2>3. ThreadFollows(r)'
    BY <2>1, <2>2, <1>1, <1>4, <1>5, <1>6 DEF ThreadFollows, Follows
  <2>4. IndexFollows(r)'
    BY <1>4, <1>6 DEF IndexFollows
  <2> QED BY <2>3, <2>4
<1>7. thread[r].at # "none" /\ moved' \in SUBSET Sessions
  BY <1>1 DEF AvatarTyped
<1>8. \A s \in Sessions \ {r} : s \in moved' <=> s \in moved
  BY <1>1
<1> QED BY <1>1, <1>2, <1>4, <1>6, <1>7, <1>8, ThreadMoves

(* The index goes on by a batch, and begins again after two passes; all    *)
(* the others are told.                                                    *)
LEMMA AdvancesStep ==
    ASSUME AvatarInv, NEW r \in Sessions, Advances(r)
    PROVE  AvatarInv'
<1> DEFINE new == [thread[r] EXCEPT !.at = "done"]
<1>1. /\ thread[r].at = "advancing" /\ thread' = [thread EXCEPT ![r] = new]
      /\ frameIndex' = (frameIndex + Batch) % (2 * Length)
      /\ moved' = moved \union {s \in Sessions \ {r} : call[s] # "stopped"}
      /\ UNCHANGED <<holder, waiters, call, frames, cut, shown, skipped>>
      /\ AvatarTyped /\ thread[r] \in Threads
  BY DEF Advances, Advanced, AvatarInv, AvatarTyped
<1>2. frameIndex + Batch \in Nat /\ Length \in Nat \ {0}
  BY <1>1, WorkerAssumption DEF AvatarTyped
<1>3. /\ frameIndex' \in Nat
      /\ MirrorIndex(Length, frameIndex') = MirrorIndex(Length, frameIndex + Batch)
  BY <1>1, <1>2, MirrorPeriod
<1>4. /\ new \in Threads /\ new.at = "done" /\ new.face = thread[r].face
      /\ new.body = thread[r].body /\ new.shaken = thread[r].shaken
  BY <1>1 DEF Threads, Stages
<1> HIDE DEF new
<1>5. ASSUME Smooth(r), frames[r] = <<>>, thread'[r] = new
      PROVE  ThreadFollows(r)' /\ IndexFollows(r)'
  <2>1. /\ new.face \in Nat /\ new.body \in Nat
        /\ ~new.shaken =>
              new.face = new.body /\ Follows(r, MirrorIndex(Length, new.body))
        /\ r \notin moved => new.body = frameIndex
    BY <1>1, <1>4, <1>5 DEF Smooth, ThreadFollows
  <2>2. r \notin moved' =>
           MirrorIndex(Length, frameIndex') = MirrorIndex(Length, new.body + Batch)
    BY <2>1, <1>1, <1>3
  <2>3. ThreadFollows(r)'
    BY <2>1, <2>2, <1>1, <1>4, <1>5 DEF ThreadFollows, Follows
  <2>4. IndexFollows(r)'
    BY <1>4, <1>5 DEF IndexFollows
  <2> QED BY <2>3, <2>4
<1>6. /\ moved' \in SUBSET Sessions
      /\ \A s \in Sessions \ {r} : s \in moved' \/ call[s] = "stopped"
  BY <1>1 DEF AvatarTyped
<1> QED BY <1>1, <1>3, <1>4, <1>5, <1>6, ThreadMoves

LEMMA RaisesStep ==
    ASSUME AvatarInv, NEW r \in Sessions, Raises(r)
    PROVE  AvatarInv'
<1> DEFINE new == [thread[r] EXCEPT !.at = "raised"]
<1>1. /\ thread[r].at = "pasting" /\ thread' = [thread EXCEPT ![r] = new]
      /\ UNCHANGED <<frameIndex, holder, waiters, call, frames, cut, shown, skipped, moved>>
      /\ AvatarTyped /\ thread[r] \in Threads
  BY DEF Raises, AvatarInv, AvatarTyped
<1>2. new \in Threads /\ new.at = "raised"
  BY <1>1 DEF Threads, Stages
<1> HIDE DEF new
<1>3. ASSUME Smooth(r), frames[r] = <<>>, thread'[r] = new
      PROVE  ThreadFollows(r)' /\ IndexFollows(r)'
  BY <1>1, <1>2, <1>3 DEF Smooth, ThreadFollows, IndexFollows, Follows
<1>4. frameIndex' \in Nat /\ moved' \in SUBSET Sessions
  BY <1>1 DEF AvatarTyped
<1> QED BY <1>1, <1>2, <1>3, <1>4, ThreadMoves

(* An interruption cuts the chunk, and touches nothing else.               *)
LEMMA InterruptsStep ==
    ASSUME AvatarInv, NEW r \in Sessions, Interrupts(r)
    PROVE  AvatarInv'
<1>1. /\ cut' = [cut EXCEPT ![r] = TRUE]
      /\ UNCHANGED <<frameIndex, holder, waiters, call, thread, frames, shown, skipped, moved>>
      /\ AvatarTyped
  BY DEF Interrupts, AvatarInv
<1>2. AvatarTyped' /\ QueueWaits'
  BY <1>1 DEF AvatarTyped, AvatarInv, QueueWaits
<1>3. ASSUME NEW s \in Sessions, call'[s] # "stopped"
      PROVE  Smooth(s)'
  BY <1>1, <1>3, Untouched DEF AvatarInv
<1> QED BY <1>2, <1>3 DEF AvatarInv

LEMMA StopsStep ==
    ASSUME AvatarInv, NEW r \in Sessions, Stops(r)
    PROVE  AvatarInv'
<1>1. /\ call' = [call EXCEPT ![r] = "stopped"] /\ waiters' = RemoveFirst(waiters, r)
      /\ frames' = [frames EXCEPT ![r] = <<>>]
      /\ shown' = [shown EXCEPT ![r] = NoPicture] /\ skipped' = [skipped EXCEPT ![r] = 0]
      /\ cut' = [cut EXCEPT ![r] = TRUE] /\ moved' = moved \ {r}
      /\ UNCHANGED <<frameIndex, thread>>
      /\ AvatarTyped /\ NoPicture \in -1..(Length - 1)
  BY WorkerAssumption DEF Stops, AvatarInv, NoPicture
<1>2. /\ call'[r] = "stopped"
      /\ \A s \in Sessions \ {r} :
            /\ call'[s] = call[s] /\ frames'[s] = frames[s]
            /\ shown'[s] = shown[s] /\ skipped'[s] = skipped[s]
            /\ s \in moved' <=> s \in moved
      /\ call' \in [Sessions -> {"idle", "waiting", "inside", "yielding", "stopped"}]
      /\ frames' \in [Sessions -> Seq(Picture)] /\ cut' \in [Sessions -> BOOLEAN]
      /\ shown' \in [Sessions -> -1..(Length - 1)] /\ skipped' \in [Sessions -> Int]
      /\ moved' \in SUBSET Sessions
  BY <1>1 DEF AvatarTyped
<1>3. QueueWaits' /\ waiters' \in Seq(Sessions)
  BY <1>1, <1>2, QueueLeaves
<1>4. AvatarTyped'
  BY <1>1, <1>2, <1>3 DEF AvatarTyped
<1>5. \A s \in Sessions : call'[s] # "stopped" => Smooth(s)'
  BY <1>1, <1>2, OthersKept
<1> QED BY <1>3, <1>4, <1>5 DEF AvatarInv

(* What is left alone by a step that moves nothing but the lock.           *)
LEMMA LockOnly ==
    ASSUME AvatarInv,
           UNCHANGED <<frameIndex, waiters, call, thread, frames, cut, shown, skipped, moved>>
    PROVE  AvatarInv'
<1>1. AvatarTyped' /\ QueueWaits'
  BY DEF AvatarInv, AvatarTyped, QueueWaits
<1>2. ASSUME NEW s \in Sessions, call'[s] # "stopped"
      PROVE  Smooth(s)'
  BY <1>2, Untouched DEF AvatarInv
<1> QED BY <1>1, <1>2 DEF AvatarInv

LEMMA AvatarInvStep == AvatarInv /\ [AvatarNext]_avatarVars => AvatarInv'
<1> SUFFICES ASSUME AvatarInv, [AvatarNext]_avatarVars
             PROVE  AvatarInv'
  OBVIOUS
<1>1. ASSUME NEW s \in Sessions, Calls(s)
      PROVE  AvatarInv'
  BY <1>1, CallsStep
<1>2. ASSUME NEW s \in Sessions, CallStep(s)
      PROVE  AvatarInv'
  <2>1. Finalized(s) => AvatarInv'
    BY LockOnly DEF Finalized
  <2> QED BY <1>2, <2>1, GrantedStep, ResumesStep, PublishesStep, CallEndsStep DEF CallStep
<1>3. ASSUME NEW s \in Sessions, ThreadStep(s)
      PROVE  AvatarInv'
  BY <1>3, GathersStep, PastesStep, AdvancesStep, RaisesStep DEF ThreadStep
<1>4. ASSUME NEW s \in Sessions, Interrupts(s) \/ Stops(s)
      PROVE  AvatarInv'
  BY <1>4, InterruptsStep, StopsStep
<1>5. CASE UNCHANGED avatarVars
  BY <1>5, LockOnly DEF avatarVars
<1> QED BY <1>1, <1>2, <1>3, <1>4, <1>5 DEF AvatarNext

LEMMA PublishesSmoothly ==
    ASSUME AvatarInv, NEW s \in Sessions, Publishes(s), ~Head(frames[s]).shaken
    PROVE  /\ Head(frames[s]).face = Head(frames[s]).body
           /\ shown[s] # NoPicture =>
                 Head(frames[s]).body - shown[s] \in -(1 + skipped[s])..(1 + skipped[s])
<1>1. call[s] = "yielding" /\ frames[s] # <<>> /\ frames[s] \in Seq(Picture)
  BY DEF Publishes, AvatarInv, AvatarTyped
<1>2. 1 \in 1..Len(frames[s]) /\ Head(frames[s]) = frames[s][1] /\ frames[s][1] \in Picture
  BY <1>1
<1>3. FramesFollow(s)
  BY <1>1 DEF AvatarInv, Smooth
<1>4. /\ frames[s][1].face = frames[s][1].body
      /\ shown[s] # NoPicture => Near(shown[s], frames[s][1].body, 1 + skipped[s])
  BY <1>1, <1>2, <1>3 DEF FramesFollow, Follows
<1>5. /\ frames[s][1].body \in Int /\ shown[s] \in Int /\ skipped[s] \in Int
  BY <1>2, WorkerAssumption DEF AvatarInv, AvatarTyped, Picture
<1> QED BY <1>2, <1>4, <1>5 DEF Near

(* The mouth is drawn on the frame it was computed for, and a picture is as*)
(* far from the one shown before as the pictures allow that were computed  *)
(* for the session since then, those included that an interruption has cut *)
(* away; said of every batch but one during which, or before which, the    *)
(* thread of another session has moved the index (musetalk_worker.py,      *)
(* _mirror_index and _infer_batch), and not of transition frames.          *)
THEOREM MovesSmoothly == AvatarSpec => SmoothMotion
<1>1. AvatarInit => AvatarInv
  BY AvatarInvInit
<1>2. AvatarInv /\ [AvatarNext]_avatarVars => AvatarInv'
  BY AvatarInvStep
<1>3. AvatarInv /\ [AvatarNext]_avatarVars
      => [\A s \in Sessions :
             LET picture == Head(frames[s])
                 reach == 1 + skipped[s]
             IN  Publishes(s) /\ ~picture.shaken
                 => /\ picture.face = picture.body
                    /\ shown[s] # NoPicture
                          => picture.body - shown[s] \in -reach..reach]_avatarVars
  BY PublishesSmoothly
<1> QED BY <1>1, <1>2, <1>3, PTL DEF AvatarSpec, SmoothMotion
=============================================================================
