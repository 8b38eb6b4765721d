------------------------------- MODULE AudioInput -------------------------------
(***************************************************************************)
(* The worker's ears: _process_frame of runtime/ingest.py and the part of  *)
(* advance_epoch that concerns the detectors, over the in-process ones or  *)
(* over the remote service (audio_in/adapters), with or without the task   *)
(* that supervises its connection.  A frame that push-to-talk suppresses is*)
(* one that is not processed; echo cancellation changes the level of one.  *)
(***************************************************************************)
EXTENDS Detectors, AsrClient

CONSTANTS
    MaxEpoch,          \* bound: the last epoch
    MaxGap             \* bound: frames between two that are processed

ASSUME InputAssumption == MaxEpoch \in Nat \ {0} /\ MaxGap \in Nat \ {0}

VARIABLES
    ears,              \* "local", or remote: with "connect" as a session does
                       \* (duplex.py:190), or with "reconnect" as only a caller of
                       \* the library can, for no session uses the supervisor
    epoch,             \* of the worker
    vad, eou, asr,     \* the in-process detectors
    vadActive,         \* _vad_active
    speechEnd,         \* history: the epoch of the last end of speech
    lastEou,           \* history: the last end of utterance that was emitted
    lastFinal          \* history: the last final result that was acted upon

earVars == <<ears, epoch, vad, eou, asr, vadActive, speechEnd, lastEou, lastFinal>>
inputVars == <<clientVars, earVars>>

Nothing == [epoch |-> 0, heard |-> 0, on |-> 0, using |-> 0]

-----------------------------------------------------------------------------
(* _process_frame with the in-process detectors.                           *)

ProcessLocally ==
    /\ ears = "local"
    /\ \E level \in Levels, gap \in 1 .. MaxGap :
          LET active == (vadActive \/ SpeechStarts(vad, level)) /\ ~SpeechEnds(vad, level)
              ended  == IF SpeechEnds(vad, level) THEN epoch ELSE speechEnd
          IN  /\ vad' = VadAfter(vad, level)
              /\ vadActive' = active
              /\ speechEnd' = ended
              /\ eou' = EouAfter(eou, gap, active)
              /\ lastEou' = IF UtteranceEnds(eou, gap, active)
                            THEN [Nothing EXCEPT !.epoch = epoch, !.heard = ended]
                            ELSE lastEou
              /\ asr' = AsrAfter(asr, level, epoch)
              /\ lastFinal' = IF Finals(asr, level)
                              THEN [Nothing EXCEPT !.epoch = epoch, !.heard = asr.pending]
                              ELSE lastFinal
    /\ UNCHANGED <<ears, epoch, clientVars>>

(* With the remote ones the frame is sent once, and what the reader has    *)
(* buffered is drained.  The worker has been stopped when close is called. *)
ProcessRemotely ==
    /\ ears # "local" /\ closing = "no"
    /\ Len(out) < MaxOut
    /\ out' = Sent(epoch)
    /\ asrBuf' = <<>>
    /\ lastFinal' = IF asrBuf = <<>> THEN lastFinal
                    ELSE [epoch |-> epoch, heard |-> asrBuf[Len(asrBuf)].heard,
                          on |-> asrBuf[1].on, using |-> ws]
    /\ UNCHANGED <<ears, epoch, vad, eou, asr, vadActive, speechEnd, lastEou>>
    /\ UNCHANGED <<place, supervised, closing, linkVars, serviceVars, reader, connected>>

(* The detectors after advance_epoch: the remote ones only send a message. *)
AsrForEpoch == IF ears = "local" THEN NewAsr ELSE asr
EouForEpoch == IF ears = "local" THEN NewEou ELSE eou

AdvanceEpoch ==
    /\ epoch < MaxEpoch
    /\ ears # "local" => Len(out) < MaxOut /\ closing = "no"
    /\ epoch' = epoch + 1
    /\ out' = IF ears = "local" THEN out ELSE Sent(0)
    /\ asr' = AsrForEpoch
    /\ vad' = NewVad
    /\ eou' = EouForEpoch
    /\ UNCHANGED <<ears, vadActive, speechEnd, lastEou, lastFinal>>
    /\ UNCHANGED <<place, supervised, closing, linkVars, serviceVars, reader, connected,
                   asrBuf>>

-----------------------------------------------------------------------------
InputInit ==
    /\ ears \in {"local", "connect", "reconnect"}
    /\ ClientInit(ears # "local")
    /\ epoch = 1
    /\ vad = NewVad /\ eou = NewEou /\ asr = NewAsr
    /\ vadActive = FALSE
    /\ speechEnd = 0 /\ lastEou = Nothing /\ lastFinal = Nothing

Client == ears # "local" /\ ClientStep(ears = "reconnect") /\ UNCHANGED earVars

InputNext == ProcessLocally \/ ProcessRemotely \/ AdvanceEpoch \/ Client

(* Timers expire and tasks run; of the service it is assumed that it lets  *)
(* an attempt succeed again and again.                                     *)
InputFairness ==
    /\ WF_inputVars(FindsDrop /\ UNCHANGED earVars)
    /\ WF_inputVars(PauseEnds /\ UNCHANGED earVars)
    /\ WF_inputVars(ReaderEnds /\ UNCHANGED earVars)
    /\ WF_inputVars(SendEnds /\ UNCHANGED earVars)
    /\ WF_inputVars(\E r \in BOOLEAN : r = (ears = "reconnect") /\ Starts(r)
                                       /\ UNCHANGED earVars)
    /\ SF_inputVars(Handshakes /\ UNCHANGED earVars)

InputSpec == InputInit /\ [][InputNext]_inputVars
InputFairSpec == InputSpec /\ InputFairness

-----------------------------------------------------------------------------
(* What the worker acts on is current.  An end of utterance follows an end *)
(* of speech of its own epoch, and an in-process final result was heard in *)
(* the epoch that it starts a turn in: the interruption of a user who is   *)
(* talking answers nothing that was said before it.  A result of the       *)
(* remote service comes from the connection in use, never from one that    *)
(* was dropped (realtime_asr_client.py:128-129).                           *)
ActsOnCurrent ==
    /\ lastEou.heard = lastEou.epoch
    /\ ears = "local" => lastFinal.heard = lastFinal.epoch
    /\ lastFinal.on = lastFinal.using

(* A client that reconnects hears again after every drop, unless it is     *)
(* closed: neither a failed send nor a failed attempt leaves it            *)
(* disconnected for good (realtime_asr_client.py:125-127).  A session's    *)
(* client does not reconnect: what is said is of a caller of the library.  *)
HearsAgain ==
    ears = "reconnect" => ([](~connected => <>(connected \/ closing # "no")))
=============================================================================
