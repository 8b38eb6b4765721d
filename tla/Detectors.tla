------------------------------- MODULE Detectors -------------------------------
(***************************************************************************)
(* The in-process detectors (audio_in/reference): EnergyVad,               *)
(* SilenceEouDetector and ScriptedAsrAdapter, each as a record of its      *)
(* fields and an operator per method.  With the thresholds that the worker *)
(* sets, a frame is "loud" (above -50 dB), "soft" (between the two of the  *)
(* VAD) or "quiet" (below -55 dB); time is counted in frames.  What the    *)
(* recogniser understands is left out: a text is the epoch in which it was *)
(* heard, 0 when empty.                                                    *)
(***************************************************************************)
EXTENDS Integers

CONSTANTS
    Hangover,          \* hangover_frames of the VAD
    SilenceNeeded,     \* silence_needed_us, in frames
    SilenceFrames      \* silence_frames_for_eou of the recogniser

ASSUME DetectorAssumption ==
    /\ Hangover \in Nat \ {0}
    /\ SilenceNeeded \in Nat \ {0}
    /\ SilenceFrames \in Nat \ {0}

Levels == {"loud", "soft", "quiet"}

-----------------------------------------------------------------------------
(* EnergyVad: speech starts with a loud frame and ends with Hangover quiet *)
(* ones.                                                                   *)

NewVad == [speech |-> FALSE, hangover |-> 0]

SpeechStarts(vad, level) == ~vad.speech /\ level = "loud"

SpeechEnds(vad, level) ==
    vad.speech /\ level = "quiet" /\ vad.hangover + 1 >= Hangover

VadAfter(vad, level) ==
    [speech   |-> (vad.speech \/ level = "loud") /\ ~SpeechEnds(vad, level),
     hangover |-> IF vad.speech
                  THEN IF level = "quiet" THEN vad.hangover + 1 ELSE 0
                  ELSE IF level = "loud" THEN 0 ELSE vad.hangover]

-----------------------------------------------------------------------------
(* SilenceEouDetector: silence is -1 until the first silent frame, then    *)
(* the time since that frame.                                              *)

NewEou == [pending |-> FALSE, silence |-> -1]

Silence(eou, gap) == IF eou.silence = -1 THEN 0 ELSE eou.silence + gap

UtteranceEnds(eou, gap, active) ==
    ~active /\ eou.pending /\ Silence(eou, gap) >= SilenceNeeded

EouAfter(eou, gap, active) ==
    IF active THEN [pending |-> TRUE, silence |-> -1]
    ELSE IF UtteranceEnds(eou, gap, active) THEN NewEou
    ELSE IF eou.pending THEN [eou EXCEPT !.silence = Silence(eou, gap)]
    ELSE eou

-----------------------------------------------------------------------------
(* ScriptedAsrAdapter: a text is pending from the first loud frame, and    *)
(* final after SilenceFrames others.                                       *)

NewAsr == [pending |-> 0, silence |-> 0]

Silent(level) == level # "loud"

Finals(asr, level) ==
    Silent(level) /\ asr.pending # 0 /\ asr.silence + 1 >= SilenceFrames

(* The count of silent frames matters up to SilenceFrames.                 *)
AsrAfter(asr, level, epoch) ==
    IF Silent(level)
    THEN [pending |-> IF Finals(asr, level) THEN 0 ELSE asr.pending,
          silence |-> IF asr.silence < SilenceFrames THEN asr.silence + 1 ELSE SilenceFrames]
    ELSE [pending |-> epoch, silence |-> 0]
=============================================================================
