-------------------------------- MODULE Vad --------------------------------
(***************************************************************************)
(* The endpointing state machine of a realtime session (openasr-core,      *)
(* realtime/vad): which frames open and close an utterance.  Whether a     *)
(* frame is speech is the detector's answer and an input here.  Frames     *)
(* have the fixed duration FrameMs; utterances are numbered from 1.        *)
(***************************************************************************)
EXTENDS Integers, Sequences

CONSTANTS
  FrameMs,            \* frame_duration_ms
  SpeechStartMs,      \* speech that opens an utterance
  SpeechStopMs,       \* silence that closes it
  MaxUtteranceMs,     \* length at which it is cut
  NoSpeechTimeoutMs,  \* silence at the start that is reported
  None

ASSUME VadConfigValid ==
  /\ {FrameMs, SpeechStartMs, SpeechStopMs} \subseteq Nat \ {0}
  /\ {MaxUtteranceMs, NoSpeechTimeoutMs} \subseteq Nat

VadNew ==
  [state |-> "WaitingForSpeech", next |-> 1, speech |-> 0, silence |-> 0,
   candidate |-> None, id |-> None, start |-> None, waiting |-> None,
   once |-> FALSE, timedOut |-> FALSE]

Boundary(type, id, end) == [type |-> type, id |-> id, end |-> end]
Outcome(vad, events) == [vad |-> vad, events |-> events]

\* clear_state_after_boundary.
ClearAfterBoundary(v) ==
  [v EXCEPT !.state = "WaitingForSpeech", !.speech = 0, !.silence = 0,
            !.candidate = None, !.id = None, !.start = None, !.waiting = None]

\* consume_waiting_speech: the utterance starts where the run of speech did.
ConsumeWaitingSpeech(v, t) ==
  LET run == [v EXCEPT !.candidate = IF v.speech = 0 THEN t ELSE @,
                       !.speech = @ + FrameMs, !.silence = 0]
  IN IF run.speech < SpeechStartMs THEN Outcome(run, <<>>)
     ELSE Outcome([run EXCEPT !.state = "InSpeech", !.next = @ + 1, !.id = v.next,
                              !.start = run.candidate, !.once = TRUE, !.timedOut = FALSE],
                  <<Boundary("SpeechStarted", v.next, None)>>)

\* A silent frame while waiting; silence is reported once, before any speech.
WaitOn(v, t) ==
  LET quiet == [v EXCEPT !.speech = 0, !.candidate = None]
  IN IF ~v.once /\ ~v.timedOut /\ t + FrameMs - v.waiting >= NoSpeechTimeoutMs
     THEN Outcome([quiet EXCEPT !.timedOut = TRUE],
                  <<Boundary("NoSpeechTimeout", None, t + FrameMs)>>)
     ELSE Outcome(quiet, <<>>)

ProcessWaiting(v, t, isSpeech) ==
  LET w == [v EXCEPT !.waiting = IF @ = None THEN t ELSE @]
  IN IF isSpeech THEN ConsumeWaitingSpeech(w, t) ELSE WaitOn(w, t)

ProcessInSpeech(v, t, isSpeech) ==
  LET heard == [v EXCEPT !.silence = IF isSpeech THEN 0 ELSE @ + FrameMs]
      Close(type) == Outcome(ClearAfterBoundary(heard), <<Boundary(type, v.id, t + FrameMs)>>)
  IN IF ~isSpeech /\ heard.silence >= SpeechStopMs THEN Close("SpeechStopped")
     ELSE IF t + FrameMs - v.start >= MaxUtteranceMs THEN Close("MaxUtterance")
     ELSE Outcome(heard, <<>>)

\* process_decision_with_speech, for the frame that starts at t.
ProcessDecision(v, t, isSpeech) ==
  CASE v.state = "Closed" -> Outcome(v, <<>>)
    [] v.state = "WaitingForSpeech" -> ProcessWaiting(v, t, isSpeech)
    [] v.state = "InSpeech" -> ProcessInSpeech(v, t, isSpeech)

VadClose(v) == [v EXCEPT !.state = "Closed"]
=============================================================================
