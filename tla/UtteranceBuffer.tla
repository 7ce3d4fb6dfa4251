--------------------------- MODULE UtteranceBuffer ---------------------------
(***************************************************************************)
(* The audio buffer of a realtime session (openasr-core, realtime/buffer): *)
(* a short pre-roll while nobody speaks, and the frames of the utterance   *)
(* that is open.  A frame is the time it starts at; samples are counted in *)
(* milliseconds.                                                           *)
(***************************************************************************)
EXTENDS Integers, Sequences

CONSTANTS
  FrameMs, PreRollMs,
  MaxBufferedFrames,  \* max_buffered_frames
  MaxBufferedMs,      \* max_buffered_samples
  None

BufferNew == [active |-> None, overflow |-> FALSE, preRoll |-> <<>>]
Active(id, frames) == [frames |-> frames, id |-> id]
Pushed(buffer, ok, completed) == [buffer |-> buffer, completed |-> completed, ok |-> ok]

\* ensure_capacity_counts.
Fits(count) == count <= MaxBufferedFrames /\ count * FrameMs <= MaxBufferedMs

\* trim_pre_roll: drop frames from the front while the rest still lasts PreRollMs.
TrimPreRoll(frames) ==
  LET kept == {k \in 1 .. Len(frames) : (k - 1) * FrameMs < PreRollMs}
      most == CHOOSE k \in kept : \A j \in kept : j <= k
  IN SubSeq(frames, Len(frames) - most + 1, Len(frames))

\* push_pre_roll.
PushPreRoll(b, t) ==
  LET frames == IF PreRollMs = 0 THEN <<>> ELSE TrimPreRoll(Append(b.preRoll, t))
  IN IF Fits(Len(frames)) THEN Pushed([b EXCEPT !.preRoll = frames], TRUE, <<>>)
     ELSE Pushed([b EXCEPT !.overflow = TRUE], FALSE, <<>>)

\* Faulty variant: the pre-roll is copied, not consumed.
StartActiveCopying(b, t, id) ==
  LET frames == Append(b.preRoll, t)
  IN IF Fits(Len(frames)) THEN Pushed([b EXCEPT !.active = Active(id, frames)], TRUE, <<>>)
     ELSE Pushed([b EXCEPT !.overflow = TRUE], FALSE, <<>>)

\* start_active_from_pre_roll.
StartActive(b, t, id) ==
  LET frames == Append(b.preRoll, t)
  IN IF Fits(Len(frames))
     THEN Pushed([b EXCEPT !.preRoll = <<>>, !.active = Active(id, frames)], TRUE, <<>>)
     ELSE Pushed([b EXCEPT !.overflow = TRUE], FALSE, <<>>)

\* push_active.
PushActive(b, t) ==
  LET frames == Append(b.active.frames, t)
  IN IF Fits(Len(frames)) THEN Pushed([b EXCEPT !.active.frames = frames], TRUE, <<>>)
     ELSE Pushed([b EXCEPT !.overflow = TRUE], FALSE, <<>>)

\* ingest_frame.
Ingest(b, t, events) ==
  LET starts == {i \in DOMAIN events : events[i].type = "SpeechStarted"}
      first == CHOOSE i \in starts : \A j \in starts : i <= j
  IN IF b.active # None THEN PushActive(b, t)
     ELSE IF starts # {} THEN StartActive(b, t, events[first].id)
     ELSE PushPreRoll(b, t)

\* finish: the open utterance is handed over with its frames.
Finish(b) == Pushed([b EXCEPT !.active = None], TRUE, <<b.active>>)

\* push_frame: ingest, then close what a boundary of this frame closes.
PushFrame(b, t, events) ==
  LET in == Ingest(b, t, events)
      Closes(e) == /\ e.type \in {"SpeechStopped", "MaxUtterance"}
                   /\ in.buffer.active # None /\ in.buffer.active.id = e.id
  IN IF in.ok /\ \E i \in DOMAIN events : Closes(events[i]) THEN Finish(in.buffer) ELSE in

\* flush.
Flush(b) == IF b.active = None THEN Pushed(b, TRUE, <<>>) ELSE Finish(b)
=============================================================================
