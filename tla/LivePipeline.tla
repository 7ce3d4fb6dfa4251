---------------------------- MODULE LivePipeline ----------------------------
(***************************************************************************)
(* `openasr live` (openasr-cli, live.rs): the main thread takes frames     *)
(* from a capture device or a file through the VAD and the utterance       *)
(* buffer, sends completed utterances and snapshots of the open one to a   *)
(* transcription thread over a bounded channel, turns its results into     *)
(* transcript events, and shuts the session down.                          *)
(*                                                                         *)
(* A capture cannot wait: a full channel is an error.  A file waits for    *)
(* room; the handler has touched nothing the worker sees by then, so it is *)
(* one step, taken once there is room.                                     *)
(***************************************************************************)
EXTENDS Vad, FiniteSets

CONSTANTS
  PreRollMs,
  DefaultMaxFrames,   \* DEFAULT_LIVE_MAX_BUFFERED_FRAMES
  SlackMs,            \* the second that max_buffered_samples adds
  PartialIntervalMs,
  QueueCapacity,      \* LIVE_TRANSCRIPTION_QUEUE_CAPACITY
  MaxUtterances,      \* --max-utterances
  Horizon,            \* bound: audio time modelled
  MaxFaults           \* bound: backend errors and panics of the worker

ASSUME LiveAssumption ==
  /\ {PreRollMs, SlackMs} \subseteq Nat /\ 2 * FrameMs <= SlackMs
  /\ {DefaultMaxFrames, PartialIntervalMs, QueueCapacity, MaxUtterances} \subseteq Nat \ {0}
  /\ Horizon \in Nat /\ MaxFaults \in Nat

\* Every utterance takes SpeechStartMs of audio to open.
Utterances == 1 .. Horizon \div SpeechStartMs
Jobs == [end : Nat, final : BOOLEAN, generation : 0 .. 1, ok : BOOLEAN, revision : Nat,
         u : Utterances]

\* None is no job, no open utterance and no segment.
ASSUME NoneAssumption ==
  /\ None \notin Jobs
  /\ None \notin [frames : Seq(Nat), id : Nat]
  /\ None \notin [finalized : BOOLEAN, revision : Nat]

\* Faulty variant: room for the utterance, not for its pre-roll or the rounding.
FramesWithoutPreRoll == MaxUtteranceMs \div FrameMs

\* LivePipelineConfig::from_options: the capacities follow from the VAD's limits.
FramesNeeded == (MaxUtteranceMs + PreRollMs) \div FrameMs + 2
LiveMaxFrames == IF FramesNeeded > DefaultMaxFrames THEN FramesNeeded ELSE DefaultMaxFrames
LiveMaxMs == MaxUtteranceMs + PreRollMs + SlackMs

Buffer == INSTANCE UtteranceBuffer
            WITH MaxBufferedFrames <- LiveMaxFrames, MaxBufferedMs <- LiveMaxMs
Transcript == INSTANCE TranscriptLifecycle

VARIABLES
  source,    \* "capture" or "file"
  phase,     \* where the main thread is
  ending,    \* how the session ends
  now,       \* where the next frame starts
  session,   \* state of the RealtimeSessionController
  vad, buffer,
  flights,   \* partial_flights: one per utterance
  segments,  \* the TranscriptLifecycle
  accepted,  \* history: the frames of each utterance queued for its final
  completed, \* completed_utterances
  saved,     \* what --save left on disk
  jobs, pending,  \* the bounded channel and pending_jobs
  running, worker, \* the worker's job and whether it lives
  results,   \* the result channel
  batch,     \* results taken and not yet applied
  faults

audio == <<now, vad, buffer>>
channel == <<jobs, pending>>
thread == <<running, worker, results, faults>>
outcome == <<session, saved>>
vars == <<source, phase, ending, audio, outcome, flights, segments, accepted, completed,
          channel, thread, batch>>

NoFlight == [emitted |-> 0, finalized |-> FALSE, generation |-> 0, inFlight |-> FALSE,
             pending |-> None, revision |-> 0, shown |-> FALSE]
Job(u, f, final, end) ==
  [end |-> end, final |-> final, generation |-> f.generation, ok |-> TRUE,
   revision |-> f.revision + 1, u |-> u]

Init ==
  /\ source \in {"capture", "file"}
  /\ phase = "new" /\ ending = "none" /\ session = "Created"
  /\ now = 0 /\ vad = VadNew /\ buffer = Buffer!BufferNew
  /\ flights = [u \in Utterances |-> NoFlight]
  /\ segments = [u \in Utterances |-> None]
  /\ accepted = [u \in Utterances |-> <<>>]
  /\ completed = 0 /\ saved = "nothing"
  /\ jobs = <<>> /\ pending = 0
  /\ running = None /\ worker = "alive" /\ results = <<>> /\ batch = <<>> /\ faults = 0

\* start: session.created, configure, start_audio.
Start ==
  /\ phase = "new" /\ session = "Created"
  /\ session' = "Running" /\ phase' = "collect"
  /\ UNCHANGED <<source, ending, audio, saved, flights, segments, accepted, completed,
                 channel, thread, batch>>

-----------------------------------------------------------------------------
(* The channel to the worker: LiveTranscriptionWorker::queue                *)

Accepts == worker = "alive" /\ Len(jobs) < QueueCapacity
\* Full, for a capture; disconnected, for either.
Refuses == worker # "alive" \/ (source = "capture" /\ Len(jobs) >= QueueCapacity)

Send(job) == jobs' = Append(jobs, job) /\ pending' = pending + 1
Flight(u, f) == flights' = [flights EXCEPT ![u] = f]

\* An error of a frame or of a result: a capture shuts down, a file returns it.
Abort ==
  IF source = "capture" THEN phase' = "shutdown" /\ ending' = "broken"
                        ELSE phase' = "done" /\ ending' = "returned"
GoOn(next) == phase' = next /\ UNCHANGED ending

\* Faulty variant: a partial is sent while another one is out.
QueueNextEager(u, f, at, next) ==
  IF f.pending = None \/ f.finalized
  THEN Flight(u, f) /\ GoOn(next) /\ UNCHANGED channel
  ELSE LET sent == [f EXCEPT !.pending = None, !.inFlight = TRUE, !.emitted = at, !.revision = @ + 1]
       IN \/ Accepts /\ Flight(u, sent) /\ Send(Job(u, f, FALSE, f.pending)) /\ GoOn(next)
          \/ /\ Refuses
             /\ Flight(u, [sent EXCEPT !.pending = f.pending, !.inFlight = FALSE])
             /\ Abort /\ UNCHANGED channel

\* queue_next_partial: one partial is out at a time; a refused one stays pending.
QueueNextPartial(u, f, at, next) ==
  IF f.pending = None \/ f.finalized \/ f.inFlight
  THEN Flight(u, f) /\ GoOn(next) /\ UNCHANGED channel
  ELSE LET sent == [f EXCEPT !.pending = None, !.inFlight = TRUE, !.emitted = at, !.revision = @ + 1]
       IN \/ Accepts /\ Flight(u, sent) /\ Send(Job(u, f, FALSE, f.pending)) /\ GoOn(next)
          \/ /\ Refuses
             /\ Flight(u, [sent EXCEPT !.pending = f.pending, !.inFlight = FALSE])
             /\ Abort /\ UNCHANGED channel

\* maybe_queue_partial_snapshot: the snapshot ends where the last frame does.
MaybeQueuePartial(u, end, next) ==
  LET f == flights[u]
  IN IF f.finalized \/ end - f.emitted < PartialIntervalMs
     THEN GoOn(next) /\ UNCHANGED <<flights, channel>>
     ELSE QueueNextPartial(u, [f EXCEPT !.pending = end], end, next)

\* invalidate_partials_for_final.
Invalidate(f) ==
  [f EXCEPT !.finalized = TRUE, !.pending = None, !.inFlight = FALSE, !.generation = @ + 1]

AcceptedCount == Cardinality({u \in Utterances : accepted[u] # <<>>})

\* queue_utterance: past --max-utterances it is dropped; the flight is closed
\* only once the final is in the channel.
QueueUtterance(c, end, next, Refused) ==
  LET f == flights[c.id]
      bumped == [f EXCEPT !.revision = @ + 1]
  IN IF AcceptedCount >= MaxUtterances
     THEN GoOn(next) /\ UNCHANGED <<flights, accepted, channel>>
     ELSE \/ /\ Accepts
             /\ Flight(c.id, Invalidate(bumped))
             /\ Send(Job(c.id, f, TRUE, end))
             /\ accepted' = [accepted EXCEPT ![c.id] = c.frames]
             /\ GoOn(next)
          \/ /\ Refuses
             /\ Flight(c.id, bumped)
             /\ Refused /\ UNCHANGED <<accepted, channel>>

-----------------------------------------------------------------------------
(* The main loop                                                            *)

\* process_frame.  A frame that completes an utterance leaves none open, so
\* it queues a final or a partial, never both.
ProcessFrame(isSpeech) ==
  /\ phase = "loop" /\ now + FrameMs <= Horizon /\ AcceptedCount < MaxUtterances
  /\ LET v == ProcessDecision(vad, now, isSpeech)
         p == Buffer!PushFrame(buffer, now, v.events)
         end == now + FrameMs
     IN /\ vad' = v.vad /\ buffer' = p.buffer /\ now' = end
        /\ IF ~p.ok THEN Abort /\ UNCHANGED <<flights, accepted, channel>>
           ELSE IF p.completed # <<>>
           THEN QueueUtterance(Head(p.completed), end, "collect", Abort)
           ELSE /\ UNCHANGED accepted
                /\ IF p.buffer.active = None
                   THEN GoOn("collect") /\ UNCHANGED <<flights, channel>>
                   ELSE MaybeQueuePartial(p.buffer.active.id, end, "collect")
  /\ UNCHANGED <<source, outcome, segments, completed, thread, batch>>

\* The neural VAD fails on a frame.
VadFails ==
  /\ phase = "loop" /\ now + FrameMs <= Horizon /\ faults < MaxFaults /\ faults' = faults + 1
  /\ Abort
  /\ UNCHANGED <<source, audio, outcome, flights, segments, accepted, completed, channel,
                 running, worker, results, batch>>

\* drain_available.
Collect ==
  /\ phase = "collect"
  /\ batch' = results /\ results' = <<>>
  /\ pending' = IF pending < Len(results) THEN 0 ELSE pending - Len(results)
  /\ phase' = "apply"
  /\ UNCHANGED <<source, ending, audio, outcome, flights, segments, accepted, completed,
                 jobs, running, worker, faults>>

\* Faulty variant: the generations are compared, the wrong way round.
StaleAhead(r) == r.generation > flights[r.u].generation

\* The early return of apply_transcription_result for a partial.
Stale(r) == flights[r.u].finalized \/ r.generation # flights[r.u].generation

\* A partial may repeat or roll back the text shown before: suppressed.
Show(r, suppressed) ==
  LET a == Transcript!Apply(segments[r.u], r.revision, r.final, FALSE)
  IN IF suppressed THEN UNCHANGED <<segments, completed>>
     ELSE /\ segments' = [segments EXCEPT ![r.u] = a.segment]
          /\ completed' = IF r.final /\ a.event # "Ignored" THEN completed + 1 ELSE completed

\* apply_transcription_result while the channel is open: the next pending
\* snapshot follows a partial that was not stale.
ApplyResult(suppressed) ==
  /\ phase = "apply" /\ batch # <<>>
  /\ LET r == Head(batch)
         f == [flights[r.u] EXCEPT !.inFlight = FALSE]
     IN /\ suppressed => r.ok /\ ~r.final /\ flights[r.u].shown
        /\ IF ~r.ok
           THEN Abort /\ batch' = <<>> /\ UNCHANGED <<flights, segments, completed, channel>>
           ELSE IF r.final
           THEN /\ Flight(r.u, IF f.finalized THEN [f EXCEPT !.pending = None] ELSE Invalidate(f))
                /\ Show(r, FALSE) /\ GoOn("apply") /\ batch' = Tail(batch) /\ UNCHANGED channel
           ELSE IF Stale(r)
           THEN /\ ~suppressed
                /\ Flight(r.u, f) /\ GoOn("apply") /\ batch' = Tail(batch)
                /\ UNCHANGED <<segments, completed, channel>>
           ELSE /\ QueueNextPartial(r.u, [f EXCEPT !.shown = TRUE], r.end, "apply")
                /\ Show(r, suppressed)
                /\ batch' = IF phase' = "apply" THEN Tail(batch) ELSE <<>>
  /\ UNCHANGED <<source, audio, outcome, accepted, thread>>

Drained ==
  /\ phase = "apply" /\ batch = <<>>
  /\ phase' = "loop"
  /\ UNCHANGED <<source, ending, audio, outcome, flights, segments, accepted, completed,
                 channel, thread, batch>>

\* The receive times out; the loop drains again.
Idle ==
  /\ phase = "loop" /\ source = "capture" /\ AcceptedCount < MaxUtterances
  /\ phase' = "collect"
  /\ UNCHANGED <<source, ending, audio, outcome, flights, segments, accepted, completed,
                 channel, thread, batch>>

\* How the loop ends: stopped, out of time or audio, or --max-utterances
\* reached; the capture queue overflowed; the device's chunk is malformed.
Leave ==
  /\ phase = "loop"
  /\ \/ phase' = "shutdown" /\ ending' = "clean"
     \/ source = "capture" /\ phase' = "shutdown" /\ ending' = "broken"
     \/ source = "capture" /\ phase' = "done" /\ ending' = "returned"
  /\ UNCHANGED <<source, audio, outcome, flights, segments, accepted, completed,
                 channel, thread, batch>>

-----------------------------------------------------------------------------
(* shutdown                                                                 *)

\* The open utterance is flushed; if its final is refused, shutdown returns.
FlushOpen ==
  /\ phase = "shutdown"
  /\ LET p == Buffer!Flush(buffer)
     IN /\ buffer' = p.buffer
        /\ IF p.completed = <<>>
           THEN GoOn("finishing") /\ UNCHANGED <<flights, accepted, channel>>
           ELSE QueueUtterance(Head(p.completed), now, "finishing",
                               phase' = "done" /\ ending' = "refused")
  /\ UNCHANGED <<source, now, vad, outcome, segments, completed, thread, batch>>

\* LiveTranscriptionWorker::finish: the channel is closed, every result is awaited.
FinishReceive ==
  /\ phase = "finishing" /\ pending > 0 /\ results # <<>>
  /\ pending' = pending - 1
  /\ batch' = Append(batch, Head(results)) /\ results' = Tail(results)
  /\ UNCHANGED <<source, phase, ending, audio, outcome, flights, segments, accepted,
                 completed, jobs, running, worker, faults>>

\* Nothing is pending and the thread has ended.
FinishJoin ==
  /\ phase = "finishing" /\ pending = 0 /\ worker = "exited"
  /\ phase' = "settle"
  /\ UNCHANGED <<source, ending, audio, outcome, flights, segments, accepted, completed,
                 channel, thread, batch>>

HasHistory == \E u \in Utterances : segments[u] # None /\ segments[u].finalized
\* Beside the target, if there is anything to save and no such file yet.
SavePartial == saved' \in IF HasHistory THEN {saved, "partial"} ELSE {saved}

\* emit_terminal_events: stop_audio, then close.
EmitTerminal == session' = "Closed" /\ vad' = VadClose(vad)

\* The worker died: its results are dropped, the session is closed.
FinishFails ==
  /\ phase = "finishing" /\ worker = "panicked" /\ results = <<>>
  /\ EmitTerminal /\ SavePartial
  /\ batch' = <<>> /\ phase' = "done" /\ ending' = "broken"
  /\ UNCHANGED <<source, now, buffer, flights, segments, accepted, completed, channel, thread>>

\* The results that finish returned are applied; nothing is queued any more.
SettleResult(suppressed) ==
  /\ phase = "settle" /\ batch # <<>>
  /\ LET r == Head(batch)
         f == [flights[r.u] EXCEPT !.inFlight = FALSE]
     IN /\ suppressed => r.ok /\ ~r.final /\ ~Stale(r) /\ flights[r.u].shown
        /\ IF ~r.ok
           THEN ending' = "broken" /\ batch' = <<>> /\ UNCHANGED <<flights, segments, completed>>
           ELSE /\ UNCHANGED ending /\ batch' = Tail(batch)
                /\ IF r.final
                   THEN /\ Flight(r.u, IF f.finalized THEN [f EXCEPT !.pending = None] ELSE Invalidate(f))
                        /\ Show(r, FALSE)
                   ELSE IF Stale(r) THEN Flight(r.u, f) /\ UNCHANGED <<segments, completed>>
                   ELSE Flight(r.u, [f EXCEPT !.shown = TRUE]) /\ Show(r, suppressed)
  /\ UNCHANGED <<source, phase, audio, outcome, accepted, channel, thread>>

\* Faulty variant: a failed result does not keep the transcript from being
\* saved as complete.
CloseRegardless ==
  /\ phase = "settle" /\ batch = <<>>
  /\ EmitTerminal
  /\ saved' = "full" /\ UNCHANGED ending
  /\ phase' = "done"
  /\ UNCHANGED <<source, now, buffer, flights, segments, accepted, completed, channel,
                 thread, batch>>

\* Terminal events, then the transcript: in full after a clean end, else (or
\* when the write fails) what there is, beside the target.
Close ==
  /\ phase = "settle" /\ batch = <<>>
  /\ EmitTerminal
  /\ \/ ending = "clean" /\ saved' = "full" /\ UNCHANGED ending
     \/ SavePartial /\ ending' = "broken"
  /\ phase' = "done"
  /\ UNCHANGED <<source, now, buffer, flights, segments, accepted, completed, channel,
                 thread, batch>>

-----------------------------------------------------------------------------
(* The worker thread                                                        *)

main == <<source, phase, ending, audio, outcome, flights, segments, accepted, completed,
          pending, batch>>
\* Faulty variant: finish keeps the sender.
OpenToTheEnd == phase # "done"

\* finish and drop take the sender of the channel.
Open == phase \notin {"finishing", "settle", "done"}

Take ==
  /\ worker = "alive" /\ running = None /\ jobs # <<>>
  /\ running' = Head(jobs) /\ jobs' = Tail(jobs)
  /\ UNCHANGED <<main, worker, results, faults>>

Deliver ==
  /\ running # None
  /\ results' = Append(results, running) /\ running' = None
  /\ UNCHANGED <<main, jobs, worker, faults>>

\* The backend returns an error.
Fail ==
  /\ running # None /\ faults < MaxFaults
  /\ results' = Append(results, [running EXCEPT !.ok = FALSE])
  /\ running' = None /\ faults' = faults + 1
  /\ UNCHANGED <<main, jobs, worker>>

\* The backend panics: the thread ends and the channel with it.
Panic ==
  /\ running # None /\ faults < MaxFaults
  /\ worker' = "panicked" /\ running' = None /\ jobs' = <<>> /\ faults' = faults + 1
  /\ UNCHANGED <<main, results>>

\* The sender is gone and the channel is empty.
Exit ==
  /\ worker = "alive" /\ running = None /\ jobs = <<>> /\ ~Open
  /\ worker' = "exited"
  /\ UNCHANGED <<main, jobs, running, results, faults>>

Main ==
  \/ Start \/ VadFails \/ Collect \/ Drained \/ Idle \/ Leave
  \/ FlushOpen \/ FinishReceive \/ FinishJoin \/ FinishFails \/ Close
  \/ \E b \in BOOLEAN : ProcessFrame(b) \/ ApplyResult(b) \/ SettleResult(b)
Worker == Take \/ Deliver \/ Fail \/ Panic \/ Exit
Next == Main \/ Worker

Spec == Init /\ [][Next]_vars

\* Both threads run; the backend returns.
FairSpec == Spec /\ WF_vars(Main) /\ WF_vars(Worker)

-----------------------------------------------------------------------------
(* Properties                                                               *)

Frames == {k * FrameMs : k \in 0 .. Horizon \div FrameMs}

\* Types of the session's state, the channels and the flights (live.rs).
TypeOK ==
  /\ phase \in {"new", "collect", "apply", "loop", "shutdown", "finishing", "settle", "done"}
  /\ ending \in {"none", "clean", "broken", "refused", "returned"}
  /\ now \in Frames /\ session \in {"Created", "Running", "Closed"}
  /\ \A u \in Utterances : flights[u].generation \in 0 .. 1 /\ flights[u].revision \in Nat
  /\ completed <= AcceptedCount /\ AcceptedCount <= MaxUtterances
  /\ Len(jobs) <= QueueCapacity /\ running \in Jobs \cup {None}
  /\ \A i \in DOMAIN jobs : jobs[i] \in Jobs
  /\ \A i \in DOMAIN batch : batch[i] \in Jobs

\* The capacities from_options derives hold every utterance the VAD can make:
\* push_frame never overflows, whatever the rounding to frames.
CapacitySuffices == ~buffer.overflow

Consecutive(frames) == \A i \in 1 .. Len(frames) - 1 : frames[i + 1] = frames[i] + FrameMs

\* The audio of an utterance has no gap, reaches back to the frame where the
\* speech began when the pre-roll is long enough, shares no frame with another
\* utterance, and is up to date (push_frame, start_active_from_pre_roll).
SpeechIsKept ==
  /\ buffer.active # None =>
       LET frames == buffer.active.frames
       IN /\ Consecutive(frames) /\ frames[Len(frames)] = now - FrameMs
          /\ vad.state = "InSpeech" /\ vad.id = buffer.active.id
          /\ PreRollMs + FrameMs >= SpeechStartMs => frames[1] <= vad.start
          /\ \A u \in Utterances : accepted[u] # <<>> => accepted[u][Len(accepted[u])] < frames[1]
  /\ \A u, w \in Utterances : u < w /\ accepted[u] # <<>> /\ accepted[w] # <<>> =>
       accepted[u][Len(accepted[u])] < accepted[w][1]

Outstanding == batch \o results \o (IF running = None THEN <<>> ELSE <<running>>) \o jobs

\* While the session runs, at most one partial of an utterance is out and
\* in_flight says so; nothing of an utterance is queued behind its final.
OneInFlight ==
  LET out == Outstanding
      Partials(u) == {i \in DOMAIN out : out[i].u = u /\ ~out[i].final}
  IN phase \in {"collect", "apply", "loop"} /\ worker = "alive" =>
       \A u \in Utterances :
         /\ ~flights[u].finalized => Cardinality(Partials(u)) = (IF flights[u].inFlight THEN 1 ELSE 0)
         /\ \A i, j \in DOMAIN out : out[i].u = u /\ out[i].final /\ out[j].u = u => j <= i

\* Revisions of a segment only grow, a final is never changed, and once the
\* final is queued no partial is shown any more (apply_transcription_result).
TranscriptOnlyMovesForward ==
  [][\A u \in Utterances : segments'[u] # segments[u] =>
       /\ segments[u] # None => ~segments[u].finalized /\ segments'[u].revision > segments[u].revision
       /\ flights[u].finalized => segments'[u].finalized]_vars

\* A transcript saved in full has the final of every utterance accepted,
\* each counted once (shutdown, persist_history_if_requested).
SavedTranscriptComplete ==
  saved = "full" =>
    /\ \A u \in Utterances : accepted[u] # <<>> => segments[u] # None /\ segments[u].finalized
    /\ completed = AcceptedCount

\* A shutdown closes the session, whatever the worker does, unless the flush
\* of the open utterance was refused: then it returns at once.  A file is read
\* to its end or to an error: waiting for room in the channel never lasts.
LiveEnds ==
  /\ (phase = "shutdown") ~> (session = "Closed" \/ ending = "refused")
  /\ (source = "file") ~> (phase = "done")
=============================================================================
