---------------------------- MODULE NativeChannel ----------------------------
(***************************************************************************)
(* One native streaming session between its WebSocket task (openasr-server *)
(* realtime/ws_session.rs and the loop of realtime/mod.rs) and its decode  *)
(* thread (realtime/native_worker.rs): a bounded channel of commands, a    *)
(* bounded channel of outcomes, and the deque of watchdog entries the task *)
(* keeps, one per command it sent.  Sends wait for room on both channels.  *)
(*                                                                         *)
(* "Audio" stands for PushAudio, Finalize and SplitUtterance.  The decode  *)
(* call includes the wait for the process-wide execution gate              *)
(* (NativeStreaming); it may hang for ever.  The task of a session that    *)
(* diarizes runs its speaker stages under the same gate, and waits for it. *)
(***************************************************************************)
EXTENDS Integers, Sequences

CONSTANTS
  CommandCap,       \* NATIVE_STREAMING_COMMAND_QUEUE_CAPACITY, 1024
  OutcomeCap,       \* NATIVE_STREAMING_OUTCOME_QUEUE_CAPACITY, 1024
  MessageCommands,  \* commands of one binary message: 2 for each frame of 64 KiB
  Diarizing         \* whether the session tells speakers apart

\* 64 KiB and a carried partial frame are at most 205 frames of 10 ms, and a
\* frame is at most two commands.  The loop adds one Poll before a message.
ASSUME ChannelAssumption ==
  /\ CommandCap \in Nat \ {0}
  /\ OutcomeCap \in Nat \ {0}
  /\ MessageCommands \in Nat \ {0}
  /\ MessageCommands + 1 <= OutcomeCap
  /\ Diarizing \in BOOLEAN

VARIABLES
  ws,          \* where the WebSocket task is; it waits for room in Sending, for
               \* the gate in a speaker stage
  left,        \* commands the current message still brings
  commands,    \* the command channel
  outcomes,    \* the outcome channel
  watchdogs,   \* native_command_watchdogs
  polls,       \* native_poll_outstanding
  worker,      \* where the decode thread is
  busy,        \* the command it took last
  canceled,    \* AttachToken.cancel_requested
  abandoned,   \* AttachToken.abandoned
  sent,        \* history: commands sent since the outcomes were last drained
  resumed      \* history: the session was parked and resumed

channel == <<commands, outcomes>>
token == <<canceled, abandoned>>
channelVars == <<ws, left, commands, outcomes, watchdogs, polls, worker, busy, canceled, abandoned,
                 sent, resumed>>

Kinds == {"Audio", "Poll", "Finish"}
Sending == {"poll", "audio", "stop"}

\* The speaker stages, and where each goes on: the search for a change of
\* speaker after a frame, and the label of a transcript among the outcomes.
AfterStage == [detect |-> "message", label |-> "drain", relabel |-> "await", lastLabel |-> "closed"]
SpeakerStages == {"detect", "label", "relabel", "lastLabel"}
MayStage(stage) == IF Diarizing THEN {stage} ELSE {}

\* A session that is warm: audio is admitted, nothing is in flight.
ChannelInit ==
  /\ ws = "drain" /\ left = 0
  /\ commands = <<>> /\ outcomes = <<>> /\ watchdogs = <<>> /\ polls = 0
  /\ worker = "recv" /\ busy = "Poll"
  /\ canceled = FALSE /\ abandoned = FALSE
  /\ sent = 0 /\ resumed = FALSE

-----------------------------------------------------------------------------
(* The WebSocket task                                                       *)

RestOf(q) == IF q = <<>> THEN <<>> ELSE Tail(q)

\* retire_native_streaming: begin_shutdown cancels and drops both channels.
Retire == ws' = "closed" /\ canceled' = TRUE

\* apply_native_streaming_outcome pops the oldest watchdog entry, whatever the
\* outcome is about, and ends the session on an error.
ApplyOutcome(next) ==
  /\ outcomes # <<>>
  /\ outcomes' = Tail(outcomes)
  /\ watchdogs' = RestOf(watchdogs)
  /\ polls' = IF Head(outcomes) = "Poll" /\ polls > 0 THEN polls - 1 ELSE polls
  /\ IF Head(outcomes) = "Error" THEN Retire ELSE ws' = next /\ UNCHANGED canceled
  /\ UNCHANGED <<left, commands, worker, busy, abandoned, sent, resumed>>

\* Faulty variant: one outcome for each turn of the loop.
DrainOnlyOne == ws = "drain" /\ ApplyOutcome("select")

\* drain_native_streaming_outcomes, one turn; forward_native_streaming_events
\* labels the speaker of a transcript.
Drain == ws = "drain" /\ \E next \in {"drain"} \cup MayStage("label") : ApplyOutcome(next)

\* fail_native_streaming_worker_stopped: the decode thread dropped its end.
WorkerStopped ==
  /\ \/ ws \in {"drain", "await"} /\ outcomes = <<>>
     \/ ws \in Sending
  /\ worker = "done"
  /\ Retire
  /\ watchdogs' = <<>> /\ polls' = 0
  /\ UNCHANGED <<left, commands, outcomes, worker, busy, abandoned, sent, resumed>>

\* Faulty variant: only a command that waits for its outcome looks at the watchdog.
FiresInAwait ==
  /\ ws = "await" /\ outcomes = <<>> /\ worker # "done"
  /\ abandoned' = TRUE
  /\ Retire
  /\ watchdogs' = RestOf(watchdogs)
  /\ UNCHANGED <<left, channel, polls, worker, busy, sent, resumed>>

\* enforce_native_streaming_watchdog and the timeout of native_streaming_command:
\* the oldest entry is too old, and the attach is abandoned.
WatchdogFires ==
  /\ \/ ws = "drain" /\ watchdogs # <<>>
     \/ ws = "await"
  /\ outcomes = <<>> /\ worker # "done"
  /\ abandoned' = TRUE
  /\ Retire
  /\ watchdogs' = RestOf(watchdogs)
  /\ UNCHANGED <<left, channel, polls, worker, busy, sent, resumed>>

\* Nothing to drain and no timeout: poll_native_streaming, at most one Poll in
\* flight, then wait for the socket or the tick.
Drained ==
  /\ ws = "drain" /\ outcomes = <<>> /\ worker # "done"
  /\ sent' = 0
  /\ \/ ws' = "select" /\ UNCHANGED polls
     \/ polls = 0 /\ ws' = "poll" /\ polls' = 1
  /\ UNCHANGED <<left, channel, watchdogs, worker, busy, token, resumed>>

\* The tick of native_poll_interval; what Drained did not poll, it does not either.
Tick ==
  /\ ws = "select"
  /\ ws' = "drain"
  /\ UNCHANGED <<left, channel, watchdogs, polls, worker, busy, token, sent, resumed>>

\* handle_native_streaming_binary
Message ==
  /\ ws = "select"
  /\ ws' = "message"
  /\ left' \in 0..MessageCommands
  /\ UNCHANGED <<channel, watchdogs, polls, worker, busy, token, sent, resumed>>

Frame ==
  /\ ws = "message"
  /\ IF left = 0
     THEN ws' = "drain" /\ UNCHANGED left
     ELSE ws' = "audio" /\ left' = left - 1
  /\ UNCHANGED <<channel, watchdogs, polls, worker, busy, token, sent, resumed>>

\* Faulty variant: a Poll is sent without its watchdog entry.
SendUnwatched(kind, next) ==
  /\ Len(commands) < CommandCap /\ worker # "done"
  /\ commands' = Append(commands, kind)
  /\ watchdogs' = IF kind = "Poll" THEN watchdogs ELSE Append(watchdogs, kind)
  /\ sent' = sent + 1
  /\ ws' = next
  /\ UNCHANGED <<left, outcomes, polls, worker, busy, token, resumed>>

\* send_native_streaming_command: the watchdog entry follows the send.
Send(kind, next) ==
  /\ Len(commands) < CommandCap /\ worker # "done"
  /\ commands' = Append(commands, kind)
  /\ watchdogs' = Append(watchdogs, kind)
  /\ sent' = sent + 1
  /\ ws' = next
  /\ UNCHANGED <<left, outcomes, polls, worker, busy, token, resumed>>

\* process_native_frame may look for a change of speaker after the audio, and
\* splits the utterance there.
SendPending ==
  \/ ws = "poll" /\ Send("Poll", "select")
  \/ ws = "audio" /\ \E next \in {"message"} \cup MayStage("detect") : Send("Audio", next)
  \/ ws = "stop" /\ Send("Finish", "await")

\* session.close: finish_native_streaming_session.
Close ==
  /\ ws = "select"
  /\ ws' = "stop"
  /\ UNCHANGED <<left, channel, watchdogs, polls, worker, busy, token, sent, resumed>>

\* native_streaming_command forwards older outcomes until the one of Finish,
\* after which join drops the command channel.
Await ==
  /\ ws = "await"
  /\ outcomes # <<>>
  /\ \E next \in IF Head(outcomes) = "Finish" THEN {"closed"} \cup MayStage("lastLabel")
                                             ELSE {"await"} \cup MayStage("relabel") :
       ApplyOutcome(next)

\* detect_native_speaker_change_off_loop, assign_speaker_off_loop: the task
\* awaits a blocking thread that enters the gate.  A call that hangs holds the
\* gate, or hangs because another session's call holds it; then nothing ends
\* the wait, for only the task itself could cancel it.
Stage ==
  /\ ws \in SpeakerStages /\ worker # "wedged"
  /\ ws' = AfterStage[ws]
  /\ UNCHANGED <<left, channel, watchdogs, polls, worker, busy, token, sent, resumed>>

\* session.cancel, or a close with an incomplete frame.
ClientCancel ==
  /\ ws = "select"
  /\ Retire
  /\ UNCHANGED <<left, channel, watchdogs, polls, worker, busy, abandoned, sent, resumed>>

\* The transport closes, or a frame fails in the VAD: park_for_reconnect keeps
\* the worker but not the watchdog entries, which belong to the task.
Disconnect ==
  /\ ws \in {"select", "message"}
  /\ ws' = "held"
  /\ left' = 0 /\ watchdogs' = <<>> /\ polls' = 0
  /\ UNCHANGED <<channel, worker, busy, token, sent, resumed>>

\* resume_held_realtime, by a new task.
Resume ==
  /\ ws = "held"
  /\ ws' = "drain"
  /\ resumed' = TRUE
  /\ UNCHANGED <<left, channel, watchdogs, polls, worker, busy, token, sent>>

\* HeldRealtimeSession::retire
Expire ==
  /\ ws = "held"
  /\ Retire
  /\ UNCHANGED <<left, channel, watchdogs, polls, worker, busy, abandoned, sent, resumed>>

-----------------------------------------------------------------------------
(* run_native_streaming_session_on_worker                                   *)

\* The next command; an abandoned or canceled attach takes no more.
Take ==
  /\ worker = "recv" /\ commands # <<>>
  /\ commands' = Tail(commands)
  /\ IF abandoned \/ canceled
     THEN worker' = "done" /\ UNCHANGED busy
     ELSE worker' = "call" /\ busy' = Head(commands)
  /\ UNCHANGED <<ws, left, outcomes, watchdogs, polls, token, sent, resumed>>

\* The channel is closed and empty.
HangUp ==
  /\ worker = "recv" /\ commands = <<>> /\ ws = "closed"
  /\ worker' = "done"
  /\ UNCHANGED <<ws, left, channel, watchdogs, polls, busy, token, sent, resumed>>

\* The native call returns; a canceled attach does not answer.
Return ==
  /\ worker = "call"
  /\ worker' = IF canceled /\ busy # "Finish" THEN "done" ELSE "send"
  /\ UNCHANGED <<ws, left, channel, watchdogs, polls, busy, token, sent, resumed>>

\* blocking_send; a failed send and a terminal command end the attach.
Answer ==
  /\ worker = "send"
  /\ \/ /\ ws = "closed"
        /\ worker' = "done" /\ UNCHANGED outcomes
     \/ /\ ws # "closed" /\ Len(outcomes) < OutcomeCap
        /\ \E o \in {busy, "Error"} : outcomes' = Append(outcomes, o)
        /\ worker' = IF busy = "Finish" THEN "done" ELSE "recv"
  /\ UNCHANGED <<ws, left, commands, watchdogs, polls, busy, token, sent, resumed>>

\* A decode that does not return, and one that returns after all.
Wedge ==
  /\ worker = "call"
  /\ worker' = "wedged"
  /\ UNCHANGED <<ws, left, channel, watchdogs, polls, busy, token, sent, resumed>>

Unwedge ==
  /\ worker = "wedged"
  /\ worker' = "call"
  /\ UNCHANGED <<ws, left, channel, watchdogs, polls, busy, token, sent, resumed>>

\* A decode that panics: the thread unwinds and drops both channel ends.
Panic ==
  /\ worker = "call"
  /\ worker' = "done"
  /\ UNCHANGED <<ws, left, channel, watchdogs, polls, busy, token, sent, resumed>>

-----------------------------------------------------------------------------
TaskStep ==
  \/ Drain \/ WorkerStopped \/ Drained \/ Tick \/ Frame \/ SendPending \/ Await
WorkerStep == Take \/ HangUp \/ Return \/ Answer
ClientStep == Message \/ Close \/ ClientCancel \/ Disconnect \/ Resume \/ Expire

ChannelNext == TaskStep \/ Stage \/ WatchdogFires \/ WorkerStep \/ ClientStep \/ Wedge \/ Unwedge \/ Panic

ChannelSpec == ChannelInit /\ [][ChannelNext]_channelVars

\* The loop ticks and a call that is not wedged returns.  The oldest entry of
\* a wedged call stays the oldest and gets old, so the loop, which looks at it
\* again and again, finds it.  Nothing says that a speaker stage gets the gate.
FairChannelSpec ==
  /\ ChannelSpec
  /\ WF_channelVars(TaskStep) /\ WF_channelVars(WorkerStep)
  /\ SF_channelVars(WatchdogFires /\ worker = "wedged")

-----------------------------------------------------------------------------
(* Properties                                                               *)

\* Every variable stays in its type.
ChannelTypeOK ==
  /\ ws \in {"drain", "select", "message", "await", "held", "closed"} \cup Sending \cup SpeakerStages
  /\ left \in 0..MessageCommands
  /\ commands \in Seq(Kinds) /\ watchdogs \in Seq(Kinds)
  /\ outcomes \in Seq(Kinds \cup {"Error"})
  /\ polls \in 0..1
  /\ worker \in {"recv", "call", "wedged", "send", "done"}
  /\ busy \in Kinds
  /\ canceled \in BOOLEAN /\ abandoned \in BOOLEAN
  /\ sent \in Nat
  /\ resumed \in BOOLEAN

Blocked == ws \in Sending /\ Len(commands) = CommandCap
AtGate == ws \in SpeakerStages
Connected == ws \notin {"held", "closed"}

\* The commands that have no outcome yet: the one in hand, then the channel.
Held == IF worker \in {"call", "wedged", "send"} THEN <<busy>> ELSE <<>>
Unanswered == Held \o commands

\* The task waits for room for a command while the decode thread waits for
\* room for an outcome: neither channel is read and the session never moves
\* again.  What one turn of the loop can send fits the outcome channel.
NoMutualWait == ~(Blocked /\ worker = "send" /\ Len(outcomes) = OutcomeCap)

\* Inductive strengthening of NoMutualWait: what is anywhere in the two channels
\* was there at the last drain, when the outcomes were empty, or was sent since.
ChannelBound ==
  /\ Len(commands) <= CommandCap /\ Len(outcomes) <= OutcomeCap
  /\ Len(Unanswered) + Len(outcomes) <= CommandCap + 1 + sent
  /\ ws = "poll" => sent = 0
  /\ ws \in {"select", "stop"} => sent <= 1
  /\ ws \in {"message", "detect"} => sent + left <= MessageCommands + 1
  /\ ws = "audio" => sent + left <= MessageCommands

\* Every command in flight has its own watchdog entry, in the order in which
\* the outcomes will come, so a timeout names the command that hangs.  A resumed
\* session has lost the entries of what was in flight when it was parked.
InFlightIsWatched ==
  Connected /\ worker # "done" /\ ~resumed =>
    /\ Len(watchdogs) = Len(outcomes) + Len(Unanswered)
    /\ \A i \in 1..Len(Unanswered) : watchdogs[Len(outcomes) + i] = Unanswered[i]

\* A wedged decode is abandoned by the watchdog, unless the session was parked
\* or its task is stuck itself: it waits for room for a command, or, if the
\* session diarizes, for the gate that the hung call has.
WatchedWedgeReaped ==
  (worker = "wedged" /\ ~resumed) ~>
    (worker # "wedged" \/ abandoned \/ ~Connected \/ Blocked \/ (Diarizing /\ AtGate))

\* "a truly wedged thread is still reaped in bounded time": a wedged decode
\* of a session that stays connected is abandoned.
WedgeReaped ==
  (worker = "wedged" /\ ~resumed) ~> (worker # "wedged" \/ abandoned \/ ~Connected)
=============================================================================
