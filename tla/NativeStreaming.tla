--------------------------- MODULE NativeStreaming ---------------------------
(***************************************************************************)
(* Native streaming sessions and the decode threads they share             *)
(* (openasr-server: realtime/ws_session.rs, realtime/native_worker.rs,     *)
(* realtime_execution.rs and the held sessions of                          *)
(* remote_runtime_policy.rs), over the permits of ModelAdmission.          *)
(*                                                                         *)
(* A session acquires a permit, is built under the process-wide execution  *)
(* gate and is attached to the worker registered for its model and slot    *)
(* index.  The worker's thread drives one attach at a time and enters the  *)
(* gate for each native call.  A call may hang; the session's watchdog     *)
(* then evicts the worker from the registry and abandons the attach that   *)
(* occupies its thread, which takes the permit back.                       *)
(*                                                                         *)
(* A worker is named after the session that spawned it.  One command is in *)
(* flight at a time; the channels are NativeChannel's.                     *)
(***************************************************************************)
EXTENDS ModelAdmission, Sequences

CONSTANTS
  Remote,         \* sessions whose client may lose its connection
  MaxAbandoned    \* MAX_ABANDONED_STUCK_WORKERS_BEFORE_EXIT

ASSUME StreamingAssumption == Remote \subseteq Sessions /\ MaxAbandoned \in Nat \ {0}

VARIABLES
  ws,         \* phase of each session's WebSocket task
  command,    \* the command without outcome, or None
  outcome,    \* the outcome not yet applied, or None
  gate,       \* the session on whose behalf the execution gate is held
  registry,   \* SHARED_NATIVE_STREAMING_WORKERS
  key,        \* the registry key of each attach
  worker,     \* the worker of each attach
  attached,   \* attaches a worker counts in active_or_attaching
  queue,      \* attaches waiting in each worker's channel
  thread,     \* phase of each worker's thread
  drives,     \* the attach it drives
  occupant,   \* NativeStreamingWorkerState.current_token
  ended,      \* attaches whose channels the worker has dropped
  canceled,   \* AttachToken.cancel_requested
  abandoned,  \* AttachToken.abandoned
  guards,     \* attaches that hold their idle-unload guard
  overtaken,  \* history: attaches abandoned before their native call returned
  count,      \* ABANDONED_STUCK_WORKER_COUNT
  down        \* the process has exited with code 87

channelVars == <<command, outcome>>
tokenVars == <<canceled, abandoned, guards>>
registryVars == <<registry, key, worker>>
threadVars == <<attached, queue, thread, drives, occupant, ended>>
processVars == <<overtaken, count, down>>
streamVars == <<ws, channelVars, gate, registryVars, threadVars, tokenVars, processVars>>
allVars == <<vars, streamVars>>

Keys == Models \X (0..(Limit - 1))
NoKey == <<None, 0>>

StreamInit ==
  /\ Init
  /\ ws = [s \in Sessions |-> "new"]
  /\ command = [s \in Sessions |-> None] /\ outcome = [s \in Sessions |-> None]
  /\ gate = None
  /\ registry = [k \in Keys |-> None]
  /\ key = [s \in Sessions |-> NoKey] /\ worker = [s \in Sessions |-> None]
  /\ attached = {} /\ ended = {}
  /\ queue = [w \in Sessions |-> <<>>]
  /\ thread = [w \in Sessions |-> "recv"]
  /\ drives = [w \in Sessions |-> None] /\ occupant = [w \in Sessions |-> None]
  /\ canceled = {} /\ abandoned = {} /\ guards = {}
  /\ overtaken = {} /\ count = 0 /\ down = FALSE

Go(s, phase) == ws' = [ws EXCEPT ![s] = phase]
HeldSessions == {s \in Sessions : ws[s] = "held"}
Live == {"warming", "streaming", "stopping"}

-----------------------------------------------------------------------------
(* The start of a session                                                   *)

\* start_session is refused while another session is parked for reconnect;
\* then acquire_native_execution_for_snapshot.
StartSession(s) ==
  /\ ws[s] = "new"
  /\ IF HeldSessions = {}
     THEN TryAcquire(s) /\ Go(s, IF state'[s] = "admitted" THEN "preparing" ELSE "closed")
     ELSE Go(s, "closed") /\ UNCHANGED vars
  /\ UNCHANGED <<channelVars, gate, registryVars, threadVars, tokenVars, processVars>>

\* enter_async.  The task reads nothing from its socket while it waits, so its
\* control is never canceled.
Prepare(s) ==
  /\ ws[s] = "preparing" /\ gate = None
  /\ gate' = s
  /\ Go(s, "building")
  /\ UNCHANGED <<vars, channelVars, registryVars, threadVars, tokenVars, processVars>>

\* Faulty variant: the error is reported under the gate.
BuildFailsHolding(s) ==
  /\ ws[s] = "building"
  /\ Drop(s)
  /\ Go(s, "closed")
  /\ UNCHANGED <<channelVars, gate, registryVars, threadVars, tokenVars, processVars>>

\* start_streaming_session fails: gate and permit are dropped.
BuildFails(s) ==
  /\ ws[s] = "building"
  /\ gate' = None
  /\ Drop(s)
  /\ Go(s, "closed")
  /\ UNCHANGED <<channelVars, registryVars, threadVars, tokenVars, processVars>>

\* drop(take_permit()) of a token: the slot is given back once.
Reclaim(t) == IF t # None /\ state[t] = "admitted" THEN Drop(t) ELSE UNCHANGED vars

\* attach_admitted.  native_streaming_worker_for_key, under the registry lock,
\* reuses the registered worker unless the attach on its thread was canceled;
\* then that attach is abandoned and a new worker takes the key.  The Attach
\* message and the Warm command find room in their queues.  The gate is dropped
\* just before the lookup, with no wait between: one step, since nobody else
\* attaches to this model and slot while the permit is held.
Attach(s) ==
  LET k == <<model[s], permit[s].slot_index>>
      w == registry[k]
      preempted == IF w # None /\ occupant[w] \in canceled THEN occupant[w] ELSE None
      own == IF w = None \/ preempted # None THEN s ELSE w
  IN
  /\ ws[s] = "building"
  /\ gate' = None
  /\ key' = [key EXCEPT ![s] = k]
  /\ worker' = [worker EXCEPT ![s] = own]
  /\ registry' = [registry EXCEPT ![k] = own]
  /\ occupant' = IF preempted = None THEN occupant ELSE [occupant EXCEPT ![w] = None]
  /\ abandoned' = abandoned \cup ({preempted} \ {None})
  /\ guards' = (guards \ {preempted}) \cup {s}
  /\ Reclaim(preempted)
  /\ attached' = attached \cup {s}
  /\ queue' = [queue EXCEPT ![own] = Append(@, s)]
  /\ command' = [command EXCEPT ![s] = "Warm"]
  /\ Go(s, "warming")
  /\ UNCHANGED <<outcome, thread, drives, ended, canceled, processVars>>

-----------------------------------------------------------------------------
(* The running session                                                      *)

Send(s, kind) ==
  /\ ws[s] = "streaming" /\ command[s] = None /\ outcome[s] = None /\ s \notin ended
  /\ command' = [command EXCEPT ![s] = kind]
  /\ UNCHANGED <<vars, outcome, gate, registryVars, threadVars, tokenVars, processVars>>

\* A frame of audio or a poll, as often as the client and the clock like.
SendWork(s) == Send(s, "Work") /\ UNCHANGED ws

SendFinish(s) == Send(s, "Finish") /\ Go(s, "stopping")

\* retire_native_streaming, begin_shutdown: the attach is canceled, its guard
\* released and the session's channel ends are dropped.
BeginShutdown(s) ==
  /\ canceled' = canceled \cup {s}
  /\ guards' = guards \ {s}
  /\ outcome' = [outcome EXCEPT ![s] = None]
  /\ Go(s, "closed")

\* apply_native_streaming_outcome.  After Finish, join drops the channel and
\* releases the guard; an error ends the session.
ApplyOutcome(s) ==
  /\ ws[s] \in Live /\ outcome[s] # None
  /\ \/ outcome[s] = "Error" /\ BeginShutdown(s)
     \/ /\ outcome[s] # "Error"
        /\ outcome' = [outcome EXCEPT ![s] = None]
        /\ IF outcome[s] = "Finish"
           THEN Go(s, "closed") /\ guards' = guards \ {s}
           ELSE Go(s, "streaming") /\ UNCHANGED guards
        /\ UNCHANGED canceled
  /\ UNCHANGED <<vars, command, gate, registryVars, threadVars, abandoned, processVars>>

\* fail_native_streaming_worker_stopped
WorkerStopped(s) ==
  /\ ws[s] \in Live /\ outcome[s] = None /\ s \in ended
  /\ BeginShutdown(s)
  /\ UNCHANGED <<vars, command, gate, registryVars, threadVars, abandoned, processVars>>

ClientCancel(s) ==
  /\ ws[s] = "streaming"
  /\ BeginShutdown(s)
  /\ UNCHANGED <<vars, command, gate, registryVars, threadVars, abandoned, processVars>>

\* Faulty variant: a parked session gives its guard back.
ParkReleases(s) ==
  /\ s \in Remote /\ ws[s] = "streaming"
  /\ Go(s, "held")
  /\ guards' = guards \ {s}
  /\ UNCHANGED <<vars, channelVars, gate, registryVars, threadVars, canceled, abandoned, processVars>>

\* park_for_reconnect, resume_held_realtime and expire_held_realtime.
Park(s) ==
  /\ s \in Remote /\ ws[s] = "streaming"
  /\ Go(s, "held")
  /\ UNCHANGED <<vars, channelVars, gate, registryVars, threadVars, tokenVars, processVars>>

Resume(s) ==
  /\ ws[s] = "held"
  /\ Go(s, "streaming")
  /\ UNCHANGED <<vars, channelVars, gate, registryVars, threadVars, tokenVars, processVars>>

Expire(s) ==
  /\ ws[s] = "held"
  /\ BeginShutdown(s)
  /\ UNCHANGED <<vars, command, gate, registryVars, threadVars, abandoned, processVars>>

-----------------------------------------------------------------------------
(* The watchdog                                                             *)

\* The outcome was polled and is not there, and the deadline has passed.
Elapse(s) ==
  /\ ws[s] \in Live /\ command[s] # None /\ outcome[s] = None /\ s \notin ended
  /\ Go(s, "expired")
  /\ UNCHANGED <<vars, channelVars, gate, registryVars, threadVars, tokenVars, processVars>>

\* Faulty variant: the entry is removed whoever owns it by now.
EvictAny(s) ==
  /\ ws[s] = "expired"
  /\ registry' = [registry EXCEPT ![key[s]] = None]
  /\ Go(s, IF registry[key[s]] # None THEN "evicted" ELSE "missed")
  /\ UNCHANGED <<vars, channelVars, gate, key, worker, threadVars, tokenVars, processVars>>

\* abandon_stuck_native_streaming_worker, under the registry lock: only the
\* entry that is this session's worker is removed.
Evict(s) ==
  /\ ws[s] = "expired"
  /\ IF registry[key[s]] = worker[s]
     THEN registry' = [registry EXCEPT ![key[s]] = None] /\ Go(s, "evicted")
     ELSE Go(s, "missed") /\ UNCHANGED registry
  /\ UNCHANGED <<vars, channelVars, gate, key, worker, threadVars, tokenVars, processVars>>

\* A native call is on the thread of w and has not returned.
Calling(w) == thread[w] \in {"call", "wedged"}

\* Faulty variant: the gate is freed with the guard and the permit.
GateAfterAbandon(t) == IF gate = t THEN None ELSE gate

\* The gate stays with the native call that holds it.
GateAfter(t) == gate

\* abandon_current_occupant, then the count: an eviction counts, and the last
\* one allowed ends the process.  The session itself fails.
AbandonOccupant(s) ==
  LET w == worker[s]
      t == occupant[w]
  IN
  /\ ws[s] \in {"evicted", "missed"}
  /\ occupant' = [occupant EXCEPT ![w] = None]
  /\ abandoned' = abandoned \cup ({t} \ {None})
  /\ canceled' = canceled \cup {s}
  /\ guards' = guards \ {s, t}
  /\ Reclaim(t)
  /\ gate' = GateAfter(t)
  /\ overtaken' = IF t # None /\ Calling(w) THEN overtaken \cup {t} ELSE overtaken
  /\ count' = IF ws[s] = "evicted" THEN count + 1 ELSE count
  /\ down' = (count' >= MaxAbandoned)
  /\ outcome' = [outcome EXCEPT ![s] = None]
  /\ Go(s, "closed")
  /\ UNCHANGED <<command, registryVars, attached, queue, thread, drives, ended>>

\* prune_idle_native_streaming_workers
Prune(k) ==
  /\ registry[k] # None
  /\ \A s \in attached : worker[s] # registry[k]
  /\ registry' = [registry EXCEPT ![k] = None]
  /\ UNCHANGED <<vars, ws, channelVars, gate, key, worker, threadVars, tokenVars, processVars>>

-----------------------------------------------------------------------------
(* The decode thread                                                        *)

Turn(w, phase) == thread' = [thread EXCEPT ![w] = phase]

\* blocking_recv, begin_occupant
Receive(w) ==
  /\ thread[w] = "recv" /\ queue[w] # <<>>
  /\ drives' = [drives EXCEPT ![w] = Head(queue[w])]
  /\ occupant' = [occupant EXCEPT ![w] = Head(queue[w])]
  /\ queue' = [queue EXCEPT ![w] = Tail(@)]
  /\ Turn(w, "idle")
  /\ UNCHANGED <<vars, ws, channelVars, gate, registryVars, attached, ended, tokenVars, processVars>>

\* run_native_streaming_session_on_worker returns: its channel ends are dropped.
Leave(w) == ended' = ended \cup {drives[w]} /\ Turn(w, "clear")

\* Faulty variant: the flags are not read again at the gate.
QuitUnasked(w) ==
  /\ thread[w] = "idle" /\ command[drives[w]] = None /\ ws[drives[w]] = "closed"
  /\ Leave(w)
  /\ UNCHANGED <<vars, ws, channelVars, gate, registryVars, attached, queue, drives, occupant,
                 tokenVars, processVars>>

\* The channel is closed and empty, or the next command belongs to an attach
\* that was canceled or abandoned.  RealtimeExecutionGate::enter reads the same
\* flags every 100 ms while another call holds the gate.
Quit(w) ==
  /\ thread[w] = "idle"
  /\ IF command[drives[w]] = None
     THEN ws[drives[w]] = "closed"
     ELSE drives[w] \in canceled \cup abandoned
  /\ Leave(w)
  /\ UNCHANGED <<vars, ws, channelVars, gate, registryVars, attached, queue, drives, occupant,
                 tokenVars, processVars>>

\* The next command gets the gate.
EnterGate(w) ==
  /\ thread[w] = "idle" /\ command[drives[w]] # None
  /\ drives[w] \notin canceled \cup abandoned
  /\ gate = None
  /\ gate' = drives[w]
  /\ Turn(w, "call")
  /\ UNCHANGED <<vars, ws, channelVars, registryVars, attached, queue, drives, occupant, ended,
                 tokenVars, processVars>>

\* Faulty variant: a warm-up marks the model whenever it returns.
MayMarkLate(s) == command[s] = "Warm"

\* The check of `abandoned` after session.warm_up().
MayMark(s) == command[s] = "Warm" /\ s \notin abandoned

\* The native call returns, with a result or an error.  A warm-up without
\* error goes on to mark the model resident, unless its attach is abandoned.
Returns(w) ==
  /\ \E phase \in {IF MayMark(drives[w]) THEN "mark" ELSE "returned", "error"} : Turn(w, phase)
  /\ UNCHANGED <<vars, ws, channelVars, gate, registryVars, attached, queue, drives, occupant, ended,
                 tokenVars, processVars>>

CallReturns(w) == thread[w] = "call" /\ Returns(w)

\* mark_native_model_warm, whose residency is IdleUnload's; then the gate is
\* released and the outcome is sent.  The attach ends with a
\* terminal command, when it was canceled, or when the receiver is gone.
Reply(w) ==
  LET s == drives[w]
      gone == ws[s] = "closed"
  IN
  /\ thread[w] \in {"mark", "returned", "error"}
  /\ gate' = None
  /\ outcome' = IF gone THEN outcome
                 ELSE [outcome EXCEPT ![s] = IF thread[w] = "error" THEN "Error" ELSE command[s]]
  /\ command' = [command EXCEPT ![s] = None]
  /\ IF gone \/ command[s] = "Finish" THEN Leave(w) ELSE Turn(w, "idle") /\ UNCHANGED ended
  /\ UNCHANGED <<vars, ws, registryVars, attached, queue, drives, occupant, tokenVars,
                 processVars>>

\* Faulty variant: the permit goes back before the attach is retired.
ClearFrees(w) ==
  /\ thread[w] = "clear"
  /\ occupant' = [occupant EXCEPT ![w] = None]
  /\ Reclaim(drives[w])
  /\ Turn(w, "retire")
  /\ UNCHANGED <<ws, channelVars, gate, registryVars, attached, queue, drives, ended, tokenVars,
                 processVars>>

\* clear_occupant
Clear(w) ==
  /\ thread[w] = "clear"
  /\ occupant' = [occupant EXCEPT ![w] = None]
  /\ Turn(w, "retire")
  /\ UNCHANGED <<vars, ws, channelVars, gate, registryVars, attached, queue, drives, ended, tokenVars,
                 processVars>>

\* state.release, activity.release, drop(take_permit), in this order.
RetireAttach(w) ==
  /\ thread[w] = "retire"
  /\ attached' = attached \ {drives[w]}
  /\ guards' = guards \ {drives[w]}
  /\ Reclaim(drives[w])
  /\ drives' = [drives EXCEPT ![w] = None]
  /\ Turn(w, "recv")
  /\ UNCHANGED <<ws, channelVars, gate, registryVars, queue, occupant, ended, canceled, abandoned,
                 processVars>>

\* A native call that does not return, and one that returns after all.
Wedge(w) ==
  /\ thread[w] = "call"
  /\ Turn(w, "wedged")
  /\ UNCHANGED <<vars, ws, channelVars, gate, registryVars, attached, queue, drives, occupant, ended,
                 tokenVars, processVars>>

Unwedge(w) == thread[w] = "wedged" /\ Returns(w)

-----------------------------------------------------------------------------
(* The composition                                                          *)

SetupStep(s) == Prepare(s) \/ BuildFails(s) \/ Attach(s)
OutcomeStep(s) == ApplyOutcome(s) \/ WorkerStopped(s)
WatchdogStep(s) == Evict(s) \/ AbandonOccupant(s)
TaskStep(s) == SetupStep(s) \/ OutcomeStep(s) \/ WatchdogStep(s)

ClientStep(s) ==
  StartSession(s) \/ SendWork(s) \/ SendFinish(s) \/ ClientCancel(s) \/ Park(s) \/ Resume(s)

ThreadStep(w) ==
  \/ Receive(w) \/ Quit(w) \/ EnterGate(w) \/ CallReturns(w) \/ Reply(w)
  \/ Clear(w) \/ RetireAttach(w)

\* process::exit ends every task and every thread.
StreamNext ==
  /\ ~down
  /\ \/ \E s \in Sessions :
          \/ TaskStep(s) \/ ClientStep(s) \/ ThreadStep(s)
          \/ Expire(s) \/ Elapse(s) \/ Wedge(s) \/ Unwedge(s)
     \/ \E k \in Keys : Prune(k)

StreamSpec == StreamInit /\ [][StreamNext]_allVars

\* The runtime polls its tasks and the system runs its threads: what a task or
\* a thread can always do it does.  Nothing is assumed of clients, of the
\* watchdog's clock, or of a native call that hangs.
StreamFairSpec ==
  /\ StreamSpec
  /\ \A s \in Sessions :
       /\ WF_allVars(~down /\ TaskStep(s))
       /\ WF_allVars(~down /\ ThreadStep(s))

-----------------------------------------------------------------------------
(* Properties                                                               *)

Phases ==
  {"new", "preparing", "building", "warming", "streaming", "stopping",
   "held", "expired", "evicted", "missed", "closed"}
ThreadPhases ==
  {"recv", "idle", "call", "wedged", "mark", "returned", "error", "clear", "retire"}

\* Every variable stays in its type.
StreamTypeOK ==
  /\ ws \in [Sessions -> Phases]
  /\ thread \in [Sessions -> ThreadPhases]
  /\ gate \in Sessions \cup {None}
  /\ registry \in [Keys -> Sessions \cup {None}]
  /\ key \in [Sessions -> Keys \cup {NoKey}]
  /\ worker \in [Sessions -> Sessions \cup {None}]
  /\ drives \in [Sessions -> Sessions \cup {None}]
  /\ occupant \in [Sessions -> Sessions \cup {None}]
  /\ queue \in [Sessions -> Seq(Sessions)]
  /\ attached \subseteq Sessions /\ ended \subseteq Sessions

\* A session is never queued behind another one: the worker it is attached to
\* has no other attach, whatever was evicted, abandoned, canceled or pruned.
\* This rests on the slot index in the key, and on the thread that clears its
\* occupant before it gives the permit back.
WorkerPerAttach == \A s, t \in attached : worker[s] = worker[t] => s = t

InNativeCode == {w \in Sessions : Calling(w) \/ thread[w] \in {"mark", "returned", "error"}}
Building == {s \in Sessions : ws[s] = "building"}

\* Native code runs for one session at a time, be it built or decoding, and a
\* decode runs on a permit until the watchdog gives it up: a client that
\* leaves does not free the slot under a running call.
CallsAreSerialAndAdmitted ==
  /\ \A v, w \in InNativeCode : v = w
  /\ \A s, t \in Building : s = t
  /\ InNativeCode = {} \/ Building = {}
  /\ \A w \in InNativeCode : drives[w] \notin abandoned => state[drives[w]] = "admitted"

\* A warm-up that was given up while it hung never marks its model resident
\* when it returns.
LateWarmUpIsInert == \A w \in Sessions : thread[w] = "mark" => drives[w] \notin overtaken

\* A session with a client, connected or expected back, keeps the runtime from
\* being unloaded: its guard is held until its attach ends or is given up.
LiveSessionPinsRuntime ==
  \A s \in Sessions :
    ws[s] \in Live \cup {"held"} /\ s \notin abandoned \cup ended => s \in guards

\* A watchdog harms no other session.  A registry entry disappears only
\* because its own session's watchdog fired or because nobody is attached.  An
\* attach is abandoned by its own watchdog, or by one that elapsed just before
\* its outcome came and finds the worker already driving its successor.
WatchdogHitsOwnWorker ==
  [][/\ \A k \in Keys : registry[k] # None /\ registry'[k] # registry[k] =>
          \/ \E s \in Sessions : ws[s] = "expired" /\ worker[s] = registry[k]
          \/ \A s \in attached : worker[s] # registry[k]
     /\ \A t \in abandoned' \ abandoned : \E s \in Sessions :
          ws[s] \in {"evicted", "missed"} /\ worker[s] = worker[t] /\ (s = t \/ s \in ended)]_allVars

GateIsStuck == \E w \in Sessions : thread[w] = "wedged" /\ gate = drives[w]

\* The other sessions send decode commands for ever.
OthersKeepSending(s) == []<><<\E t \in Sessions \ {s} : SendWork(t)>>_allVars

\* A session that waits to be built gets its turn once the others fall silent,
\* unless a native call that never returns holds the gate: whatever way a
\* build, a decode or an attach ends, the gate comes free.  Nothing is promised
\* while others keep decoding: the gate has no queue, and a thread that has
\* just left it may always be the next one in.
StartGetsTheGate ==
  \A s \in Sessions :
    OthersKeepSending(s) \/ (ws[s] = "preparing" ~> (ws[s] # "preparing" \/ GateIsStuck \/ down))

\* The permit of a session that is over comes back, unless the session's own
\* native call never returns: a thread that waits for a gate somebody else
\* never leaves still sees that it was canceled.
ClosedGivesPermitBack ==
  \A s \in Sessions :
    ws[s] = "closed" ~>
      (state[s] # "admitted" \/ down \/ \E w \in Sessions : drives[w] = s /\ thread[w] = "wedged")

-----------------------------------------------------------------------------
(* The inductive invariant                                                  *)

Unborn == {"new", "preparing", "building"}

\* A session that is not attached yet has spawned no worker, and holds a permit
\* from its admission on.
UnbornInv ==
  \A s \in Sessions : ws[s] \in Unborn =>
    /\ s \notin attached
    /\ \A t \in Sessions : worker[t] # s
    /\ \A k \in Keys : registry[k] # s
    /\ ws[s] # "new" => state[s] = "admitted"

\* Every other session that went past its admission has a worker, and its
\* attach is counted until the thread has dropped its channels.
BornInv ==
  \A s \in Sessions : ws[s] \notin Unborn \cup {"closed"} =>
    worker[s] # None /\ key[s] \in Keys /\ s \in attached \cup ended

\* What a thread drives, records as its occupant or has in its queue is an
\* attach of this worker, and it has one of them at most.
Serves(w) ==
  /\ thread[w] = "recv" <=> drives[w] = None
  /\ drives[w] # None => drives[w] \in attached /\ worker[drives[w]] = w /\ queue[w] = <<>>
  /\ occupant[w] # None => occupant[w] = drives[w] /\ thread[w] # "retire"
  /\ queue[w] # <<>> => \E t \in attached : queue[w] = <<t>> /\ worker[t] = w
  /\ thread[w] \in {"clear", "retire"} => drives[w] \in ended
ServedInv == \A w \in Sessions : Serves(w)

\* A worker is registered under the key of its attaches only, the one that
\* spawned it included, and the attach it serves still holds the permit for
\* that slot.
RegisteredInv ==
  \A k \in Keys :
    /\ registry[k] # None => worker[registry[k]] = registry[k]
    /\ \A s \in Sessions : worker[s] # None /\ worker[s] = registry[k] =>
         /\ key[s] = k
         /\ s \in attached => state[s] = "admitted" /\ k = <<model[s], permit[s].slot_index>>

\* Between the eviction and the abandonment the worker is not registered.
EvictedInv ==
  \A s \in Sessions : ws[s] \in {"evicted", "missed"} => \A k \in Keys : registry[k] # worker[s]

\* The gate is held for whoever runs native code, and an attach keeps its
\* permit until it is abandoned.
GateInv ==
  /\ \A w \in InNativeCode : gate = drives[w]
  /\ \A s \in Building : gate = s
  /\ \A s \in attached \ abandoned : state[s] = "admitted"
  /\ overtaken \subseteq abandoned
  /\ attached \subseteq {s \in Sessions : worker[s] # None}

StreamInv ==
  /\ IInv /\ StreamTypeOK
  /\ UnbornInv /\ BornInv /\ ServedInv /\ RegisteredInv /\ EvictedInv /\ GateInv
  /\ WorkerPerAttach /\ LateWarmUpIsInert /\ LiveSessionPinsRuntime
=============================================================================
