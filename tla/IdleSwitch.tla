----------------------------- MODULE IdleSwitch -----------------------------
(***************************************************************************)
(* The model switch that waits for idle (openasr-server,                   *)
(* routes/models_api.rs): a set-default that meets a busy runtime leaves a *)
(* pending model in RemoteRuntimePolicy and is answered 202.  New tasks    *)
(* are refused while it is pending, files that are already in the FIFO go  *)
(* on.  Whoever ends a task then schedules an observer, which applies the  *)
(* pending switch once the slot is clear.                                  *)
(*                                                                         *)
(* Two tests of idleness differ here.  A rebind is blocked by permits and  *)
(* activity guards only; the slot an observer waits for is clear when the  *)
(* FIFO is empty and no session is parked, too.  A file that prepares its  *)
(* audio has no permit yet: the FIFO shows it, if it has an id.            *)
(*                                                                         *)
(* The activation itself is Activation's; here it takes the barrier and    *)
(* succeeds or fails.  The order of the FIFO and the promotion of its head *)
(* are FileAdmission's, a parked session that resumes NativeStreaming's.   *)
(***************************************************************************)
EXTENDS Integers, FiniteSets

CONSTANTS
  Models,      \* installed packs
  Tasks,       \* file requests, auxiliary computations and realtime sessions
  Registered,  \* requests with a transcription_id
  Auxiliary,   \* precise-timeline requests
  Streaming,   \* realtime sessions
  Setters,     \* POST /v1/models/default requests
  Casts,       \* bound: the sets of clients that may come in one behaviour
  Booted,      \* the model the server started with
  MaxPolls,    \* 500 polls of 20 ms in the code
  MayFail,     \* whether an activation can fail
  None

ASSUME SwitchAssumption ==
  /\ Registered \subseteq Tasks /\ Auxiliary \subseteq Tasks /\ Streaming \subseteq Tasks
  /\ Streaming \cap (Registered \cup Auxiliary) = {}
  /\ Casts \subseteq SUBSET (Tasks \cup Setters)
  /\ Booted \in Models
  /\ None \notin Models \cup Tasks \cup Setters
  /\ MaxPolls \in Nat
  /\ MayFail \in BOOLEAN

\* An observer is named by the task that scheduled it and by where: at the end
\* of the work, or when the request's cleanup or a parked session's expiry ran.
Observers == (Tasks \X {"end"}) \cup ((Registered \cup Streaming) \X {"cleanup"})

VARIABLES
  pending,    \* PendingIdleSwitch.pending
  serving,    \* the live model
  barrier,    \* the observer or setter that is activating
  tracked,    \* files in the FIFO, queued or running
  session,    \* phase of each task's handler
  worker,     \* phase of each task's worker; it has its permit while it computes
  observer,   \* phase of each observer
  polls,      \* its polls so far
  setter,     \* phase of each set-default request
  want,       \* the model an observer or a setter is about
  canceled,   \* the cancel route was called
  fresh,      \* history: observers whose switch was not withdrawn since they read it
  gaveUp      \* history: the pending switch outlasted an observer's polls, or its activation failed

taskVars == <<tracked, session, worker>>
observerVars == <<observer, polls, gaveUp>>
switchVars == <<pending, serving, barrier, want, canceled, fresh>>
vars == <<taskVars, observerVars, switchVars, setter>>

Init ==
  /\ pending = None
  /\ serving = Booted
  /\ barrier = None
  /\ tracked = {} /\ fresh = {}
  /\ \E cast \in Casts :
       /\ session = [t \in Tasks |-> IF t \in cast THEN "new" ELSE "done"]
       /\ setter = [s \in Setters |-> IF s \in cast THEN "new" ELSE "absent"]
  /\ worker = [t \in Tasks |-> "none"]
  /\ observer = [o \in Observers |-> "none"]
  /\ polls = [o \in Observers |-> 0]
  /\ want = [a \in Observers \cup Setters |-> None]
  /\ canceled = FALSE /\ gaveUp = FALSE

Occupied == {t \in Tasks : worker[t] = "computing"}
Held == {t \in Tasks : session[t] = "held"}

\* native_rebind_blocked: permits, or the activity guard of an activation.
RebindBlocked == Occupied # {} \/ barrier # None


\* idle_switch_slot_is_clear
SlotIsClear == ~RebindBlocked /\ tracked = {} /\ Held = {}

\* file_slot_occupied, for a request that is not itself the running file.
FileSlotOccupied(t) ==
  \/ Occupied # {} \/ Held # {}
  \/ \E f \in tracked \ {t} : session[f] # "queued"

Go(t, phase) == session' = [session EXCEPT ![t] = phase]
Work(t, phase) == worker' = [worker EXCEPT ![t] = phase]

\* schedule_apply_pending_idle_switch_when_native_idle is called.
Schedule(t, where) == observer' = [observer EXCEPT ![<<t, where>>] = "look"]

-----------------------------------------------------------------------------
(* Tasks                                                                    *)

\* admit_file_request with an id.  The cleanup guard exists already, so that a
\* refused request is observed as well.
Arrive(t) ==
  /\ t \in Registered /\ session[t] = "new"
  /\ IF pending = None
     THEN Go(t, "queued") /\ tracked' = tracked \cup {t} /\ UNCHANGED observer
     ELSE Go(t, "done") /\ Schedule(t, "cleanup") /\ UNCHANGED tracked
  /\ UNCHANGED <<worker, polls, gaveUp, switchVars, setter>>

\* wait_for_file_admission ends, whatever is pending by now.  The worker takes
\* its snapshot of the live model; it has no permit yet.
Admit(t) ==
  /\ session[t] = "queued" /\ ~FileSlotOccupied(t)
  /\ Go(t, "running") /\ Work(t, "preparing")
  /\ UNCHANGED <<tracked, observerVars, switchVars, setter>>

\* A request without an id, which never waits, and a realtime session.
Start(t) ==
  /\ t \notin Registered /\ session[t] = "new"
  /\ t \in Streaming \/ (pending = None /\ ~FileSlotOccupied(t))
  /\ Go(t, "running") /\ Work(t, "preparing")
  /\ UNCHANGED <<tracked, observerVars, switchVars, setter>>

\* acquire_native_execution_for_snapshot, under the read side of the barrier.
\* An auxiliary computation has no snapshot to compare.
Acquire(t) ==
  /\ worker[t] = "preparing" \/ (worker[t] = "outdated" /\ t \in Auxiliary)
  /\ barrier = None
  /\ pending = None \/ t \in tracked
  /\ t \in Streaming => Held = {} /\ \A f \in tracked : session[f] = "queued"
  /\ Work(t, "computing")
  /\ UNCHANGED <<tracked, session, observerVars, switchVars, setter>>

\* The audio cannot be prepared, or the permit is refused: the model has changed,
\* is changing or has no session left, or a switch is pending.  A realtime
\* session has nothing to park then.
Abort(t) ==
  /\ worker[t] \in {"preparing", "outdated"}
  /\ Work(t, "none")
  /\ IF t \in Streaming THEN Go(t, "returned") ELSE UNCHANGED session
  /\ UNCHANGED <<tracked, observerVars, switchVars, setter>>

\* The worker ends and its permit is dropped, for a streaming session at a time
\* of its own.  AuxiliaryExecutionCompletion::drop then schedules.
Release(t) ==
  /\ worker[t] = "computing"
  /\ Work(t, "none")
  /\ IF t \in Auxiliary THEN Schedule(t, "end") ELSE UNCHANGED observer
  /\ UNCHANGED <<tracked, session, polls, gaveUp, switchVars, setter>>

\* Faulty variant: a finished run is not recorded.
ReturnUnrecorded(t) ==
  /\ t \notin Streaming /\ session[t] = "running" /\ worker[t] = "none"
  /\ Go(t, IF t \in Registered THEN "returned" ELSE "done")
  /\ UNCHANGED <<tracked, worker, observerVars, switchVars, setter>>

\* The handler has the result or the error; record_file_operator_run schedules.
Return(t) ==
  /\ t \notin Streaming /\ session[t] = "running" /\ worker[t] = "none"
  /\ Go(t, IF t \in Registered THEN "returned" ELSE "done")
  /\ IF t \in Auxiliary THEN UNCHANGED observer ELSE Schedule(t, "end")
  /\ UNCHANGED <<tracked, worker, polls, gaveUp, switchVars, setter>>

\* ActiveTranscriptionCleanup::drop takes the file out of the FIFO.
Cleanup(t) == tracked' = tracked \ {t} /\ Schedule(t, "cleanup")

Finish(t) ==
  /\ t \in Registered /\ session[t] = "returned"
  /\ Go(t, "done")
  /\ Cleanup(t)
  /\ UNCHANGED <<worker, polls, gaveUp, switchVars, setter>>

\* The transcription is canceled while it waits: cancel_file, the cleanup, and
\* record_file_operator_run of transcribe_parsed_file.
CancelQueued(t) ==
  /\ session[t] = "queued"
  /\ Go(t, "done") /\ tracked' = tracked \ {t}
  /\ observer' = [o \in Observers |->
       IF o[1] = t /\ (o[2] = "cleanup" \/ t \notin Auxiliary) THEN "look" ELSE observer[o]]
  /\ UNCHANGED <<worker, polls, gaveUp, switchVars, setter>>

\* The client disconnects and the handler's future is dropped; its worker goes
\* on.  Without an id there is no cleanup guard, and only an auxiliary worker
\* schedules by itself.  That one has its permit before anything is awaited.
Disconnect(t) ==
  /\ t \notin Streaming /\ session[t] \in {"queued", "running"}
  /\ t \in Auxiliary => worker[t] \in {"none", "computing"}
  /\ \/ t \in Registered /\ Go(t, "done") /\ Cleanup(t)
     \/ /\ t \notin Registered
        /\ Go(t, IF t \in Auxiliary THEN "done" ELSE "dropped")
        /\ UNCHANGED <<tracked, observer>>
  /\ UNCHANGED <<worker, polls, gaveUp, switchVars, setter>>

\* A session ends.  Its worker may have the permit still.
Close(t) ==
  /\ t \in Streaming /\ session[t] \in {"running", "returned"}
  /\ worker[t] \in {"none", "computing"}
  /\ Go(t, "done") /\ Schedule(t, "end")
  /\ UNCHANGED <<tracked, worker, polls, gaveUp, switchVars, setter>>

\* park_for_reconnect; handle_socket schedules as at any other end.
Park(t) ==
  /\ t \in Streaming /\ session[t] = "running" /\ worker[t] \in {"none", "computing"}
  /\ Go(t, "held") /\ Schedule(t, "end")
  /\ UNCHANGED <<tracked, worker, polls, gaveUp, switchVars, setter>>

\* spawn_held_realtime_expiry: the grace period is over.
Expire(t) ==
  /\ session[t] = "held"
  /\ Go(t, "done") /\ Schedule(t, "cleanup")
  /\ UNCHANGED <<tracked, worker, polls, gaveUp, switchVars, setter>>

WorkerStep(t) == Acquire(t) \/ Abort(t) \/ Release(t)
HandlerStep(t) == Admit(t) \/ Return(t) \/ Finish(t) \/ Close(t) \/ Expire(t)
ClientStep(t) == Arrive(t) \/ Start(t) \/ CancelQueued(t) \/ Disconnect(t) \/ Park(t)

-----------------------------------------------------------------------------
(* Observers                                                                *)

Watch(o, phase) == observer' = [observer EXCEPT ![o] = phase]

\* The observer's call returns.
End(o) ==
  /\ Watch(o, "none")
  /\ polls' = [polls EXCEPT ![o] = 0]
  /\ want' = [want EXCEPT ![o] = None]

\* With a clear slot the switch is applied at once, else a task polls.
Look(o) ==
  /\ observer[o] = "look"
  /\ Watch(o, IF SlotIsClear THEN "apply" ELSE "poll")
  /\ UNCHANGED <<taskVars, polls, gaveUp, switchVars, setter>>

\* One turn of the polling loop, which ends without a pending switch.
Poll(o) ==
  /\ observer[o] = "poll" /\ polls[o] < MaxPolls
  /\ IF pending = None
     THEN End(o)
     ELSE /\ polls' = [polls EXCEPT ![o] = @ + 1]
          /\ Watch(o, IF SlotIsClear THEN "apply" ELSE "poll")
          /\ UNCHANGED want
  /\ UNCHANGED <<taskVars, gaveUp, pending, serving, barrier, canceled, fresh, setter>>

\* The loop ends by applying, idle or not.
LastPoll(o) ==
  /\ observer[o] = "poll" /\ polls[o] = MaxPolls
  /\ Watch(o, "apply")
  /\ UNCHANGED <<taskVars, polls, gaveUp, switchVars, setter>>

\* apply_pending_idle_switch_if_idle looks again and reads the pending model.
Apply(o) ==
  /\ observer[o] = "apply"
  /\ IF SlotIsClear /\ pending # None
     THEN /\ Watch(o, "activate")
          /\ want' = [want EXCEPT ![o] = pending] /\ fresh' = fresh \cup {o}
          /\ UNCHANGED <<polls, gaveUp>>
     ELSE /\ End(o)
          /\ gaveUp' = (gaveUp \/ (pending # None /\ polls[o] = MaxPolls))
          /\ UNCHANGED fresh
  /\ UNCHANGED <<taskVars, pending, serving, barrier, canceled, setter>>

\* try_write and the busy check of activate_default_model_blocking: the FIFO and
\* the parked sessions are not looked at again.
MayActivate == barrier = None /\ ~RebindBlocked

Begin(o) ==
  /\ observer[o] = "activate"
  /\ IF MayActivate
     THEN barrier' = o /\ Watch(o, "attest") /\ UNCHANGED <<polls, want, fresh>>
     ELSE End(o) /\ fresh' = fresh \ {o} /\ UNCHANGED barrier
  /\ UNCHANGED <<taskVars, gaveUp, pending, serving, canceled, setter>>

\* The model is published; a snapshot taken before is not current any more.
Publish(m) ==
  /\ serving' = m
  /\ worker' = [t \in Tasks |-> IF worker[t] = "preparing" THEN "outdated" ELSE worker[t]]

Succeed(o) ==
  /\ observer[o] = "attest"
  /\ Publish(want[o]) /\ barrier' = None
  /\ Watch(o, "cancel")
  /\ UNCHANGED <<tracked, session, polls, gaveUp, pending, want, canceled, fresh, setter>>

\* RemoteRuntimePolicy::cancel_idle_switch
CancelIdleSwitch == pending' = None /\ fresh' = {} /\ gaveUp' = FALSE

\* Faulty variant: the pending model is dropped when its activation fails.
FailAndForget(o) ==
  /\ observer[o] = "attest" /\ MayFail
  /\ barrier' = None
  /\ End(o) /\ CancelIdleSwitch
  /\ UNCHANGED <<taskVars, serving, canceled, setter>>

\* A pack that is gone and a failed activation leave the switch pending.
Fail(o) ==
  /\ observer[o] \in {"activate", "attest"} /\ MayFail
  /\ barrier' = IF observer[o] = "attest" THEN None ELSE barrier
  /\ End(o) /\ fresh' = fresh \ {o} /\ gaveUp' = (pending # None)
  /\ UNCHANGED <<taskVars, pending, serving, canceled, setter>>

\* An observer that has activated clears whatever is pending by now.
Consume(o) ==
  /\ observer[o] = "cancel"
  /\ End(o) /\ CancelIdleSwitch
  /\ UNCHANGED <<taskVars, serving, barrier, canceled, setter>>

Observe(o) ==
  \/ Look(o) \/ Poll(o) \/ LastPoll(o) \/ Apply(o)
  \/ Begin(o) \/ Succeed(o) \/ Fail(o) \/ Consume(o)

-----------------------------------------------------------------------------
(* set_default_model and the cancel route                                   *)

Set(s, phase) == setter' = [setter EXCEPT ![s] = phase]

\* A failed or refused activation, or a successful one: the call returns.
SetReturn(s) == Set(s, "done") /\ want' = [want EXCEPT ![s] = None]

SetDefault(s, m) ==
  /\ setter[s] = "new"
  /\ want' = [want EXCEPT ![s] = m]
  /\ Set(s, IF RebindBlocked THEN "request" ELSE "cancel")
  /\ UNCHANGED <<taskVars, observerVars, pending, serving, barrier, canceled, fresh>>

\* request_idle_switch and the 202 answer.
Request(s) ==
  /\ setter[s] = "request"
  /\ pending' = want[s]
  /\ Set(s, "accepted")
  /\ UNCHANGED <<taskVars, observerVars, serving, barrier, want, canceled, fresh>>

\* An immediate activation supersedes a pending one.
Supersede(s) ==
  /\ setter[s] = "cancel"
  /\ CancelIdleSwitch
  /\ Set(s, "activate")
  /\ UNCHANGED <<taskVars, observer, polls, serving, barrier, want, canceled>>

SetBegin(s) ==
  /\ setter[s] = "activate"
  /\ IF MayActivate
     THEN barrier' = s /\ Set(s, "attest") /\ UNCHANGED want
     ELSE SetReturn(s) /\ UNCHANGED barrier
  /\ UNCHANGED <<taskVars, observerVars, pending, serving, canceled, fresh>>

SetEnd(s) ==
  /\ setter[s] = "attest"
  /\ barrier' = None
  /\ Publish(want[s]) \/ (MayFail /\ UNCHANGED <<serving, worker>>)
  /\ SetReturn(s)
  /\ UNCHANGED <<tracked, session, observerVars, pending, canceled, fresh>>

SetStep(s) == Request(s) \/ Supersede(s) \/ SetBegin(s) \/ SetEnd(s)

\* POST /v1/models/default/idle-switch/cancel
Cancel ==
  /\ ~canceled /\ pending # None
  /\ canceled' = TRUE
  /\ CancelIdleSwitch
  /\ UNCHANGED <<taskVars, observer, polls, serving, barrier, want, setter>>

ServerStep ==
  \/ \E t \in Tasks : WorkerStep(t) \/ HandlerStep(t)
  \/ \E o \in Observers : Observe(o)
  \/ \E s \in Setters : SetStep(s)

Next ==
  \/ ServerStep
  \/ \E t \in Tasks : ClientStep(t)
  \/ \E s \in Setters, m \in Models : SetDefault(s, m)
  \/ Cancel

Spec == Init /\ [][Next]_vars

\* Decodes end, handlers return, realtime users hang up some day, and spawned
\* observers run.  Clients need not come, and need not disconnect.  Finitely
\* many come and each causes finitely many steps, so that it is enough to assume
\* that the server does not stop while it has a step to take.
FairSpec == Spec /\ WF_vars(ServerStep)

-----------------------------------------------------------------------------
(* Properties                                                               *)

\* Every variable has the shape its declaration says.
TypeOK ==
  /\ pending \in Models \cup {None}
  /\ serving \in Models
  /\ barrier \in Observers \cup Setters \cup {None}
  /\ tracked \subseteq Registered
  /\ session \in [Tasks -> {"new", "queued", "running", "returned", "held", "done", "dropped"}]
  /\ worker \in [Tasks -> {"none", "preparing", "outdated", "computing"}]
  /\ observer \in [Observers -> {"none", "look", "poll", "apply", "activate", "attest", "cancel"}]
  /\ polls \in [Observers -> 0..MaxPolls]
  /\ setter \in [Setters -> {"absent", "new", "request", "accepted", "cancel", "activate", "attest", "done"}]
  /\ want \in [Observers \cup Setters -> Models \cup {None}]
  /\ canceled \in BOOLEAN /\ fresh \subseteq Observers /\ gaveUp \in BOOLEAN


\* Two set-defaults were answered 202 for different models.
TwoAccepted ==
  \E r, s \in Setters : setter[r] = "accepted" /\ setter[s] = "accepted" /\ want[r] # want[s]

\* A switch answered 202 goes away when it is canceled, superseded by an
\* immediate set-default, or live; an observer's failed activation keeps it.
\* An observer that has activated its model consumes that very switch, unless
\* another was accepted for a different model: cancel_idle_switch does not
\* compare, and the later switch goes with the earlier one.
AcceptedSwitchKept ==
  [][pending' = None /\ pending # None =>
       \/ canceled' # canceled
       \/ \E s \in Setters : setter[s] = "cancel" /\ setter'[s] = "activate"
       \/ \E o \in Observers : observer[o] = "cancel" /\ observer'[o] = "none" /\ (want[o] = pending \/ TwoAccepted)]_vars

\* An immediate set-default tried its activation: an observer that meets it
\* ends without applying anything.
Overtaken == \E s \in Setters : setter[s] = "done"

\* File requests without an id: they end unobserved when they are dropped.
Droppable == Tasks \ (Registered \cup Auxiliary \cup Streaming)

\* A task has an end to come at which somebody schedules an observer.  For a
\* precise timeline without an id that is the end of its computation.
EndIsObserved(t) ==
  IF t \in Auxiliary \ Registered
  THEN worker[t] = "computing"
  ELSE session[t] \in {"queued", "running", "returned", "held"}

Consumed == pending = None \/ gaveUp \/ Overtaken

\* A switch that is pending while a task runs is consumed: the end of that task,
\* or of a later one, finds it, unless the switch outlasts an observer's polls,
\* its activation fails or an immediate set-default comes between.  The end of
\* a file request without an id that is dropped with its connection finds
\* nothing: nobody schedules.
SwitchFollowsTask ==
  /\ (pending # None /\ \E t \in Tasks \ Droppable : EndIsObserved(t)) ~> Consumed
  /\ \A t \in Droppable : (pending # None /\ EndIsObserved(t)) ~> (Consumed \/ session[t] = "dropped")

\* "Present only while a pending rebind is waiting for the current tasks to
\* finish" (DefaultModelResponse): a pending switch does not stay pending.
SwitchHappens == pending # None ~> pending = None
=============================================================================
