----------------------------- MODULE Activation -----------------------------
(***************************************************************************)
(* Activation of the default model in one daemon process (openasr-server,  *)
(* ActiveRuntimeSlot in lib.rs, routes/models_api.rs, the boot task in     *)
(* realtime/native_worker.rs): the activation barrier, the generation      *)
(* checked snapshot of a request, the durable V2 selection, set-default,   *)
(* delete and the boot attestation.                                        *)
(*                                                                         *)
(* The initial states are those a process may boot into, whatever became   *)
(* of the process before it: a crash between the durable commit and the    *)
(* live publication leaves a durable selection and nothing else.           *)
(*                                                                         *)
(* An admission holds the read side of the barrier for a few reads and one *)
(* permit, so it is one step; a try_write that meets it fails.             *)
(***************************************************************************)
EXTENDS Integers, FiniteSets

CONSTANTS
  Models,      \* installable packs
  Tasks,       \* native requests and sessions
  Auxiliary,   \* those that run no ASR model (diarization, timelines)
  Setters,     \* POST /v1/models/default requests
  Deleters,    \* DELETE /v1/models/{id} requests
  Boot,        \* the boot attestation task
  None

ASSUME ActorsAreDistinct ==
  /\ Auxiliary \subseteq Tasks
  /\ Setters \cap Deleters = {}
  /\ Boot \notin Setters \cup Deleters
  /\ None \notin Models \cup Setters \cup Deleters \cup {Boot}

VARIABLES
  installed,     \* the packs on disk
  durable,       \* ActiveModelSelectionV2: [model, generation]
  requested,     \* ActiveRuntimeSlotState.requested_path
  active,        \* ActiveRuntimeSlotState.active
  generation,    \* ActiveRuntimeSlotState.generation
  writer,        \* who holds the write side of activation_barrier
  boot_pending,  \* pending_boot_attestations # 0
  task,          \* phase of each task
  snapshot,      \* the served snapshot a task prepared with
  actor,         \* phase of each setter, deleter and the boot task
  target,        \* the model each actor is about
  seen,          \* what a deleter or the boot task read: [model, generation]
  mode           \* DefaultModelActivationMode of an activation

slot == <<requested, active, generation>>
acts == <<actor, target, seen, mode>>
vars == <<installed, durable, slot, writer, boot_pending, task, snapshot, acts>>

Activators == Setters \cup {Boot}
Actors == Activators \cup Deleters
Modes == {"persist", "reconcile", "reactivate", "launch"}

\* served_snapshot: the attested binding, else the requested path.
Served == [model |-> IF active # None THEN active ELSE requested, generation |-> generation]

NoSelection == [model |-> None, generation |-> 0]

Running == {t \in Tasks : task[t] = "running"}

Init ==
  /\ installed \in SUBSET Models
  /\ durable \in [model : Models \cup {None}, generation : {0, 1}]
  /\ durable.generation = 0 => durable.model = None
  /\ requested \in Models \cup {None}
  /\ active = None /\ generation = 0
  /\ writer = None
  /\ boot_pending = TRUE
  /\ task = [t \in Tasks |-> "new"]
  /\ snapshot = [t \in Tasks |-> NoSelection]
  /\ actor = [a \in Actors |-> "new"]
  /\ target = [a \in Actors |-> None]
  /\ seen = [a \in Actors |-> NoSelection]
  /\ mode = [a \in Actors |-> "persist"]

-----------------------------------------------------------------------------
(* Requests                                                                 *)

\* Faulty variants: the snapshot is not compared again; the barrier and the
\* busy check are left out.
SnapshotIsAnything(t) == Served.model # None
BarrierIgnored == TRUE
NeverBlocked == FALSE

\* snapshot_is_current
SnapshotIsCurrent(t) == snapshot[t] = Served

\* The try_read of an admission or the try_write of an activation succeeds.
BarrierFree == writer = None

\* native_rebind_blocked: a permit is held, or an activation has entered its
\* activity guard. A deletion holds the barrier but no guard.
RebindBlocked == Running # {} \/ writer \in Activators

\* resolve_served_native_pack takes a snapshot; the preparation takes a while.
Prepare(t) ==
  /\ task[t] = "new" /\ t \notin Auxiliary
  /\ Served.model \in installed
  /\ task' = [task EXCEPT ![t] = "prepared"]
  /\ snapshot' = [snapshot EXCEPT ![t] = Served]
  /\ UNCHANGED <<installed, durable, slot, writer, boot_pending, acts>>

\* acquire_native_execution_for_snapshot, under the read side of the barrier.
Admit(t) ==
  /\ task[t] = "prepared"
  /\ task' = [task EXCEPT ![t] = IF BarrierFree /\ ~boot_pending /\ SnapshotIsCurrent(t)
                                 THEN "running" ELSE "done"]
  /\ UNCHANGED <<installed, durable, slot, writer, boot_pending, snapshot, acts>>

\* acquire_native_auxiliary_execution: no snapshot and no boot check.
AdmitAuxiliary(t) ==
  /\ task[t] = "new" /\ t \in Auxiliary
  /\ task' = [task EXCEPT ![t] = IF BarrierFree THEN "running" ELSE "done"]
  /\ UNCHANGED <<installed, durable, slot, writer, boot_pending, snapshot, acts>>

\* The permit and the activity guard are dropped.
Finish(t) ==
  /\ task[t] = "running"
  /\ task' = [task EXCEPT ![t] = "done"]
  /\ UNCHANGED <<installed, durable, slot, writer, boot_pending, snapshot, acts>>

-----------------------------------------------------------------------------
(* activate_default_model_blocking, by a setter or the boot task            *)

Goto(a, phase) == actor' = [actor EXCEPT ![a] = phase]

\* set_default_model resolves an installed pack and looks whether it may
\* activate at once; if not, the request becomes a pending idle switch.
SetDefault(s, m) ==
  /\ actor[s] = "new"
  /\ m \in installed
  /\ target' = [target EXCEPT ![s] = m]
  /\ Goto(s, IF RebindBlocked THEN "done" ELSE "activate")
  /\ UNCHANGED <<installed, durable, slot, writer, boot_pending, task, snapshot, seen, mode>>

\* Faulty variant: the boot guard outlives the boot task.
EndKeepingBoot(a, phase) ==
  /\ Goto(a, phase)
  /\ UNCHANGED boot_pending

\* An activation is over; the boot guard goes with the boot task.
End(a, phase) ==
  /\ Goto(a, phase)
  /\ boot_pending' = (boot_pending /\ a # Boot)

\* The boot task reads the requested path and finds its pack, or gives up.
BootRequested ==
  /\ actor[Boot] = "new"
  /\ target' = [target EXCEPT ![Boot] = requested]
  /\ IF requested \in installed THEN Goto(Boot, "record") /\ UNCHANGED boot_pending
                                ELSE End(Boot, "failed")
  /\ UNCHANGED <<installed, durable, slot, writer, task, snapshot, seen, mode>>

\* read_active_model_selection_v2
BootRecord ==
  /\ actor[Boot] = "record"
  /\ seen' = [seen EXCEPT ![Boot] = durable]
  /\ Goto(Boot, "resolve")
  /\ UNCHANGED <<installed, durable, slot, writer, boot_pending, task, snapshot, target, mode>>

\* resolve_with_catalog reads the record again; with it the mode is chosen.
\* Whether the device preference still matches the record is left open.
BootResolve ==
  /\ actor[Boot] = "resolve"
  /\ \E chosen \in IF seen[Boot].generation # 0 /\ target[Boot] = durable.model /\ durable.model \in installed
                    THEN {"reactivate", "reconcile"} ELSE {"launch"} :
       mode' = [mode EXCEPT ![Boot] = chosen]
  /\ Goto(Boot, "activate")
  /\ UNCHANGED <<installed, durable, slot, writer, boot_pending, task, snapshot, target, seen>>

\* try_write, the busy check and the verification of the pack.
ActivateBegin(a) ==
  /\ actor[a] = "activate"
  /\ BarrierFree /\ ~RebindBlocked /\ target[a] \in installed
  /\ writer' = a
  /\ Goto(a, "attest")
  /\ UNCHANGED <<installed, durable, slot, boot_pending, task, snapshot, target, seen, mode>>

\* Refused (barrier, sessions, bad pack), or a later step up to the commit
\* fails: the barrier is dropped, nothing durable and nothing live changes.
ActivateFail(a) ==
  /\ actor[a] \in {"activate", "attest"}
  /\ writer' = IF writer = a THEN None ELSE writer
  /\ End(a, "failed")
  /\ UNCHANGED <<installed, durable, slot, task, snapshot, target, seen, mode>>

\* Faulty variant: a reactivation does not read the record again.
CommitUnchecked(a) == TRUE

\* What the journal checks before it publishes, by mode.
MayCommit(a) ==
  CASE mode[a] = "reconcile" -> durable.generation = seen[a].generation
    [] mode[a] = "reactivate" -> durable.model = target[a]
    [] OTHER -> TRUE

\* next_generation
NextGeneration == durable.generation + 1

\* commit_activation: V2 is replaced unless the mode only attests.
Commit(a) ==
  /\ actor[a] = "attest" /\ MayCommit(a)
  /\ durable' = IF mode[a] \in {"persist", "reconcile"}
                THEN [model |-> target[a], generation |-> NextGeneration] ELSE durable
  /\ Goto(a, "publish")
  /\ UNCHANGED <<installed, slot, writer, boot_pending, task, snapshot, target, seen, mode>>

\* publish_attested_native_model cannot fail.
Publish(a) ==
  /\ actor[a] = "publish"
  /\ active' = target[a] /\ requested' = target[a] /\ generation' = generation + 1
  /\ writer' = None
  /\ End(a, "active")
  /\ UNCHANGED <<installed, durable, task, snapshot, target, seen, mode>>

-----------------------------------------------------------------------------
(* delete_model                                                             *)

\* The default is resolved before the barrier is taken.
DeleteRead(d, m) ==
  /\ actor[d] = "new"
  /\ target' = [target EXCEPT ![d] = m]
  /\ seen' = [seen EXCEPT ![d] = IF durable.model \in installed THEN durable ELSE NoSelection]
  /\ Goto(d, "delete")
  /\ UNCHANGED <<installed, durable, slot, writer, boot_pending, task, snapshot, mode>>

\* try_write and the busy check.
DeleteBegin(d) ==
  /\ actor[d] = "delete"
  /\ BarrierFree /\ ~RebindBlocked
  /\ writer' = d
  /\ Goto(d, "remove")
  /\ UNCHANGED <<installed, durable, slot, boot_pending, task, snapshot, target, seen, mode>>

\* Refused, the pack cannot be removed, or V2 Unset is not committed.
DeleteFail(d) ==
  /\ actor[d] \in {"delete", "remove", "clear"}
  /\ writer' = IF writer = d THEN None ELSE writer
  /\ Goto(d, "done")
  /\ UNCHANGED <<installed, durable, slot, boot_pending, task, snapshot, target, seen, mode>>

\* remove_model_pack; the selection is cleared if the pack was the default read.
Remove(d) ==
  /\ actor[d] = "remove"
  /\ installed' = installed \ {target[d]}
  /\ IF target[d] \in installed /\ seen[d].model = target[d]
     THEN Goto(d, "clear") /\ UNCHANGED writer
     ELSE Goto(d, "done") /\ writer' = None
  /\ UNCHANGED <<durable, slot, boot_pending, task, snapshot, target, seen, mode>>

\* clear_default_model_selection commits V2 Unset.
ClearSelection(d) ==
  /\ actor[d] = "clear"
  /\ durable' = [model |-> None, generation |-> NextGeneration]
  /\ Goto(d, "clearLive")
  /\ UNCHANGED <<installed, slot, writer, boot_pending, task, snapshot, target, seen, mode>>

\* clear_active_native_model
ClearLive(d) ==
  /\ actor[d] = "clearLive"
  /\ active' = None /\ requested' = None /\ generation' = generation + 1
  /\ writer' = None
  /\ Goto(d, "done")
  /\ UNCHANGED <<installed, durable, boot_pending, task, snapshot, target, seen, mode>>

Activate(a) == ActivateBegin(a) \/ ActivateFail(a) \/ Commit(a) \/ Publish(a)

BootStep == BootRequested \/ BootRecord \/ BootResolve

DeleteStep(d) == DeleteBegin(d) \/ DeleteFail(d) \/ Remove(d) \/ ClearSelection(d) \/ ClearLive(d)

Next ==
  \/ \E t \in Tasks : Prepare(t) \/ Admit(t) \/ AdmitAuxiliary(t) \/ Finish(t)
  \/ \E s \in Setters, m \in Models : SetDefault(s, m)
  \/ BootStep
  \/ \E a \in Activators : Activate(a)
  \/ \E d \in Deleters, m \in Models : DeleteRead(d, m)
  \/ \E d \in Deleters : DeleteStep(d)

Spec == Init /\ [][Next]_vars

\* The boot task is a thread of its own that runs to its end.
FairSpec == Spec /\ WF_vars(BootStep) /\ WF_vars(Activate(Boot))

-----------------------------------------------------------------------------
(* Properties                                                               *)

Selections == [model : Models \cup {None}, generation : Nat]

TypeOK ==
  /\ installed \in SUBSET Models
  /\ durable \in Selections
  /\ requested \in Models \cup {None} /\ active \in Models \cup {None}
  /\ generation \in Nat
  /\ writer \in Actors \cup {None}
  /\ boot_pending \in BOOLEAN
  /\ task \in [Tasks -> {"new", "prepared", "running", "done"}]
  /\ snapshot \in [Tasks -> Selections]
  /\ actor \in [Actors -> {"new", "record", "resolve", "activate", "attest", "publish",
                         "delete", "remove", "clear", "clearLive", "done", "failed", "active"}]
  /\ target \in [Actors -> Models \cup {None}]
  /\ seen \in [Actors -> Selections]
  /\ mode \in [Actors -> Modes]

\* A native session runs the model it prepared for from admission to end:
\* no activation, deletion or boot attestation replaces or clears the served
\* model under it, and none that happened during its preparation is missed.
RunsServedModel == \A t \in Running \ Auxiliary : snapshot[t] = Served

\* delete_model never removes the pack of a session that runs.
PackStaysUnderSession ==
  [][\A t \in Running : snapshot[t].model \notin installed \ installed']_vars

\* A change of the default goes live only as the selection on disk: between
\* the durable commit and the publication nobody else moves the record.
PublishedIsDurable ==
  \A a \in Activators : actor[a] = "publish" /\ mode[a] # "launch" => durable.model = target[a]

\* The boot task gives up its claim on new admissions in every case.
BootEnds == boot_pending ~> ~boot_pending

\* The phases in which an actor holds the write side of the barrier.
Critical == {"attest", "publish", "remove", "clear", "clearLive"}

\* Sessions share the served runtime; an activation has it alone.
SX == INSTANCE SharedExclusive
        WITH Users <- Tasks, users <- Running,
             exclusive <- \E a \in Actors : actor[a] \in Critical
BarrierIsSharedExclusive == SX!SXSpec

\* "Default selection is changed only by an explicit activation operation or
\* the server's explicit default-model API" (docs/default-model-resolution.md):
\* deleting one model does not unset another.
DeleteKeepsOtherSelection ==
  [][\A d \in Deleters : actor[d] = "clear" /\ durable' # durable
       => durable.model \in {target[d], None}]_vars
=============================================================================
