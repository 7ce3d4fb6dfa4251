--------------------------- MODULE SessionProofs ----------------------------
(***************************************************************************)
(* Theorems about what a live session rests on: the model it runs          *)
(* (Activation) and its channel to the decode thread (NativeChannel).      *)
(*                                                                         *)
(* Activation, for any sets of models, tasks, set-default and delete       *)
(* requests: the inductive invariant ties the write side of the barrier to *)
(* the phase of its holder (Owner) and says that nobody holds it while a   *)
(* session runs (Quiet); from these two follow that the served model and   *)
(* the durable record stand still where they have to.                      *)
(*                                                                         *)
(* NativeChannel, for all capacities that satisfy ChannelAssumption: the   *)
(* two ends of a native streaming session never wait for each other, and   *)
(* every command in flight has its watchdog entry.                         *)
(***************************************************************************)
EXTENDS Activation, NativeChannel, TLAPS

\* Exactly the holder of the barrier is in a critical phase.
Owner == \A a \in Actors : actor[a] \in Critical <=> writer = a

\* No session runs while an activation or deletion holds the barrier.
Quiet == writer # None => Running = {}

\* The phases of activations and of deletions are those of their own actors.
Roles ==
  /\ \A a \in Actors : actor[a] \in {"record", "resolve", "activate", "attest", "publish"} => a \in Activators
  /\ \A a \in Actors : actor[a] \in {"delete", "remove", "clear", "clearLive"} => a \in Deleters

IInv == TypeOK /\ Owner /\ Quiet /\ Roles /\ RunsServedModel /\ PublishedIsDurable

\* The process boots with nobody in the barrier and nobody running.
LEMMA InitIInv == Init => IInv
  <1> SUFFICES ASSUME Init PROVE IInv
    OBVIOUS
  <1> USE DEF Init
  <1>1. TypeOK
    BY DEF TypeOK, Selections, NoSelection, Modes
  <1>2. Running = {}
    BY DEF Running
  <1>3. Owner
    BY ActorsAreDistinct DEF Owner, Critical, Actors, Activators
  <1>4. Roles /\ PublishedIsDurable
    BY DEF Roles, PublishedIsDurable, Actors, Activators
  <1> QED
    BY <1>1, <1>2, <1>3, <1>4 DEF IInv, Quiet, RunsServedModel

\* Every step keeps the types.
LEMMA TypeStep == TypeOK /\ [Next]_vars => TypeOK'
  <1> SUFFICES ASSUME TypeOK, [Next]_vars PROVE TypeOK'
    OBVIOUS
  <1> USE DEF TypeOK, slot, acts, Goto, End
  <1>0. Served \in Selections
    BY DEF Served, Selections
  <1>1. ASSUME NEW t \in Tasks, Prepare(t) \/ Admit(t) \/ AdmitAuxiliary(t) \/ Finish(t) PROVE TypeOK'
    <2>1. CASE Prepare(t)
      BY <2>1, <1>0 DEF Prepare
    <2>2. CASE Admit(t)
      BY <2>2 DEF Admit
    <2>3. CASE AdmitAuxiliary(t)
      BY <2>3 DEF AdmitAuxiliary
    <2>4. CASE Finish(t)
      BY <2>4 DEF Finish
    <2> QED
      BY <1>1, <2>1, <2>2, <2>3, <2>4
  <1>2. ASSUME NEW s \in Setters, NEW m \in Models, SetDefault(s, m) PROVE TypeOK'
    BY <1>2 DEF SetDefault
  <1>3. CASE BootStep
    <2>1. CASE BootRequested
      BY <2>1 DEF BootRequested
    <2>2. CASE BootRecord
      BY <2>2 DEF BootRecord
    <2>3. CASE BootResolve
      BY <2>3 DEF BootResolve, Modes
    <2> QED
      BY <1>3, <2>1, <2>2, <2>3 DEF BootStep
  <1>4. ASSUME NEW a \in Activators, Activate(a) PROVE TypeOK'
    <2> USE DEF Actors
    <2>1. CASE ActivateBegin(a)
      BY <2>1 DEF ActivateBegin
    <2>2. CASE ActivateFail(a)
      BY <2>2 DEF ActivateFail
    <2>3. CASE Commit(a)
      BY <2>3 DEF Commit, Selections, NextGeneration
    <2>4. CASE Publish(a)
      BY <2>4 DEF Publish
    <2> QED
      BY <1>4, <2>1, <2>2, <2>3, <2>4 DEF Activate
  <1>5. ASSUME NEW d \in Deleters, NEW m \in Models, DeleteRead(d, m) PROVE TypeOK'
    BY <1>5 DEF DeleteRead, Selections, NoSelection
  <1>6. ASSUME NEW d \in Deleters, DeleteStep(d) PROVE TypeOK'
    <2> USE DEF Actors
    <2>1. CASE DeleteBegin(d)
      BY <2>1 DEF DeleteBegin
    <2>2. CASE DeleteFail(d)
      BY <2>2 DEF DeleteFail
    <2>3. CASE Remove(d)
      BY <2>3 DEF Remove
    <2>4. CASE ClearSelection(d)
      BY <2>4 DEF ClearSelection, Selections, NextGeneration
    <2>5. CASE ClearLive(d)
      BY <2>5 DEF ClearLive
    <2> QED
      BY <1>6, <2>1, <2>2, <2>3, <2>4, <2>5 DEF DeleteStep
  <1>7. CASE UNCHANGED vars
    BY <1>7 DEF vars
  <1> QED
    BY <1>1, <1>2, <1>3, <1>4, <1>5, <1>6, <1>7 DEF Next

\* What a step of a task does: it moves no actor, no record and no slot, and
\* it adds a runner only when the barrier is free and, for an ASR task, when
\* its snapshot is the served one.
LEMMA SessionStep ==
  ASSUME IInv, NEW t \in Tasks, Prepare(t) \/ Admit(t) \/ AdmitAuxiliary(t) \/ Finish(t)
  PROVE  /\ UNCHANGED <<durable, slot, writer, acts>>
         /\ Quiet' /\ RunsServedModel'
  <1> USE DEF IInv, TypeOK, Running, slot, acts
  <1>1. UNCHANGED <<durable, requested, active, generation, writer, actor, target, seen, mode>>
    BY DEF Prepare, Admit, AdmitAuxiliary, Finish
  <1>2. Served' = Served
    BY <1>1 DEF Served
  <1>3. CASE Prepare(t)
    BY <1>1, <1>2, <1>3 DEF Prepare, Quiet, RunsServedModel
  <1>4. CASE Admit(t)
    BY <1>1, <1>2, <1>4 DEF Admit, Quiet, RunsServedModel, BarrierFree, SnapshotIsCurrent
  <1>5. CASE AdmitAuxiliary(t)
    BY <1>1, <1>2, <1>5 DEF AdmitAuxiliary, Quiet, RunsServedModel, BarrierFree
  <1>6. CASE Finish(t)
    BY <1>1, <1>2, <1>6 DEF Finish, Quiet, RunsServedModel
  <1> QED
    BY <1>1, <1>3, <1>4, <1>5, <1>6

\* A step that leaves tasks and barrier alone moves the slot only under the
\* barrier, where nobody runs.
LEMMA QuietStep ==
  ASSUME IInv, UNCHANGED <<task, snapshot>>,
         writer' \in {writer, None} \/ Running = {},
         UNCHANGED slot \/ writer # None
  PROVE  Quiet' /\ RunsServedModel'
  <1>1. Running' = Running
    BY DEF Running
  <1>2. Quiet'
    BY <1>1 DEF IInv, Quiet
  <1>3. CASE UNCHANGED slot
    <2>1. Served' = Served
      BY <1>3 DEF Served, slot
    <2>2. snapshot' = snapshot
      OBVIOUS
    <2> QED
      BY <1>1, <1>2, <2>1, <2>2 DEF IInv, RunsServedModel
  <1>4. CASE writer # None
    BY <1>1, <1>2, <1>4 DEF IInv, Quiet, RunsServedModel
  <1> QED
    BY <1>2, <1>3, <1>4

\* The barrier is used as a lock: phases, holder and record move together.
LEMMA ActorStep ==
  ASSUME IInv, Next, UNCHANGED task
  PROVE  Owner' /\ Roles' /\ Quiet' /\ RunsServedModel' /\ PublishedIsDurable'
  <1> USE ActorsAreDistinct DEF slot, acts, Goto, End, Actors, Activators
  <1>0. TypeOK /\ Owner /\ Quiet /\ Roles /\ PublishedIsDurable
    BY DEF IInv
  <1>1. ASSUME NEW s \in Setters, NEW m \in Models, SetDefault(s, m)
        PROVE  Owner' /\ Roles' /\ Quiet' /\ RunsServedModel' /\ PublishedIsDurable'
    <2>1. Owner' /\ Roles'
      BY <1>0, <1>1 DEF SetDefault, TypeOK, Owner, Roles, Critical
    <2>2. PublishedIsDurable'
      BY <1>0, <1>1 DEF SetDefault, TypeOK, PublishedIsDurable
    <2>3. Quiet' /\ RunsServedModel'
      BY <1>1, QuietStep DEF SetDefault
    <2> QED
      BY <2>1, <2>2, <2>3
  <1>2. CASE BootStep
    <2>1. Owner' /\ Roles'
      <3>1. CASE BootRequested
        BY <1>0, <3>1 DEF BootRequested, TypeOK, Owner, Roles, Critical
      <3>2. CASE BootRecord
        BY <1>0, <3>2 DEF BootRecord, TypeOK, Owner, Roles, Critical
      <3>3. CASE BootResolve
        BY <1>0, <3>3 DEF BootResolve, TypeOK, Owner, Roles, Critical
      <3> QED
        BY <1>2, <3>1, <3>2, <3>3 DEF BootStep
    <2>2. PublishedIsDurable'
      BY <1>0, <1>2 DEF BootStep, BootRequested, BootRecord, BootResolve, TypeOK, PublishedIsDurable
    <2>3. Quiet' /\ RunsServedModel'
      BY <1>2, QuietStep DEF BootStep, BootRequested, BootRecord, BootResolve
    <2> QED
      BY <2>1, <2>2, <2>3
  <1>3. ASSUME NEW a \in Activators, Activate(a)
        PROVE  Owner' /\ Roles' /\ Quiet' /\ RunsServedModel' /\ PublishedIsDurable'
    <2>1. CASE ActivateBegin(a)
      <3>1. Owner' /\ Roles'
        BY <1>0, <2>1 DEF ActivateBegin, TypeOK, Owner, Roles, Critical, BarrierFree
      <3>2. PublishedIsDurable'
        BY <1>0, <2>1 DEF ActivateBegin, TypeOK, PublishedIsDurable
      <3>3. Quiet' /\ RunsServedModel'
        BY <2>1, QuietStep DEF ActivateBegin, RebindBlocked
      <3> QED
        BY <3>1, <3>2, <3>3
    <2>2. CASE ActivateFail(a)
      <3>1. Owner' /\ Roles'
        BY <1>0, <2>2 DEF ActivateFail, TypeOK, Owner, Roles, Critical
      <3>2. PublishedIsDurable'
        BY <1>0, <2>2 DEF ActivateFail, TypeOK, PublishedIsDurable
      <3>3. Quiet' /\ RunsServedModel'
        BY <2>2, QuietStep DEF ActivateFail
      <3> QED
        BY <3>1, <3>2, <3>3
    <2>3. CASE Commit(a)
      <3>1. Owner' /\ Roles'
        BY <1>0, <2>3 DEF Commit, TypeOK, Owner, Roles, Critical
      <3>2. \A b \in Activators : actor'[b] = "publish" => b = a
        BY <1>0, <2>3 DEF Commit, TypeOK, Owner, Critical
      <3>3. mode[a] # "launch" => durable'.model = target[a]
        BY <1>0, <2>3 DEF Commit, MayCommit, TypeOK, Modes
      <3>4. PublishedIsDurable'
        BY <2>3, <3>2, <3>3 DEF Commit, PublishedIsDurable
      <3>5. Quiet' /\ RunsServedModel'
        BY <2>3, QuietStep DEF Commit
      <3> QED
        BY <3>1, <3>4, <3>5
    <2>4. CASE Publish(a)
      <3>0. writer = a
        BY <1>0, <2>4 DEF Publish, Owner, Critical
      <3>1. Owner' /\ Roles'
        BY <1>0, <2>4 DEF Publish, TypeOK, Owner, Roles, Critical
      <3>2. PublishedIsDurable'
        BY <1>0, <2>4 DEF Publish, TypeOK, PublishedIsDurable
      <3>3. Quiet' /\ RunsServedModel'
        BY <2>4, <3>0, QuietStep DEF Publish
      <3> QED
        BY <3>1, <3>2, <3>3
    <2> QED
      BY <1>3, <2>1, <2>2, <2>3, <2>4 DEF Activate
  <1>4. ASSUME NEW d \in Deleters, NEW m \in Models, DeleteRead(d, m)
        PROVE  Owner' /\ Roles' /\ Quiet' /\ RunsServedModel' /\ PublishedIsDurable'
    <2>1. Owner' /\ Roles'
      BY <1>0, <1>4 DEF DeleteRead, TypeOK, Owner, Roles, Critical
    <2>2. PublishedIsDurable'
      BY <1>0, <1>4 DEF DeleteRead, TypeOK, PublishedIsDurable
    <2>3. Quiet' /\ RunsServedModel'
      BY <1>4, QuietStep DEF DeleteRead
    <2> QED
      BY <2>1, <2>2, <2>3
  <1>5. ASSUME NEW d \in Deleters, DeleteStep(d)
        PROVE  Owner' /\ Roles' /\ Quiet' /\ RunsServedModel' /\ PublishedIsDurable'
    <2>1. Owner' /\ Roles'
      <3>1. CASE DeleteBegin(d)
        BY <1>0, <3>1 DEF DeleteBegin, TypeOK, Owner, Roles, Critical, BarrierFree
      <3>2. CASE DeleteFail(d)
        BY <1>0, <3>2 DEF DeleteFail, TypeOK, Owner, Roles, Critical
      <3>3. CASE Remove(d)
        BY <1>0, <3>3 DEF Remove, TypeOK, Owner, Roles, Critical
      <3>4. CASE ClearSelection(d)
        BY <1>0, <3>4 DEF ClearSelection, TypeOK, Owner, Roles, Critical
      <3>5. CASE ClearLive(d)
        BY <1>0, <3>5 DEF ClearLive, TypeOK, Owner, Roles, Critical
      <3> QED
        BY <1>5, <3>1, <3>2, <3>3, <3>4, <3>5 DEF DeleteStep
    <2>2. PublishedIsDurable'
      <3>1. CASE ClearSelection(d)
        <4>1. \A b \in Activators : actor'[b] # "publish"
          BY <1>0, <3>1 DEF ClearSelection, TypeOK, Owner, Critical
        <4> QED
          BY <4>1 DEF PublishedIsDurable
      <3>2. CASE DeleteBegin(d) \/ DeleteFail(d) \/ Remove(d) \/ ClearLive(d)
        BY <1>0, <3>2 DEF DeleteBegin, DeleteFail, Remove, ClearLive, TypeOK, PublishedIsDurable
      <3> QED
        BY <1>5, <3>1, <3>2 DEF DeleteStep
    <2>3. Quiet' /\ RunsServedModel'
      <3>1. CASE ClearLive(d)
        <4>1. writer = d
          BY <1>0, <3>1 DEF ClearLive, Owner, Critical
        <4> QED
          BY <3>1, <4>1, QuietStep DEF ClearLive
      <3>2. CASE DeleteBegin(d)
        BY <3>2, QuietStep DEF DeleteBegin, RebindBlocked
      <3>3. CASE DeleteFail(d) \/ Remove(d) \/ ClearSelection(d)
        BY <3>3, QuietStep DEF DeleteFail, Remove, ClearSelection
      <3> QED
        BY <1>5, <3>1, <3>2, <3>3 DEF DeleteStep
    <2> QED
      BY <2>1, <2>2, <2>3
  <1>6. \A t \in Tasks : ~(Prepare(t) \/ Admit(t) \/ AdmitAuxiliary(t) \/ Finish(t))
    BY <1>0 DEF Prepare, Admit, AdmitAuxiliary, Finish, TypeOK
  <1> QED
    BY <1>1, <1>2, <1>3, <1>4, <1>5, <1>6 DEF Next

\* IInv holds in every reachable state, for every value of the constants.
THEOREM Invariance == Spec => []IInv
  <1>1. IInv /\ [Next]_vars => IInv'
    <2> SUFFICES ASSUME IInv, [Next]_vars PROVE IInv'
      OBVIOUS
    <2>0. TypeOK'
      BY TypeStep DEF IInv
    <2>1. ASSUME NEW t \in Tasks, Prepare(t) \/ Admit(t) \/ AdmitAuxiliary(t) \/ Finish(t) PROVE IInv'
      <3>1. UNCHANGED <<durable, slot, writer, acts>> /\ Quiet' /\ RunsServedModel'
        BY <2>1, SessionStep
      <3>2. Owner' /\ Roles' /\ PublishedIsDurable'
        BY <3>1 DEF IInv, Owner, Roles, PublishedIsDurable, acts
      <3> QED
        BY <2>0, <3>1, <3>2 DEF IInv
    <2>2. CASE Next /\ UNCHANGED task
      BY <2>0, <2>2, ActorStep DEF IInv
    <2>3. CASE UNCHANGED vars
      BY <2>0, <2>3 DEF vars, slot, acts, IInv, Owner, Roles, Quiet, Running, RunsServedModel, Served, PublishedIsDurable
    <2>4. Next => UNCHANGED task \/ \E t \in Tasks : Prepare(t) \/ Admit(t) \/ AdmitAuxiliary(t) \/ Finish(t)
      BY DEF Next, SetDefault, BootStep, BootRequested, BootRecord, BootResolve, Activate, ActivateBegin,
         ActivateFail, Commit, Publish, DeleteRead, DeleteStep, DeleteBegin, DeleteFail, Remove,
         ClearSelection, ClearLive
    <2> QED
      BY <2>1, <2>2, <2>3, <2>4
  <1> QED
    BY <1>1, InitIInv, PTL DEF Spec

\* A session runs the served model it was prepared for, whatever set-default,
\* delete and the boot task do (acquire_native_execution_for_snapshot).
THEOREM SessionsRunServedModel == Spec => []RunsServedModel
  <1>1. IInv => RunsServedModel
    BY DEF IInv
  <1> QED
    BY <1>1, Invariance, PTL

\* Between the durable commit of an activation and its publication the record
\* names the model that is about to go live (try_candidate).
THEOREM CommitPrecedesPublication == Spec => []PublishedIsDurable
  <1>1. IInv => PublishedIsDurable
    BY DEF IInv
  <1> QED
    BY <1>1, Invariance, PTL

\* A deletion removes a pack only while no session runs (delete_model).
THEOREM PackIsKept == Spec => PackStaysUnderSession
  <1>1. IInv /\ [Next]_vars => [\A t \in Running : snapshot[t].model \notin installed \ installed']_vars
    <2> SUFFICES ASSUME IInv, Next PROVE \A t \in Running : snapshot[t].model \notin installed \ installed'
      OBVIOUS
    <2>1. ASSUME NEW d \in Deleters, Remove(d) PROVE Running = {}
      BY <2>1, ActorsAreDistinct DEF Remove, IInv, Owner, Quiet, Critical, Actors
    <2>2. (\E d \in Deleters : Remove(d)) \/ installed' = installed
      BY DEF Next, Prepare, Admit, AdmitAuxiliary, Finish, SetDefault, BootStep, BootRequested, BootRecord,
         BootResolve, Activate, ActivateBegin, ActivateFail, Commit, Publish, DeleteRead, DeleteStep,
         DeleteBegin, DeleteFail, ClearSelection, ClearLive
    <2> QED
      BY <2>1, <2>2
  <1> QED
    BY <1>1, Invariance, PTL DEF Spec, PackStaysUnderSession

\* The barrier with its busy check implements the shared/exclusive protocol.
THEOREM ImplementsSharedExclusive == Spec => BarrierIsSharedExclusive
  <1>1. Init => SX!SXInit
    BY DEF Init, SX!SXInit, Running, Critical
  <1>2. IInv /\ IInv' /\ [Next]_vars => [SX!SXNext]_(SX!sxVars)
    <2> SUFFICES ASSUME IInv, IInv', [Next]_vars PROVE [SX!SXNext]_(SX!sxVars)
      OBVIOUS
    <2> DEFINE Excl == \E a \in Actors : actor[a] \in Critical
    <2>a. None \notin Actors
      BY ActorsAreDistinct DEF Actors, Activators
    <2>b. writer \in Actors \cup {None} /\ Owner /\ writer' \in Actors \cup {None} /\ Owner'
      BY DEF IInv, TypeOK
    <2>c. Excl <=> writer # None
      BY <2>a, <2>b DEF Owner
    <2>d. Excl' <=> writer' # None
      BY <2>a, <2>b DEF Owner
    <2>0. (Excl <=> writer # None) /\ (Excl' <=> writer' # None)
      BY <2>c, <2>d
    <2>1. ASSUME NEW t \in Tasks, Prepare(t) \/ Admit(t) \/ AdmitAuxiliary(t) \/ Finish(t)
          PROVE  [SX!SXNext]_(SX!sxVars)
      <3>1. writer' = writer
        BY <2>1 DEF Prepare, Admit, AdmitAuxiliary, Finish
      <3>2. Excl' <=> Excl
        BY <2>0, <3>1
      <3>3. CASE Running' = Running
        BY <3>2, <3>3 DEF SX!sxVars
      <3>4. CASE Running' # Running
        <4>1. \/ ~Excl /\ t \notin Running /\ Running' = Running \cup {t}
              \/ t \in Running /\ Running' = Running \ {t}
          <5> USE DEF IInv, TypeOK, Running
          <5>1. CASE Prepare(t)
            BY <3>4, <5>1 DEF Prepare
          <5>2. CASE Admit(t)
            BY <2>0, <3>4, <5>2 DEF Admit, BarrierFree
          <5>3. CASE AdmitAuxiliary(t)
            BY <2>0, <3>4, <5>3 DEF AdmitAuxiliary, BarrierFree
          <5>4. CASE Finish(t)
            BY <5>4 DEF Finish
          <5> QED
            BY <2>1, <5>1, <5>2, <5>3, <5>4
        <4>2. SX!Acquire(t) \/ SX!Release(t)
          BY <3>2, <4>1 DEF SX!Acquire, SX!Release
        <4> QED
          BY <4>2 DEF SX!SXNext
      <3> QED
        BY <3>3, <3>4
    <2>2. CASE UNCHANGED task
      <3>1. Running' = Running
        BY <2>2 DEF Running
      <3>2. CASE Excl' <=> Excl
        BY <3>1, <3>2 DEF SX!sxVars
      <3>3. CASE ~Excl /\ Excl'
        <4>1. Running = {}
          BY <2>0, <3>1, <3>3 DEF IInv, Quiet
        <4>2. SX!BeginExclusive
          BY <3>1, <3>3, <4>1 DEF SX!BeginExclusive
        <4> QED
          BY <4>2 DEF SX!SXNext
      <3>4. CASE Excl /\ ~Excl'
        <4>1. SX!EndExclusive
          BY <3>1, <3>4 DEF SX!EndExclusive
        <4> QED
          BY <4>1 DEF SX!SXNext
      <3> QED
        BY <3>2, <3>3, <3>4
    <2>3. UNCHANGED task \/ \E t \in Tasks : Prepare(t) \/ Admit(t) \/ AdmitAuxiliary(t) \/ Finish(t)
      BY DEF Next, vars, SetDefault, BootStep, BootRequested, BootRecord, BootResolve, Activate, ActivateBegin,
         ActivateFail, Commit, Publish, DeleteRead, DeleteStep, DeleteBegin, DeleteFail, Remove,
         ClearSelection, ClearLive
    <2> QED
      BY <2>1, <2>2, <2>3
  <1> QED
    BY <1>1, <1>2, Invariance, PTL DEF Spec, BarrierIsSharedExclusive, SX!SXSpec

-----------------------------------------------------------------------------
(* The channel of a native session                                          *)

\* What the channel operations return.
LEMMA QueueOps ==
  ASSUME NEW S, NEW q \in Seq(S)
  PROVE  /\ Len(q) \in Nat
         /\ \A e \in S : Append(q, e) \in Seq(S) /\ Len(Append(q, e)) = Len(q) + 1
         /\ RestOf(q) \in Seq(S)
         /\ q = <<>> <=> Len(q) = 0
         /\ q # <<>> => Head(q) \in S /\ Tail(q) \in Seq(S) /\ Len(Tail(q)) = Len(q) - 1
  BY DEF RestOf

LEMMA EmptyQueue == ASSUME NEW S PROVE <<>> \in Seq(S) /\ Len(<<>>) = 0
  OBVIOUS

LEMMA KindsAre == "Audio" \in Kinds /\ "Poll" \in Kinds /\ "Finish" \in Kinds
  BY DEF Kinds

\* Where an outcome may leave the task.
Settled == {"drain", "await", "closed", "label", "relabel", "lastLabel"}

\* An applied outcome leaves the task there.
LEMMA OutcomeEnds ==
  ASSUME Drain \/ Await
  PROVE  \E next \in Settled : ApplyOutcome(next)
<1>1. CASE Drain
  BY <1>1 DEF Drain, MayStage, Settled
<1>2. CASE Await
  <2>1. PICK next : /\ next \in {"closed", "lastLabel", "await", "relabel"}
                    /\ ApplyOutcome(next)
    BY <1>2 DEF Await, MayStage
  <2> QED
    BY <2>1 DEF Settled
<1> QED
  BY <1>1, <1>2

\* Where a send leaves the task.
LEMMA SendEnds ==
  ASSUME SendPending
  PROVE  \/ ws = "poll" /\ Send("Poll", "select")
         \/ ws = "audio" /\ \E next \in {"message", "detect"} : Send("Audio", next)
         \/ ws = "stop" /\ Send("Finish", "await")
  BY DEF SendPending, MayStage

\* A stage goes on where it interrupted the task.
LEMMA StageEnds ==
  ASSUME Stage
  PROVE  /\ ws \in SpeakerStages
         /\ ws' \in {"message", "drain", "await", "closed"}
         /\ ws' = "message" => ws = "detect"
  BY DEF Stage, AfterStage, SpeakerStages

\* ChannelTypeOK holds in every reachable state.
THEOREM ChannelTypeCorrect == ChannelSpec => []ChannelTypeOK
<1>1. ChannelInit => ChannelTypeOK
  <2> SUFFICES ASSUME ChannelInit PROVE ChannelTypeOK
    OBVIOUS
  <2>1. <<>> \in Seq(Kinds) /\ <<>> \in Seq(Kinds \cup {"Error"})
    BY EmptyQueue
  <2> QED
    <3>1. canceled \in BOOLEAN /\ abandoned \in BOOLEAN /\ resumed \in BOOLEAN
      BY DEF ChannelInit
    <3>2. commands \in Seq(Kinds) /\ watchdogs \in Seq(Kinds) /\ outcomes \in Seq(Kinds \cup {"Error"})
      BY <2>1, Zenon DEF ChannelInit
    <3> QED
      BY <3>1, <3>2, KindsAre, ChannelAssumption DEF ChannelInit, ChannelTypeOK
<1>2. ChannelTypeOK /\ [ChannelNext]_channelVars => ChannelTypeOK'
  <2> SUFFICES ASSUME ChannelTypeOK, [ChannelNext]_channelVars PROVE ChannelTypeOK'
    OBVIOUS
  <2> USE ChannelAssumption DEF ChannelTypeOK, channel, token, Sending
  <2>a. /\ RestOf(watchdogs) \in Seq(Kinds)
        /\ outcomes # <<>> => Tail(outcomes) \in Seq(Kinds \cup {"Error"})
        /\ commands # <<>> => Head(commands) \in Kinds /\ Tail(commands) \in Seq(Kinds)
    BY QueueOps
  <2>b. /\ \A k \in Kinds : Append(commands, k) \in Seq(Kinds) /\ Append(watchdogs, k) \in Seq(Kinds)
        /\ \A k \in Kinds \cup {"Error"} : Append(outcomes, k) \in Seq(Kinds \cup {"Error"})
    BY QueueOps
  <2>c. <<>> \in Seq(Kinds)
    BY EmptyQueue
  <2>d. ASSUME NEW next \in Settled, ApplyOutcome(next) PROVE ChannelTypeOK'
    <3>1. canceled' \in BOOLEAN /\ abandoned' \in BOOLEAN /\ resumed' \in BOOLEAN
      BY <2>d DEF ApplyOutcome, Retire
    <3>2. ws' \in {"drain", "await", "closed"} \cup SpeakerStages
      BY <2>d DEF ApplyOutcome, Retire, Settled, SpeakerStages
    <3>3. polls' \in 0..1
      BY <2>d DEF ApplyOutcome
    <3> QED
      BY <2>a, <2>d, <3>1, <3>2, <3>3 DEF ApplyOutcome
  <2>1. CASE Drain \/ Await
    BY <2>d, <2>1, OutcomeEnds
  <2>2. CASE WorkerStopped
    BY <2>2 DEF WorkerStopped, Retire
  <2>3. CASE WatchdogFires
    BY <2>a, <2>3 DEF WatchdogFires, Retire
  <2>4. CASE Drained
    BY <2>4 DEF Drained
  <2>5. CASE Tick \/ Close
    BY <2>5 DEF Tick, Close
  <2>6. CASE Message \/ Frame
    BY <2>6 DEF Message, Frame
  <2>7. CASE SendPending
    <3>1. ASSUME NEW kind \in Kinds, NEW next \in {"select", "message", "detect", "await"}, Send(kind, next)
          PROVE  ChannelTypeOK'
      BY <2>b, <3>1 DEF Send, SpeakerStages
    <3> QED
      BY <2>7, <3>1, KindsAre, SendEnds
  <2>8. CASE Stage
    BY <2>8, StageEnds DEF Stage
  <2>9. CASE ClientCancel \/ Expire
    BY <2>9 DEF ClientCancel, Expire, Retire
  <2>14. CASE Disconnect
    BY <2>c, <2>14 DEF Disconnect
  <2>15. CASE Resume
    BY <2>15 DEF Resume
  <2>10. CASE Take \/ HangUp
    BY <2>a, <2>10 DEF Take, HangUp
  <2>11. CASE Return \/ Wedge \/ Unwedge \/ Panic
    BY <2>11 DEF Return, Wedge, Unwedge, Panic
  <2>12. CASE Answer
    BY <2>b, <2>12 DEF Answer
  <2>13. CASE UNCHANGED channelVars
    BY <2>13 DEF channelVars
  <2> QED
    BY <2>1, <2>2, <2>3, <2>4, <2>5, <2>6, <2>7, <2>8, <2>9, <2>10, <2>11, <2>12, <2>13,
       <2>14, <2>15
    DEF ChannelNext, TaskStep, WorkerStep, ClientStep
<1> QED
  BY <1>1, <1>2, PTL DEF ChannelSpec

-----------------------------------------------------------------------------
Hand == IF worker \in {"call", "wedged", "send"} THEN 1 ELSE 0

LEMMA UnansweredLength ==
  ASSUME ChannelTypeOK
  PROVE  Len(Unanswered) = Hand + Len(commands)
  BY DEF ChannelTypeOK, Unanswered, Held, Hand

LEMMA UnansweredLengthNext ==
  ASSUME ChannelTypeOK'
  PROVE  Len(Unanswered)' = Hand' + Len(commands')
  BY DEF ChannelTypeOK, Unanswered, Held, Hand

\* ChannelBound, with the length of what is unanswered written out.
Bound ==
  /\ Len(commands) <= CommandCap /\ Len(outcomes) <= OutcomeCap
  /\ Hand + Len(commands) + Len(outcomes) <= CommandCap + 1 + sent
  /\ ws = "poll" => sent = 0
  /\ ws \in {"select", "stop"} => sent <= 1
  /\ ws \in {"message", "detect"} => sent + left <= MessageCommands + 1
  /\ ws = "audio" => sent + left <= MessageCommands

LEMMA BoundIsChannelBound == ASSUME ChannelTypeOK PROVE Bound <=> ChannelBound
  BY UnansweredLength DEF Bound, ChannelBound

LEMMA OneMore ==
  ASSUME NEW n \in Nat, NEW m \in 0..n, NEW k \in Nat, k <= 1
  PROVE  k + m <= n + 1
  OBVIOUS

LEMMA BoundInit == ChannelInit => Bound
  BY EmptyQueue, ChannelAssumption DEF ChannelInit, Bound, Hand

\* One turn of the loop sends at most a Poll and the commands of a message,
\* and the outcomes were empty when it began.
LEMMA BoundStep == ChannelTypeOK /\ ChannelTypeOK' /\ Bound /\ [ChannelNext]_channelVars => Bound'
<1> SUFFICES ASSUME ChannelTypeOK, ChannelTypeOK', Bound, [ChannelNext]_channelVars PROVE Bound'
  OBVIOUS
<1> USE ChannelAssumption DEF Bound, Hand, channel, token
<1>t. /\ sent \in Nat /\ left \in 0..MessageCommands /\ left' \in 0..MessageCommands
      /\ Len(commands) \in Nat /\ Len(outcomes) \in Nat
      /\ commands = <<>> <=> Len(commands) = 0
      /\ outcomes = <<>> <=> Len(outcomes) = 0
      /\ commands # <<>> => Len(Tail(commands)) = Len(commands) - 1
      /\ outcomes # <<>> => Len(Tail(outcomes)) = Len(outcomes) - 1
  BY QueueOps DEF ChannelTypeOK
<1>s. \A k \in Kinds : Len(Append(commands, k)) = Len(commands) + 1
  BY QueueOps DEF ChannelTypeOK
<1>o. \A k \in Kinds \cup {"Error"} : Len(Append(outcomes, k)) = Len(outcomes) + 1
  BY QueueOps DEF ChannelTypeOK
<1>d. ASSUME NEW next \in Settled, ApplyOutcome(next) PROVE Bound'
  <2>1. ws' \in Settled
    BY <1>d DEF ApplyOutcome, Retire, Settled
  <2> QED
    BY <1>t, <1>d, <2>1 DEF ApplyOutcome, Settled
<1>1. CASE Drain \/ Await
  BY <1>d, <1>1, OutcomeEnds
<1>2. CASE Stage
  BY <1>t, <1>2, StageEnds DEF Stage
<1>3. CASE WorkerStopped
  BY <1>t, <1>3 DEF WorkerStopped, Retire
<1>4. CASE WatchdogFires
  BY <1>t, <1>4 DEF WatchdogFires, Retire
<1>5. CASE Drained
  BY <1>t, <1>5 DEF Drained
<1>6. CASE Tick \/ Close
  BY <1>t, <1>6 DEF Tick, Close
<1>7. CASE Message \/ Frame
  <2>1. UNCHANGED <<commands, outcomes, sent>> /\ Hand' = Hand
    BY <1>7 DEF Message, Frame
  <2> HIDE DEF Hand
  <2>2. CASE Message
    <3>1. ws' = "message" /\ sent <= 1
      BY <2>2 DEF Message
    <3>2. sent' + left' <= MessageCommands + 1
      BY <1>t, <2>1, <3>1, OneMore
    <3> QED
      BY <2>1, <3>1, <3>2
  <2>3. CASE Frame
    <3>1. CASE left = 0 /\ ws' = "drain"
      BY <2>1, <3>1
    <3>2. CASE ws = "message" /\ ws' = "audio" /\ left' = left - 1
      BY <1>t, <2>1, <3>2
    <3> QED
      BY <2>3, <3>1, <3>2 DEF Frame
  <2> QED
    BY <1>7, <2>2, <2>3
<1>8. CASE SendPending
  <2>1. CASE ws = "poll" /\ Send("Poll", "select")
    BY <1>t, <1>s, <2>1, KindsAre DEF Send
  <2>2. ASSUME NEW next \in {"message", "detect"}, ws = "audio", Send("Audio", next) PROVE Bound'
    BY <1>t, <1>s, <2>2, KindsAre DEF Send
  <2>3. CASE ws = "stop" /\ Send("Finish", "await")
    BY <1>t, <1>s, <2>3, KindsAre DEF Send
  <2> QED
    BY <1>8, <2>1, <2>2, <2>3, SendEnds
<1>9. CASE ClientCancel \/ Expire
  BY <1>t, <1>9 DEF ClientCancel, Expire, Retire
<1>10. CASE Disconnect \/ Resume
  BY <1>t, <1>10 DEF Disconnect, Resume
<1>11. CASE Take \/ HangUp
  BY <1>t, <1>11 DEF Take, HangUp
<1>12. CASE Return \/ Wedge \/ Unwedge \/ Panic
  BY <1>t, <1>12 DEF Return, Wedge, Unwedge, Panic
<1>13. CASE Answer
  <2>1. CASE worker' = "done" /\ UNCHANGED outcomes
    BY <1>t, <1>13, <2>1 DEF Answer
  <2>2. CASE /\ Len(outcomes) < OutcomeCap
             /\ \E o \in {busy, "Error"} : outcomes' = Append(outcomes, o)
    <3>1. Len(outcomes') = Len(outcomes) + 1
      BY <1>o, <2>2 DEF ChannelTypeOK
    <3>2. worker' \in {"recv", "done"} /\ worker = "send"
      BY <1>13 DEF Answer
    <3>3. ws' = ws /\ left' = left /\ Len(commands') = Len(commands) /\ sent' = sent
      BY <1>13 DEF Answer
    <3>4. Len(outcomes) < OutcomeCap
      BY <2>2
    <3>5. Hand = 1 /\ Hand' = 0
      BY <3>2
    <3>6. Len(commands') <= CommandCap /\ Len(outcomes') <= OutcomeCap
      BY <1>t, <3>1, <3>3, <3>4
    <3>7. 1 + Len(commands) + Len(outcomes) <= CommandCap + 1 + sent
      BY <3>5
    <3>8. Len(commands') + Len(outcomes') <= CommandCap + 1 + sent'
      BY <1>t, <3>1, <3>3, <3>7
    <3>9. Hand' + Len(commands') + Len(outcomes') <= CommandCap + 1 + sent'
      <4> HIDE DEF Hand, Bound
      <4>1. Len(commands') \in Nat /\ Len(outcomes') \in Nat
        BY <1>t, <3>1, <3>3
      <4> QED
        BY <3>5, <3>8, <4>1
    <3> QED
      BY <3>3, <3>6, <3>9
  <2> QED
    BY <1>13, <2>1, <2>2 DEF Answer
<1>14. CASE UNCHANGED channelVars
  BY <1>14 DEF channelVars
<1> QED
  BY <1>1, <1>2, <1>3, <1>4, <1>5, <1>6, <1>7, <1>8, <1>9, <1>10, <1>11, <1>12, <1>13, <1>14
  DEF ChannelNext, TaskStep, WorkerStep, ClientStep

\* ChannelBound, which says that the channels hold no more than what was there
\* at the last drain and what was sent since, is an invariant.
THEOREM ChannelBoundHolds == ChannelSpec => []ChannelBound
<1>1. ChannelTypeOK /\ ChannelTypeOK' /\ Bound /\ [ChannelNext]_channelVars => Bound'
  BY BoundStep
<1>2. ChannelTypeOK /\ Bound => ChannelBound
  BY BoundIsChannelBound
<1> QED
  BY <1>1, <1>2, BoundInit, ChannelTypeCorrect, PTL DEF ChannelSpec

\* The task and the decode thread never wait for room in each other's channel,
\* for any capacities that leave room for one turn of the loop.
THEOREM NoMutualWaitHolds == ChannelSpec => []NoMutualWait
<1>1. ChannelTypeOK /\ ChannelBound => NoMutualWait
  <2> SUFFICES ASSUME ChannelTypeOK, Bound, Blocked, worker = "send", Len(outcomes) = OutcomeCap
               PROVE  FALSE
    BY BoundIsChannelBound DEF NoMutualWait
  <2>1. ws = "poll" \/ ws = "audio" \/ ws = "stop"
    BY DEF Blocked, Sending
  <2>2. sent <= MessageCommands
    BY <2>1, ChannelAssumption DEF Bound, ChannelTypeOK
  <2>3. OutcomeCap <= sent
    BY ChannelAssumption DEF Bound, Hand, Blocked, ChannelTypeOK
  <2> QED
    BY <2>2, <2>3, ChannelAssumption DEF ChannelTypeOK
<1> QED
  BY <1>1, ChannelTypeCorrect, ChannelBoundHolds, PTL

-----------------------------------------------------------------------------
\* InFlightIsWatched entry by entry: Hand first, then the command channel.
Watched ==
  Connected /\ worker # "done" /\ ~resumed =>
    /\ Len(watchdogs) = Len(outcomes) + Hand + Len(commands)
    /\ Hand = 1 => watchdogs[Len(outcomes) + 1] = busy
    /\ \A i \in 1..Len(commands) : watchdogs[Len(outcomes) + Hand + i] = commands[i]

LEMMA WatchedIsInFlight == ASSUME ChannelTypeOK PROVE Watched => InFlightIsWatched
<1> SUFFICES ASSUME Watched, Connected, worker # "done", ~resumed
             PROVE  /\ Len(watchdogs) = Len(outcomes) + Len(Unanswered)
                    /\ \A i \in 1..Len(Unanswered) : watchdogs[Len(outcomes) + i] = Unanswered[i]
  BY DEF InFlightIsWatched
<1>1. Len(watchdogs) = Len(outcomes) + Len(Unanswered)
  BY UnansweredLength DEF Watched, ChannelTypeOK, Hand
<1>2. ASSUME NEW i \in 1..Len(Unanswered) PROVE watchdogs[Len(outcomes) + i] = Unanswered[i]
  <2>1. CASE worker \in {"call", "wedged", "send"} /\ i = 1
    BY <2>1, UnansweredLength DEF Watched, ChannelTypeOK, Hand, Unanswered, Held
  <2>2. CASE worker \in {"call", "wedged", "send"} /\ i # 1
    <3>1. i - 1 \in 1..Len(commands) /\ Hand = 1
      BY <2>2, UnansweredLength DEF ChannelTypeOK, Hand
    <3>2. watchdogs[Len(outcomes) + 1 + (i - 1)] = commands[i - 1]
      BY <3>1 DEF Watched
    <3>3. Unanswered[i] = commands[i - 1]
      BY <2>2, <3>1, UnansweredLength DEF ChannelTypeOK, Unanswered, Held
    <3>4. Len(outcomes) + 1 + (i - 1) = Len(outcomes) + i
      BY <3>1 DEF ChannelTypeOK
    <3> QED
      BY <3>2, <3>3, <3>4
  <2>3. CASE worker \notin {"call", "wedged", "send"}
    BY <2>3, UnansweredLength DEF Watched, ChannelTypeOK, Hand, Unanswered, Held
  <2> QED
    BY <2>1, <2>2, <2>3
<1> QED
  BY <1>1, <1>2

LEMMA WatchedInit == ChannelInit => Watched
  BY EmptyQueue DEF ChannelInit, Watched, Hand

\* A send appends to both ends, an outcome pops both, and taking a command
\* moves it from the channel into the hand.
LEMMA WatchedStep == ChannelTypeOK /\ ChannelTypeOK' /\ Watched /\ [ChannelNext]_channelVars => Watched'
<1> SUFFICES ASSUME ChannelTypeOK, ChannelTypeOK', Watched, [ChannelNext]_channelVars,
                    Connected', worker' # "done", ~resumed'
             PROVE  /\ Len(watchdogs') = Len(outcomes') + Hand' + Len(commands')
                    /\ Hand' = 1 => watchdogs'[Len(outcomes') + 1] = busy'
                    /\ \A i \in 1..Len(commands') :
                         watchdogs'[Len(outcomes') + Hand' + i] = commands'[i]
  BY DEF Watched
<1> DEFINE W == /\ Len(watchdogs') = Len(outcomes') + Hand' + Len(commands')
                /\ Hand' = 1 => watchdogs'[Len(outcomes') + 1] = busy'
                /\ \A i \in 1..Len(commands') :
                     watchdogs'[Len(outcomes') + Hand' + i] = commands'[i]
<1> SUFFICES W
  OBVIOUS
<1> USE DEF channel, token
<1>same. ASSUME UNCHANGED <<commands, outcomes, watchdogs, busy, resumed>>, Hand' = Hand,
                Connected, worker # "done"
         PROVE  W
  BY <1>same DEF Watched
<1>d. ASSUME NEW next, ApplyOutcome(next), Connected PROVE W
  <2>1. /\ outcomes # <<>> /\ outcomes' = Tail(outcomes)
        /\ watchdogs' = RestOf(watchdogs)
        /\ UNCHANGED <<commands, worker, busy, resumed>>
    BY <1>d DEF ApplyOutcome
  <2>2. /\ Len(watchdogs) = Len(outcomes) + Hand + Len(commands)
        /\ Hand = 1 => watchdogs[Len(outcomes) + 1] = busy
        /\ \A i \in 1..Len(commands) : watchdogs[Len(outcomes) + Hand + i] = commands[i]
    BY <1>d, <2>1 DEF Watched
  <2>3. Hand' = Hand /\ Hand \in 0..1
    BY <2>1 DEF Hand
  <2>4. watchdogs # <<>> /\ watchdogs' = Tail(watchdogs)
    BY <2>1, <2>2, <2>3 DEF RestOf, ChannelTypeOK
  <2>5. /\ Len(outcomes') = Len(outcomes) - 1 /\ Len(watchdogs') = Len(watchdogs) - 1
        /\ \A j \in 1..Len(watchdogs') : watchdogs'[j] = watchdogs[j + 1]
    BY <2>1, <2>4 DEF ChannelTypeOK
  <2>6. Len(outcomes') \in Nat /\ Len(commands) \in Nat /\ Len(watchdogs') \in Nat
    BY DEF ChannelTypeOK
  <2>7. Len(watchdogs') = Len(outcomes') + Hand + Len(commands)
    BY <2>2, <2>3, <2>5, <2>6
  <2>8. Hand = 1 => watchdogs'[Len(outcomes') + 1] = busy
    BY <2>2, <2>5, <2>6, <2>7
  <2>9. ASSUME NEW i \in 1..Len(commands) PROVE watchdogs'[Len(outcomes') + Hand + i] = commands[i]
    <3>1. /\ Len(outcomes') + Hand + i \in 1..Len(watchdogs')
          /\ Len(outcomes') + Hand + i + 1 = Len(outcomes) + Hand + i
      BY <2>3, <2>5, <2>6, <2>7
    <3> QED
      BY <2>2, <2>5, <3>1
  <2> QED
    BY <2>1, <2>3, <2>7, <2>8, <2>9
<1>1. CASE Drain \/ Await
  <2>1. Connected
    BY <1>1 DEF Drain, Await, Connected
  <2> QED
    BY <1>1, <1>d, <2>1, OutcomeEnds
<1>2. CASE Stage
  <2>1. UNCHANGED <<commands, outcomes, watchdogs, busy, worker, resumed>> /\ Connected
    BY <1>2, StageEnds DEF Stage, Connected, SpeakerStages
  <2> QED
    BY <1>same, <2>1 DEF Hand
<1>3. CASE WorkerStopped \/ WatchdogFires \/ ClientCancel \/ Expire \/ Disconnect \/ Resume
  BY <1>3 DEF WorkerStopped, WatchdogFires, ClientCancel, Expire, Disconnect, Resume, Retire,
              Connected
<1>4. CASE Drained \/ Tick \/ Close \/ Message \/ Frame
  <2>1. UNCHANGED <<commands, outcomes, watchdogs, busy, worker, resumed>> /\ Connected
    BY <1>4 DEF Drained, Tick, Close, Message, Frame, Connected
  <2> QED
    BY <1>same, <2>1 DEF Hand
<1>5. ASSUME NEW kind \in Kinds, NEW next, Send(kind, next), Connected PROVE W
  <2>1. /\ commands' = Append(commands, kind) /\ watchdogs' = Append(watchdogs, kind)
        /\ UNCHANGED <<outcomes, worker, busy, resumed>>
    BY <1>5 DEF Send
  <2>2. /\ Len(watchdogs) = Len(outcomes) + Hand + Len(commands)
        /\ Hand = 1 => watchdogs[Len(outcomes) + 1] = busy
        /\ \A i \in 1..Len(commands) : watchdogs[Len(outcomes) + Hand + i] = commands[i]
    BY <1>5, <2>1 DEF Watched
  <2>3. Hand' = Hand /\ Hand \in 0..1
    BY <2>1 DEF Hand
  <2>4. /\ Len(commands) \in Nat /\ Len(outcomes) \in Nat /\ Len(watchdogs) \in Nat
        /\ Len(commands') = Len(commands) + 1 /\ Len(watchdogs') = Len(watchdogs) + 1
        /\ commands'[Len(commands) + 1] = kind /\ watchdogs'[Len(watchdogs) + 1] = kind
        /\ \A j \in 1..Len(commands) : commands'[j] = commands[j]
        /\ \A j \in 1..Len(watchdogs) : watchdogs'[j] = watchdogs[j]
    BY <1>5, <2>1 DEF ChannelTypeOK
  <2>5. Len(watchdogs') = Len(outcomes) + Hand + Len(commands')
    BY <2>2, <2>3, <2>4
  <2>6. Hand = 1 => watchdogs'[Len(outcomes) + 1] = busy
    BY <2>2, <2>4
  <2>7. ASSUME NEW i \in 1..Len(commands') PROVE watchdogs'[Len(outcomes) + Hand + i] = commands'[i]
    <3>1. CASE i = Len(commands) + 1
      BY <2>2, <2>3, <2>4, <3>1
    <3>2. CASE i # Len(commands) + 1
      <4>1. i \in 1..Len(commands) /\ Len(outcomes) + Hand + i \in 1..Len(watchdogs)
        BY <2>2, <2>3, <2>4, <3>2
      <4> QED
        BY <2>2, <2>4, <4>1
    <3> QED
      BY <3>1, <3>2
  <2> QED
    BY <2>1, <2>3, <2>5, <2>6, <2>7
<1>6. CASE SendPending
  <2>1. Connected
    BY <1>6, SendEnds DEF Connected
  <2> QED
    BY <1>5, <1>6, <2>1, KindsAre, SendEnds
<1>7. CASE Take
  <2>1. /\ commands # <<>> /\ commands' = Tail(commands) /\ busy' = Head(commands)
        /\ Hand' = 1 /\ Hand = 0 /\ UNCHANGED <<outcomes, watchdogs, ws, resumed>>
        /\ worker # "done"
    BY <1>7 DEF Take, Hand
  <2>2. /\ Len(watchdogs) = Len(outcomes) + Len(commands)
        /\ \A i \in 1..Len(commands) : watchdogs[Len(outcomes) + i] = commands[i]
    BY <2>1 DEF Watched, Connected, ChannelTypeOK
  <2> QED
    BY <2>1, <2>2 DEF ChannelTypeOK
<1>8. CASE HangUp \/ Return \/ Wedge \/ Unwedge \/ Panic
  <2>1. /\ UNCHANGED <<commands, outcomes, watchdogs, busy, resumed, ws>>
        /\ worker # "done" /\ Hand' = Hand
    BY <1>8 DEF HangUp, Return, Wedge, Unwedge, Panic, Hand
  <2> QED
    BY <1>same, <2>1 DEF Connected
<1>9. CASE Answer
  <2>1. PICK o : outcomes' = Append(outcomes, o)
    BY <1>9 DEF Answer
  <2>2. /\ worker = "send" /\ worker' = "recv"
        /\ UNCHANGED <<ws, commands, watchdogs, busy, resumed>>
    BY <1>9 DEF Answer
  <2>3. /\ Len(watchdogs) = Len(outcomes) + 1 + Len(commands)
        /\ \A i \in 1..Len(commands) : watchdogs[Len(outcomes) + 1 + i] = commands[i]
    BY <2>2 DEF Watched, Connected, Hand
  <2>4. Len(outcomes') = Len(outcomes) + 1 /\ Hand' = 0
    BY <2>1, <2>2 DEF Hand, ChannelTypeOK
  <2> QED
    BY <2>2, <2>3, <2>4 DEF ChannelTypeOK
<1>10. CASE UNCHANGED channelVars
  BY <1>10, <1>same DEF channelVars, Hand, Connected
<1> QED
  BY <1>1, <1>2, <1>3, <1>4, <1>6, <1>7, <1>8, <1>9, <1>10
  DEF ChannelNext, TaskStep, WorkerStep, ClientStep

\* Until the session is parked, every command in flight has its watchdog entry,
\* in the order of the outcomes.
THEOREM InFlightIsWatchedHolds == ChannelSpec => []InFlightIsWatched
<1>1. ChannelTypeOK /\ ChannelTypeOK' /\ Watched /\ [ChannelNext]_channelVars => Watched'
  BY WatchedStep
<1>2. ChannelTypeOK /\ Watched => InFlightIsWatched
  BY WatchedIsInFlight
<1> QED
  BY <1>1, <1>2, WatchedInit, ChannelTypeCorrect, PTL DEF ChannelSpec

=============================================================================
