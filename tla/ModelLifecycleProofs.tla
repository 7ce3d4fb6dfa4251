------------------------ MODULE ModelLifecycleProofs ------------------------
(***************************************************************************)
(* Theorems about how a model gets onto the disk and out of memory: the    *)
(* jobs that pull it (PullJobs) and the in-use tracker with its idle       *)
(* unload (IdleUnload).                                                    *)
(*                                                                         *)
(* PullJobs, for any number of requests, restarts and failed snapshot      *)
(* writes, from the inductive invariant PullInv.                           *)
(*                                                                         *)
(* IdleUnload, for any finite set of sessions, any set of runtimes and any *)
(* finite set of thresholds. IInv is the inductive invariant; every safety *)
(* theorem and the refinement follow from it.                              *)
(***************************************************************************)
EXTENDS PullJobs, IdleUnload, TLAPS

\* A worker that has been spawned and has not left.
Lives(w) == worker[w] \notin {"none", "done"}

\* From the acquisition of the permit to the record of the outcome.
Downloads(w) == worker[w] \in {"guard", "start", "download", "paused"} \cup Terminal

\* Unless a paused job was resumed, the only live worker is the registered one.
OnlyActiveLives == (\A r \in Resumers : resume[r] # "resumed") => \A w \in Workers : Lives(w) => jobs_active = w

\* A worker downloads with the permit of its home.
PermitHeld == \A w \in Workers : Downloads(w) => permit = w

\* The downloads of a home take turns (the pull permit): two workers of a job,
\* which a resume can leave behind, never write to the same partial file.
DownloadsTakeTurns == \A v, w \in Workers : Downloads(v) /\ Downloads(w) => v = w

\* The inductive invariant.
PullInv == PullTypeOK /\ OnlyActiveLives /\ PermitHeld /\ RestartKeepsOutcome

-----------------------------------------------------------------------------

\* What a snapshot becomes on load is a snapshot, and an outcome stays.
LEMMA LoadedType ==
  ASSUME NEW s \in Snapshots
  PROVE  Loaded(s) \in Snapshots /\ (s.state \in Terminal => Loaded(s) = s)
  BY DEF Loaded, Snapshot, Snapshots, States, Terminal, Resumable

\* A write of the store keeps it well formed, and an outcome in memory is the
\* one that a restart finds.
LEMMA StoreStep ==
  ASSUME NEW s \in Snapshots, Update(s), mem \in Snapshots, disk \in Snapshots, failures \in 0..MaxFailures,
         RestartKeepsOutcome
  PROVE  mem' \in Snapshots /\ disk' \in Snapshots /\ failures' \in 0..MaxFailures /\ RestartKeepsOutcome'
<1>1. CASE Write(s)
  BY <1>1, LoadedType DEF Write, RestartKeepsOutcome
<1>2. CASE WriteFails
  <2>1. failures' \in 0..MaxFailures
    BY <1>2, PullAssumption DEF WriteFails
  <2>2. mem' = mem /\ disk' = disk
    BY <1>2 DEF WriteFails
  <2> QED
    BY <2>1, <2>2 DEF RestartKeepsOutcome, Loaded
<1> QED
  BY <1>1, <1>2 DEF Update

StoreOK == mem \in Snapshots /\ disk \in Snapshots /\ failures \in 0..MaxFailures /\ RestartKeepsOutcome

\* Every action updates the store, keeps it, or loads it.
LEMMA StoreNext == PullInv /\ [PullNext]_pullVars => StoreOK'
<1> SUFFICES ASSUME PullInv, [PullNext]_pullVars PROVE StoreOK'
  OBVIOUS
<1>0. StoreOK
  BY DEF PullInv, PullTypeOK, StoreOK
<1>1. ASSUME NEW s \in Snapshots, Update(s) PROVE StoreOK'
  BY <1>0, <1>1, StoreStep DEF StoreOK
<1>2. ASSUME UNCHANGED store PROVE StoreOK'
  BY <1>0, <1>2 DEF StoreOK, store, RestartKeepsOutcome, Loaded
<1>3. \A state \in States, control \in {"none", "cancel", "pause"} :
        /\ Snapshot(state, control) \in Snapshots
        /\ [mem EXCEPT !.control = control] \in Snapshots
  BY <1>0 DEF StoreOK, Snapshot, Snapshots
<1>4. ASSUME NEW w \in Workers, WorkerStep(w) PROVE StoreOK'
  <2>1. CASE Acquire(w)
    BY <1>1, <1>2, <1>3, <2>1 DEF Acquire, States, Terminal
  <2>2. CASE Start(w)
    BY <1>1, <1>3, <2>2 DEF Start, States, Resumable
  <2>3. CASE Progress(w)
    <3>1. PICK s \in {"downloading", "verifying"} :
                 Update(Snapshot(s, "none")) \/ (s = "downloading" /\ UpdateInMemory(Snapshot(s, "none")))
      BY <2>3 DEF Progress
    <3>2. Snapshot(s, "none") \in Snapshots
      BY <1>3 DEF States, Resumable
    <3>3. CASE s = "downloading" /\ UpdateInMemory(Snapshot(s, "none"))
      BY <1>0, <3>2, <3>3 DEF StoreOK, UpdateInMemory, Snapshot, RestartKeepsOutcome, Terminal
    <3> QED
      BY <1>1, <3>1, <3>2, <3>3
  <2>4. CASE Installed(w) \/ Record(w)
    BY <1>1, <1>3, <2>4 DEF Installed, Record, States, Terminal
  <2>5. CASE Guard(w) \/ Return(w) \/ Leave(w)
    BY <1>2, <2>5 DEF Guard, Return, Leave
  <2> QED
    BY <1>4, <2>1, <2>2, <2>3, <2>4, <2>5 DEF WorkerStep
<1>5. ASSUME NEW c \in Cancelers, CancelRead(c) \/ CancelStep(c) PROVE StoreOK'
  <2>1. CASE CancelRequest(c)
    BY <1>1, <1>3, <2>1 DEF CancelRequest, Update, States, Terminal
  <2>2. CASE CancelSettle(c)
    BY <1>1, <1>3, <2>2 DEF CancelSettle, States, Terminal
  <2> QED
    BY <1>2, <1>5, <2>1, <2>2 DEF CancelRead, CancelStep, CancelSignal
<1>6. ASSUME NEW p \in Pausers, PauseRead(p) \/ PauseStep(p) PROVE StoreOK'
  <2>1. CASE PauseRequest(p)
    BY <1>1, <1>3, <2>1 DEF PauseRequest, States
  <2> QED
    BY <1>2, <1>6, <2>1 DEF PauseRead, PauseStep, PauseSignal
<1>7. ASSUME NEW r \in Resumers, ResumeRead(r) \/ ResumeStep(r) PROVE StoreOK'
  <2>1. CASE Unpause(r)
    BY <1>1, <1>3, <2>1 DEF Unpause, Update, States, Resumable
  <2> QED
    BY <1>2, <1>7, <2>1 DEF ResumeRead, ResumeStep, ResumeLook, Register, Claim
<1>8. CASE Restart
  <2>1. Loaded(disk) \in Snapshots
    BY <1>0, LoadedType DEF StoreOK
  <2>2. mem' = Loaded(disk) /\ disk' = disk /\ failures' = failures
    BY <1>8 DEF Restart
  <2> QED
    BY <1>0, <2>1, <2>2 DEF StoreOK, RestartKeepsOutcome, Loaded
<1> QED
  BY <1>2, <1>4, <1>5, <1>6, <1>7, <1>8 DEF PullNext, pullVars

WorkerPhases == {"none", "spawned", "guard", "start", "download", "leave", "done"} \cup Terminal \cup {"paused"}
ResumePhases == {"new", "look", "unpause", "register", "claim", "resumed", "done"}

RegistryOK ==
  /\ jobs_active \in Workers \cup {None}
  /\ worker \in [Workers -> WorkerPhases]
  /\ jobs_active # None => Lives(jobs_active)
  /\ resume \in [Resumers -> ResumePhases]
  /\ OnlyActiveLives

\* Who is registered, and who lives: a claim needs an empty registry, a leaving
\* worker empties it, and a resume that overwrites it is the exception.
LEMMA RegistryNext == PullInv /\ [PullNext]_pullVars => RegistryOK'
<1> SUFFICES ASSUME PullInv, [PullNext]_pullVars PROVE RegistryOK'
  OBVIOUS
<1>0. RegistryOK
  BY DEF PullInv, PullTypeOK, RegistryOK, WorkerPhases, ResumePhases, Lives
<1>a. None \notin Workers /\ Resumers \subseteq Workers
  BY PullAssumption DEF Workers
<1> USE DEF OnlyActiveLives, Lives
\* A worker goes on.
<1>1. ASSUME NEW w \in Workers, NEW phase \in WorkerPhases \ {"none", "done"}, Lives(w), Work(w, phase),
             jobs_active' = jobs_active, resume' = resume
      PROVE  RegistryOK'
  <2>1. worker' \in [Workers -> WorkerPhases] /\ \A v \in Workers : Lives(v)' <=> Lives(v)
    BY <1>0, <1>1 DEF RegistryOK, Work
  <2> QED
    BY <1>0, <1>1, <2>1 DEF RegistryOK
<1>2. ASSUME UNCHANGED <<jobs_active, worker, resume>> PROVE RegistryOK'
  BY <1>0, <1>2 DEF RegistryOK
\* A resume goes on.
<1>3. ASSUME NEW r \in Resumers, NEW phase \in ResumePhases, resume[r] # "resumed", Resuming(r, phase),
             jobs_active' = jobs_active, worker' = worker
      PROVE  RegistryOK'
  <2>1. resume' \in [Resumers -> ResumePhases]
    BY <1>0, <1>3 DEF RegistryOK, Resuming
  <2>2. (\A q \in Resumers : resume'[q] # "resumed") => \A q \in Resumers : resume[q] # "resumed"
    BY <1>0, <1>3 DEF RegistryOK, Resuming
  <2> QED
    BY <1>0, <1>3, <2>1, <2>2 DEF RegistryOK
<1>4. ASSUME NEW w \in Workers, Leave(w) PROVE RegistryOK'
  <2>1. /\ worker[w] = "leave" /\ jobs_active' = None /\ worker' = [worker EXCEPT ![w] = "done"] /\ resume' = resume
    BY <1>4 DEF Leave, Work, requests
  <2> QED
    BY <1>0, <1>a, <2>1 DEF RegistryOK, WorkerPhases
<1>5. ASSUME NEW r \in Resumers, Register(r) PROVE RegistryOK'
  <2>1. /\ jobs_active' = r /\ worker' = [worker EXCEPT ![r] = "spawned"] /\ resume' = [resume EXCEPT ![r] = "resumed"]
    BY <1>5 DEF Register, Work, Resuming
  <2> QED
    BY <1>0, <1>a, <2>1 DEF RegistryOK, WorkerPhases, ResumePhases
<1>6. ASSUME NEW r \in Resumers, Claim(r) PROVE RegistryOK'
  <2>1. CASE jobs_active # None
    BY <1>3, <1>6, <2>1 DEF Claim, ResumePhases
  <2>2. CASE jobs_active = None
    <3>1. /\ jobs_active' = r /\ worker' = [worker EXCEPT ![r] = "spawned"] /\ resume' = [resume EXCEPT ![r] = "done"]
          /\ resume[r] = "claim"
      BY <1>6, <2>2 DEF Claim, Work, Resuming
    <3>2. (\A q \in Resumers : resume'[q] # "resumed") => \A w \in Workers : ~Lives(w)
      BY <1>0, <1>a, <2>2, <3>1 DEF RegistryOK
    <3>3. worker' \in [Workers -> WorkerPhases] /\ \A v \in Workers : v # r => worker'[v] = worker[v]
      BY <1>0, <1>a, <3>1 DEF RegistryOK, WorkerPhases
    <3>4. worker'[r] = "spawned" /\ resume' \in [Resumers -> ResumePhases]
      BY <1>0, <1>a, <3>1 DEF RegistryOK, ResumePhases
    <3> QED
      BY <1>a, <3>1, <3>2, <3>3, <3>4 DEF RegistryOK
  <2> QED
    BY <2>1, <2>2
<1>7. ASSUME NEW w \in Workers, WorkerStep(w) PROVE RegistryOK'
  <2>1. CASE Acquire(w) \/ Guard(w) \/ Start(w) \/ Installed(w)
    BY <1>1, <2>1 DEF Acquire, Guard, Start, Installed, WorkerPhases, Terminal, requests
  <2>2. CASE Return(w)
    <3>1. PICK outcome \in Terminal \cup {"paused"} : Work(w, outcome)
      BY <2>2 DEF Return, Terminal
    <3> QED
      BY <1>1, <2>2, <3>1 DEF Return, WorkerPhases, Terminal, requests
  <2>3. CASE Record(w)
    BY <1>1, <2>3 DEF Record, WorkerPhases, Terminal, requests
  <2> QED
    BY <1>2, <1>4, <1>7, <2>1, <2>2, <2>3 DEF WorkerStep, Progress, requests
<1>8. ASSUME NEW c \in Cancelers, CancelRead(c) \/ CancelStep(c) PROVE RegistryOK'
  BY <1>2, <1>8 DEF CancelRead, CancelStep, CancelSignal, CancelRequest, CancelSettle
<1>9. ASSUME NEW p \in Pausers, PauseRead(p) \/ PauseStep(p) PROVE RegistryOK'
  BY <1>2, <1>9 DEF PauseRead, PauseStep, PauseSignal, PauseRequest
<1>10. ASSUME NEW r \in Resumers, ResumeRead(r) \/ ResumeStep(r) PROVE RegistryOK'
  <2>1. CASE ResumeRead(r) \/ ResumeLook(r) \/ Unpause(r)
    BY <1>3, <2>1 DEF ResumeRead, ResumeLook, Unpause, ResumePhases
  <2> QED
    BY <1>5, <1>6, <1>10, <2>1 DEF ResumeStep
<1>11. CASE Restart
  BY <1>0, <1>11 DEF Restart, RegistryOK, WorkerPhases, ResumePhases
<1> QED
  BY <1>2, <1>7, <1>8, <1>9, <1>10, <1>11 DEF PullNext, pullVars, requests

PermitOK == permit \in Workers \cup {None} /\ PermitHeld

\* The permit is taken before a worker looks at the job and dropped after its
\* outcome is recorded, or when it leaves.
LEMMA PermitNext == PullInv /\ [PullNext]_pullVars => PermitOK'
<1> SUFFICES ASSUME PullInv, [PullNext]_pullVars PROVE PermitOK'
  OBVIOUS
<1>0. PermitOK /\ worker \in [Workers -> WorkerPhases]
  BY DEF PullInv, PullTypeOK, PermitOK, WorkerPhases
<1>a. None \notin Workers /\ Resumers \subseteq Workers
  BY PullAssumption DEF Workers
<1> USE DEF PermitHeld, Downloads
<1>1. ASSUME UNCHANGED <<permit, worker>> PROVE PermitOK'
  BY <1>0, <1>1 DEF PermitOK
<1>2. ASSUME NEW w \in Workers, Acquire(w) PROVE PermitOK'
  <2>1. permit = None /\ permit' = w /\ \A v \in Workers : v # w => worker'[v] = worker[v]
    BY <1>0, <1>2 DEF Acquire, Work
  <2> QED
    BY <1>0, <1>a, <2>1 DEF PermitOK
<1>3. ASSUME NEW w \in Workers, Downloads(w), permit' = permit, NEW phase, Work(w, phase) PROVE PermitOK'
  BY <1>0, <1>3 DEF PermitOK, Work
<1>4. ASSUME NEW w \in Workers, Record(w) PROVE PermitOK'
  <2>1. Downloads(w) /\ permit' = None /\ worker' = [worker EXCEPT ![w] = "leave"]
    BY <1>4 DEF Record, Work
  <2> QED
    BY <1>0, <1>a, <2>1 DEF PermitOK, Terminal
<1>5. ASSUME NEW w \in Workers, Leave(w) PROVE PermitOK'
  <2>1. permit' = (IF permit = w THEN None ELSE permit) /\ worker' = [worker EXCEPT ![w] = "done"]
    BY <1>5 DEF Leave, Work
  <2> QED
    BY <1>0, <1>a, <2>1 DEF PermitOK, Terminal
<1>6. ASSUME NEW w \in Workers, WorkerStep(w) PROVE PermitOK'
  <2>1. CASE Guard(w) \/ Start(w)
    BY <1>3, <2>1 DEF Guard, Start
  <2>2. CASE Installed(w) \/ Return(w)
    BY <1>3, <2>2 DEF Installed, Return
  <2> QED
    BY <1>1, <1>2, <1>4, <1>5, <1>6, <2>1, <2>2 DEF WorkerStep, Progress
<1>7. ASSUME NEW r \in Resumers, Register(r) \/ Claim(r) PROVE PermitOK'
  <2>1. permit' = permit /\ worker' \in {worker, [worker EXCEPT ![r] = "spawned"]}
    BY <1>7 DEF Register, Claim, Work
  <2> QED
    BY <1>0, <1>a, <2>1 DEF PermitOK, Terminal
<1>8. CASE Restart
  BY <1>0, <1>8 DEF Restart, PermitOK, Terminal
<1>9. ASSUME NEW c \in Cancelers, CancelRead(c) \/ CancelStep(c) PROVE PermitOK'
  BY <1>1, <1>9 DEF CancelRead, CancelStep, CancelSignal, CancelRequest, CancelSettle
<1>10. ASSUME NEW p \in Pausers, PauseRead(p) \/ PauseStep(p) PROVE PermitOK'
  BY <1>1, <1>10 DEF PauseRead, PauseStep, PauseSignal, PauseRequest
<1>11. ASSUME NEW r \in Resumers, ResumeRead(r) \/ ResumeStep(r) PROVE PermitOK'
  BY <1>1, <1>7, <1>11 DEF ResumeRead, ResumeStep, ResumeLook, Unpause
<1> QED
  BY <1>1, <1>6, <1>8, <1>9, <1>10, <1>11 DEF PullNext, pullVars

RequestsOK ==
  /\ cancel \subseteq Workers /\ pause \subseteq Workers
  /\ canceler \in [Cancelers -> {"new", "signal", "request", "settle", "accepted", "done"}]
  /\ pauser \in [Pausers -> {"new", "signal", "request", "done"}]
  /\ restarts \in 0..MaxRestarts

\* Flags are set for registered workers only.
LEMMA RequestsNext == PullInv /\ [PullNext]_pullVars => RequestsOK'
<1> SUFFICES ASSUME PullInv, [PullNext]_pullVars PROVE RequestsOK'
  OBVIOUS
<1>0. RequestsOK /\ jobs_active \in Workers \cup {None}
  BY DEF PullInv, PullTypeOK, RequestsOK
<1>1. ASSUME UNCHANGED <<cancel, pause, canceler, pauser, restarts>> PROVE RequestsOK'
  BY <1>0, <1>1 DEF RequestsOK
<1>2. ASSUME NEW w \in Workers, WorkerStep(w) PROVE RequestsOK'
  BY <1>1, <1>2 DEF WorkerStep, Acquire, Guard, Start, Progress, Installed, Return, Record, Leave, requests
<1>3. ASSUME NEW r \in Resumers, ResumeRead(r) \/ ResumeStep(r) PROVE RequestsOK'
  BY <1>1, <1>3 DEF ResumeRead, ResumeStep, ResumeLook, Unpause, Register, Claim
<1>4. ASSUME NEW c \in Cancelers, NEW phase \in {"signal", "request", "settle", "accepted", "done"},
             Canceling(c, phase), cancel' \subseteq Workers, UNCHANGED <<pause, pauser, restarts>>
      PROVE  RequestsOK'
  BY <1>0, <1>4 DEF RequestsOK, Canceling
<1>5. ASSUME NEW c \in Cancelers, CancelRead(c) \/ CancelStep(c) PROVE RequestsOK'
  <2>1. cancel' \subseteq Workers
    BY <1>0, <1>5 DEF RequestsOK, CancelRead, CancelStep, CancelSignal, CancelRequest, CancelSettle
  <2> QED
    BY <1>4, <1>5, <2>1 DEF CancelRead, CancelStep, CancelSignal, CancelRequest, CancelSettle
<1>6. ASSUME NEW p \in Pausers, NEW phase \in {"signal", "request", "done"},
             Pausing(p, phase), pause' \subseteq Workers, UNCHANGED <<cancel, canceler, restarts>>
      PROVE  RequestsOK'
  BY <1>0, <1>6 DEF RequestsOK, Pausing
<1>7. ASSUME NEW p \in Pausers, PauseRead(p) \/ PauseStep(p) PROVE RequestsOK'
  <2>1. pause' \subseteq Workers
    BY <1>0, <1>7 DEF RequestsOK, PauseRead, PauseStep, PauseSignal, PauseRequest
  <2> QED
    BY <1>6, <1>7, <2>1 DEF PauseRead, PauseStep, PauseSignal, PauseRequest
<1>8. CASE Restart
  <2>1. restarts' \in 0..MaxRestarts
    BY <1>0, <1>8, PullAssumption DEF RequestsOK, Restart
  <2> QED
    BY <1>0, <1>8, <2>1 DEF RequestsOK, Restart
<1> QED
  BY <1>1, <1>2, <1>3, <1>5, <1>7, <1>8 DEF PullNext, pullVars, requests

-----------------------------------------------------------------------------

\* The invariant holds in every reachable state.
THEOREM PullInvariance == PullSpec => []PullInv
<1>1. PullInit => PullInv
  <2> SUFFICES ASSUME PullInit PROVE PullInv
    OBVIOUS
  <2>1. mem \in Snapshots /\ disk \in Snapshots /\ RestartKeepsOutcome
    BY DEF PullInit, Snapshot, Snapshots, States, Resumable, Terminal, RestartKeepsOutcome
  <2>2. failures \in 0..MaxFailures /\ restarts \in 0..MaxRestarts
    BY PullAssumption DEF PullInit
  <2>3. PullTypeOK
    BY <2>1, <2>2, PullAssumption DEF PullInit, PullTypeOK, Workers
  <2>4. OnlyActiveLives /\ PermitHeld
    BY DEF PullInit, OnlyActiveLives, PermitHeld, Lives, Downloads, Terminal
  <2> QED
    BY <2>1, <2>3, <2>4 DEF PullInv
<1>2. PullInv /\ [PullNext]_pullVars => PullInv'
  <2>1. StoreOK' /\ RegistryOK' /\ PermitOK' /\ RequestsOK' => PullTypeOK'
    BY DEF StoreOK, RegistryOK, PermitOK, RequestsOK, PullTypeOK, WorkerPhases, ResumePhases, Lives
  <2> QED
    BY <2>1, StoreNext, RegistryNext, PermitNext, RequestsNext DEF PullInv, StoreOK, RegistryOK, PermitOK
<1> QED
  BY <1>1, <1>2, PTL DEF PullSpec

\* The snapshots, the registry and the phases of workers and requests are well
\* formed, and a registered worker exists.
THEOREM PullTypeCorrect == PullSpec => []PullTypeOK
<1>1. PullInv => PullTypeOK
  BY DEF PullInv
<1> QED
  BY PullInvariance, <1>1, PTL

\* load_persisted_pull_jobs gives back every outcome a client has been shown,
\* whichever writes failed before the daemon went down.
THEOREM OutcomesSurviveRestart == PullSpec => []RestartKeepsOutcome
<1>1. PullInv => RestartKeepsOutcome
  BY DEF PullInv
<1> QED
  BY PullInvariance, <1>1, PTL

\* The flags that the pause and cancel routes set are those of the worker that
\* downloads, for any number of restart-resumes and of pause and cancel requests.
THEOREM FlagsReach == PullSpec => []FlagsReachWorker
<1>1. PullInv => FlagsReachWorker
  BY DEF PullInv, OnlyActiveLives, Lives, FlagsReachWorker
<1> QED
  BY PullInvariance, <1>1, PTL

\* Two workers of one job never download at once, not even when a resume has
\* left the old one running.
THEOREM OneDownload == PullSpec => []DownloadsTakeTurns
<1>1. PullInv => DownloadsTakeTurns
  BY DEF PullInv, PermitHeld, DownloadsTakeTurns
<1> QED
  BY PullInvariance, <1>1, PTL

-----------------------------------------------------------------------------
(* The in-use tracker and the idle unload                                   *)

INSTANCE FiniteSetTheorems

\* Holders is finite, so that counting it makes sense.
LEMMA HoldersFinite == IsFiniteSet(Holders)
  <1>1. Holders \subseteq Sessions
    BY DEF Holders
  <1> QED
    BY <1>1, SessionsFinite, FS_Subset

\* Counting: a session that enters its guard adds one holder.
LEMMA HoldersEnter ==
  ASSUME NEW s \in Sessions, TypeOK, session[s] \notin InGuard,
         NEW st \in InGuard, session' = [session EXCEPT ![s] = st]
  PROVE  /\ Holders' = Holders \cup {s}
         /\ Cardinality(Holders') = Cardinality(Holders) + 1
  <1>1. Holders' = Holders \cup {s}
    BY DEF Holders, TypeOK
  <1>2. s \notin Holders
    BY DEF Holders
  <1> QED
    BY <1>1, <1>2, HoldersFinite, FS_AddElement

\* Counting: a session that leaves its guard removes one holder.
LEMMA HoldersExit ==
  ASSUME NEW s \in Sessions, TypeOK, session[s] \in InGuard,
         session' = [session EXCEPT ![s] = "done"]
  PROVE  /\ Holders' = Holders \ {s}
         /\ s \in Holders
         /\ Cardinality(Holders) \in Nat \ {0}
         /\ Cardinality(Holders') = Cardinality(Holders) - 1
  <1>1. Holders' = Holders \ {s}
    BY DEF Holders, TypeOK, InGuard
  <1>2. s \in Holders
    BY DEF Holders
  <1>3. Cardinality(Holders') = Cardinality(Holders) - 1
    BY <1>1, <1>2, HoldersFinite, FS_RemoveElement
  <1>4. Cardinality(Holders) \in Nat
    BY HoldersFinite, FS_CardinalityType
  <1>5. Cardinality(Holders) # 0
    BY <1>2, HoldersFinite, FS_EmptySet
  <1> QED
    BY <1>1, <1>2, <1>3, <1>4, <1>5

\* The set of holders only depends on the sessions' program counters.
LEMMA HoldersSame ==
  ASSUME session' = session
  PROVE  Holders' = Holders
  BY DEF Holders

\* Elapsed times stay natural numbers and never go back.
LEMMA OlderType ==
  ASSUME NEW t \in Nat
  PROVE  Older(t) \in Nat /\ Older(t) >= t
  BY DEF Older

-----------------------------------------------------------------------------
\* Initially nothing is held, nothing is torn down, nothing is marked.
LEMMA InitIInv == Init => IInv
  <1> SUFFICES ASSUME Init PROVE IInv
    OBVIOUS
  <1> USE DEF Init
  <1>1. TypeOK
    BY SentinelsAssumption DEF TypeOK, Policies, ReaperStates, SessionStates
  <1>2. Holders = {}
    BY DEF Holders, InGuard
  <1>3. TrackerInv
    BY <1>2, FS_EmptySet DEF TrackerInv, Tearing
  <1>4. MarkerInv
    BY SentinelsAssumption DEF MarkerInv, ResidentMeansLoaded, Resident
  <1>5. SweepInv
    BY DEF SweepInv, PolicyLocked, Tearing
  <1> QED
    BY <1>1, <1>3, <1>4, <1>5 DEF IInv

\* Every step keeps every variable in its type.
LEMMA NextTypeOK == TypeOK /\ [Next]_vars => TypeOK'
  <1> SUFFICES ASSUME TypeOK, [Next]_vars PROVE TypeOK'
    OBVIOUS
  <1> USE DEF TypeOK
  <1>1. ASSUME NEW s \in Sessions, SessionStep(s) PROVE TypeOK'
    <2>1. CASE EnterWait(s)
      BY <2>1 DEF EnterWait, trackerVars, reaperVars, runtimeVars, SessionStates
    <2>2. CASE Enter(s)
      <3>1. active' \in Nat /\ sweeps' \in Nat
        BY <2>2 DEF Enter
      <3>2. unloaded_this_idle_epoch' \in BOOLEAN
        BY <2>2 DEF Enter
      <3>3. session' \in [Sessions -> SessionStates]
        BY <2>2 DEF Enter, SessionStates
      <3> QED
        BY <2>2, <3>1, <3>2, <3>3 DEF Enter, reaperVars, runtimeVars
    <2>3. CASE Exit(s)
      BY <2>3 DEF Exit, IdleElapsedAfterExit, reaperVars, runtimeVars, SessionStates
    <2>4. CASE Decode(s)
      BY <2>4 DEF Decode, trackerVars, reaperVars, SessionStates
    <2>5. CASE MarkWarmRead(s)
      BY <2>5 DEF MarkWarmRead, trackerVars, reaperVars, runtimeVars, SessionStates
    <2>6. CASE MarkWarmInsert(s)
      BY <2>6 DEF MarkWarmInsert, trackerVars, reaperVars, SessionStates
    <2> QED
      BY <1>1, <2>1, <2>2, <2>3, <2>4, <2>5, <2>6 DEF SessionStep
  <1>2. ASSUME NEW p \in Policies, Publish(p) PROVE TypeOK'
    BY <1>2 DEF Publish, trackerVars, runtimeVars, sessionVars
  <1>3. CASE ReaperStep
    <2>1. CASE ReaperRead
      BY <2>1 DEF ReaperRead, trackerVars, runtimeVars, sessionVars, ReaperStates
    <2>2. CASE ReaperPolicyChanged
      BY <2>2 DEF ReaperPolicyChanged, trackerVars, runtimeVars, sessionVars, ReaperStates
    <2>3. CASE ReaperSlept
      BY <2>3 DEF ReaperSlept, trackerVars, runtimeVars, sessionVars, ReaperStates
    <2>4. CASE ReaperRecheck
      BY <2>4 DEF ReaperRecheck, trackerVars, runtimeVars, sessionVars, ReaperStates
    <2>5. CASE ReaperClaim
      <3>1. sweeps' \in Nat
        BY <2>5 DEF ReaperClaim
      <3>2. unload_in_progress' \in BOOLEAN /\ unloaded_this_idle_epoch' \in BOOLEAN
        BY <2>5 DEF ReaperClaim
      <3>3. reaper' \in ReaperStates
        BY <2>5 DEF ReaperClaim, ReaperStates
      <3> QED
        BY <2>5, <3>1, <3>2, <3>3 DEF ReaperClaim, runtimeVars, sessionVars
    <2>6. CASE ReaperBump
      BY <2>6 DEF ReaperBump, trackerVars, sessionVars, ReaperStates
    <2>7. CASE ReaperUnload
      BY <2>7 DEF ReaperUnload, trackerVars, sessionVars, ReaperStates
    <2>8. CASE ReaperFinish
      BY <2>8 DEF ReaperFinish, runtimeVars, sessionVars, ReaperStates
    <2> QED
      BY <1>3, <2>1, <2>2, <2>3, <2>4, <2>5, <2>6, <2>7, <2>8 DEF ReaperStep
  <1>4. CASE ReaperAbort
    BY <1>4 DEF ReaperAbort, trackerVars, runtimeVars, sessionVars, ReaperStates
  <1>5. CASE Tick
    BY <1>5, OlderType DEF Tick, reaperVars, runtimeVars, sessionVars
  <1>6. CASE UNCHANGED vars
    BY <1>6 DEF vars, trackerVars, reaperVars, runtimeVars, sessionVars
  <1> QED
    BY <1>1, <1>2, <1>3, <1>4, <1>5, <1>6 DEF Next

-----------------------------------------------------------------------------
\* The claim excludes guards: entering needs the flag down, claiming needs
\* the count at zero, and the count is the number of holders.
LEMMA NextTrackerInv == IInv /\ [Next]_vars => TrackerInv'
  <1> SUFFICES ASSUME IInv, [Next]_vars PROVE TrackerInv'
    OBVIOUS
  <1>0. TypeOK /\ TrackerInv
    BY DEF IInv
  <1> USE <1>0 DEF TrackerInv, Tearing
  <1>1. ASSUME NEW s \in Sessions, SessionStep(s) PROVE TrackerInv'
    <2>1. CASE EnterWait(s)
      <3>1. Holders' = Holders
        BY <2>1 DEF EnterWait, Holders, InGuard, TypeOK
      <3> QED
        BY <2>1, <3>1 DEF EnterWait, trackerVars, reaperVars
    <2>2. CASE Enter(s)
      <3>1. session[s] \notin InGuard
        BY <2>2 DEF Enter, InGuard
      <3>2. Cardinality(Holders') = Cardinality(Holders) + 1
        BY <2>2, <3>1, HoldersEnter DEF Enter, InGuard
      <3> QED
        BY <2>2, <3>2 DEF Enter, reaperVars
    <2>3. CASE Exit(s)
      <3>1. /\ Holders' = Holders \ {s}
            /\ Cardinality(Holders) \in Nat \ {0}
            /\ Cardinality(Holders') = Cardinality(Holders) - 1
        BY <2>3, HoldersExit DEF Exit
      <3> QED
        BY <2>3, <3>1 DEF Exit, reaperVars
    <2>4. CASE Decode(s)
      <3>1. Holders' = Holders
        BY <2>4 DEF Decode, Holders, InGuard, TypeOK
      <3> QED
        BY <2>4, <3>1 DEF Decode, trackerVars, reaperVars
    <2>5. CASE MarkWarmRead(s)
      <3>1. Holders' = Holders
        BY <2>5 DEF MarkWarmRead, Holders, InGuard, TypeOK
      <3> QED
        BY <2>5, <3>1 DEF MarkWarmRead, trackerVars, reaperVars
    <2>6. CASE MarkWarmInsert(s)
      <3>1. Holders' = Holders
        BY <2>6 DEF MarkWarmInsert, Holders, InGuard, TypeOK
      <3> QED
        BY <2>6, <3>1 DEF MarkWarmInsert, trackerVars, reaperVars
    <2> QED
      BY <1>1, <2>1, <2>2, <2>3, <2>4, <2>5, <2>6 DEF SessionStep
  <1>2. ASSUME NEW p \in Policies, Publish(p) PROVE TrackerInv'
    BY <1>2, HoldersSame DEF Publish, trackerVars, sessionVars
  <1>3. CASE ReaperStep
    <2>1. Holders' = Holders
      BY <1>3, HoldersSame DEF ReaperStep, ReaperRead, ReaperPolicyChanged, ReaperSlept,
         ReaperRecheck, ReaperClaim, ReaperBump, ReaperUnload, ReaperFinish, sessionVars
    <2>2. CASE ReaperClaim
      <3>1. ASSUME active = 0 PROVE Holders = {}
        BY <3>1, HoldersFinite, FS_EmptySet
      <3> QED
        BY <2>1, <2>2, <3>1 DEF ReaperClaim, Claimable
    <2>3. CASE ReaperRead \/ ReaperPolicyChanged \/ ReaperSlept \/ ReaperRecheck
      BY <2>1, <2>3 DEF ReaperRead, ReaperPolicyChanged, ReaperSlept, ReaperRecheck, trackerVars
    <2>4. CASE ReaperBump \/ ReaperUnload
      BY <2>1, <2>4 DEF ReaperBump, ReaperUnload, trackerVars
    <2>5. CASE ReaperFinish
      BY <2>1, <2>5 DEF ReaperFinish
    <2> QED
      BY <1>3, <2>2, <2>3, <2>4, <2>5 DEF ReaperStep
  <1>4. CASE ReaperAbort
    BY <1>4, HoldersSame DEF ReaperAbort, trackerVars, sessionVars
  <1>5. CASE Tick
    BY <1>5, HoldersSame DEF Tick, reaperVars, sessionVars
  <1>6. CASE UNCHANGED vars
    BY <1>6, HoldersSame DEF vars, trackerVars, reaperVars, sessionVars
  <1> QED
    BY <1>1, <1>2, <1>3, <1>4, <1>5, <1>6 DEF Next

\* Markers stay truthful: the only steps that advance the generation or
\* empty the cache run with no session inside its guard.
LEMMA NextMarkerInv == IInv /\ [Next]_vars => MarkerInv'
  <1> SUFFICES ASSUME IInv, [Next]_vars PROVE MarkerInv'
    OBVIOUS
  <1>0. TypeOK /\ TrackerInv /\ MarkerInv
    BY DEF IInv
  <1> USE <1>0 DEF MarkerInv, ResidentMeansLoaded, Resident
  <1>1. ASSUME NEW s \in Sessions, SessionStep(s) PROVE MarkerInv'
    <2> USE DEF TypeOK
    <2>1. CASE EnterWait(s)
      BY <2>1 DEF EnterWait, reaperVars, runtimeVars
    <2>2. CASE Enter(s)
      BY <2>2 DEF Enter, reaperVars, runtimeVars
    <2>3. CASE Exit(s)
      BY <2>3 DEF Exit, reaperVars, runtimeVars
    <2>4. CASE Decode(s)
      BY <2>4 DEF Decode, reaperVars
    <2>5. CASE MarkWarmRead(s)
      BY <2>5 DEF MarkWarmRead, reaperVars, runtimeVars
    <2>6. CASE MarkWarmInsert(s)
      <3>1. reaper \notin {"unload", "finish"}
        BY <2>6 DEF MarkWarmInsert, TrackerInv, Tearing, Holders, InGuard
      <3>2. key[s] \in loaded /\ read_generation[s] = generation
        BY <2>6 DEF MarkWarmInsert
      <3> QED
        BY <2>6, <3>1, <3>2 DEF MarkWarmInsert, reaperVars
    <2> QED
      BY <1>1, <2>1, <2>2, <2>3, <2>4, <2>5, <2>6 DEF SessionStep
  <1>2. ASSUME NEW p \in Policies, Publish(p) PROVE MarkerInv'
    BY <1>2 DEF Publish, runtimeVars, sessionVars
  <1>3. CASE ReaperStep
    <2>1. ASSUME Tearing PROVE \A s \in Sessions : session[s] \notin {"decoded", "marking"}
      BY <2>1 DEF TrackerInv, Holders, InGuard
    <2>2. CASE ReaperRead \/ ReaperPolicyChanged \/ ReaperSlept \/ ReaperRecheck \/ ReaperClaim
      BY <2>2 DEF ReaperRead, ReaperPolicyChanged, ReaperSlept, ReaperRecheck, ReaperClaim,
         runtimeVars, sessionVars
    <2>3. CASE ReaperBump
      <3>1. \A k \in Keys : ~Resident(k)'
        BY <2>3, SentinelsAssumption DEF ReaperBump, TypeOK
      <3> QED
        BY <2>1, <2>3, <3>1 DEF ReaperBump, Tearing, sessionVars
    <2>4. CASE ReaperUnload
      BY <2>1, <2>4 DEF ReaperUnload, Tearing, sessionVars
    <2>5. CASE ReaperFinish
      BY <2>5 DEF ReaperFinish, runtimeVars, sessionVars
    <2> QED
      BY <1>3, <2>2, <2>3, <2>4, <2>5 DEF ReaperStep
  <1>4. CASE ReaperAbort
    BY <1>4 DEF ReaperAbort, runtimeVars, sessionVars
  <1>5. CASE Tick
    BY <1>5 DEF Tick, reaperVars, runtimeVars, sessionVars
  <1>6. CASE UNCHANGED vars
    BY <1>6 DEF vars, reaperVars, runtimeVars, sessionVars
  <1> QED
    BY <1>1, <1>2, <1>3, <1>4, <1>5, <1>6 DEF Next

\* The reaper acts once per epoch, under the policy in force, after the
\* configured quiet time.
LEMMA NextSweepInv == IInv /\ [Next]_vars => SweepInv'
  <1> SUFFICES ASSUME IInv, [Next]_vars PROVE SweepInv'
    OBVIOUS
  <1>0. TypeOK /\ TrackerInv /\ SweepInv
    BY DEF IInv
  <1> USE <1>0 DEF SweepInv, PolicyLocked, Tearing
  <1>1. ASSUME NEW s \in Sessions, SessionStep(s) PROVE SweepInv'
    <2>1. CASE EnterWait(s)
      <3>1. Holders' = Holders
        BY <2>1 DEF EnterWait, Holders, InGuard, TypeOK
      <3> QED
        BY <2>1, <3>1 DEF EnterWait, trackerVars, reaperVars
    <2>2. CASE Enter(s)
      <3>1. session[s] \notin InGuard
        BY <2>2 DEF Enter, InGuard
      <3>2. Holders' # {}
        BY <2>2, <3>1, HoldersEnter DEF Enter, InGuard
      <3> QED
        BY <2>2, <3>2 DEF Enter, reaperVars
    <2>3. CASE Exit(s)
      <3>1. Tearing => FALSE
        BY <2>3 DEF Exit, Holders, TrackerInv
      <3>2. /\ Cardinality(Holders) \in Nat \ {0}
            /\ Cardinality(Holders') = Cardinality(Holders) - 1
        BY <2>3, HoldersExit DEF Exit
      <3>3. Holders' = {} => Cardinality(Holders) = 1
        BY <3>2, FS_EmptySet
      <3>4. Holders' = {} => idle_elapsed' = 0
        BY <2>3, <3>3 DEF Exit, IdleElapsedAfterExit, TrackerInv
      <3> QED
        BY <2>3, <3>1, <3>4 DEF Exit, reaperVars
    <2>4. CASE Decode(s)
      <3>1. Holders' = Holders
        BY <2>4 DEF Decode, Holders, InGuard, TypeOK
      <3> QED
        BY <2>4, <3>1 DEF Decode, trackerVars, reaperVars
    <2>5. CASE MarkWarmRead(s)
      <3>1. Holders' = Holders
        BY <2>5 DEF MarkWarmRead, Holders, InGuard, TypeOK
      <3> QED
        BY <2>5, <3>1 DEF MarkWarmRead, trackerVars, reaperVars
    <2>6. CASE MarkWarmInsert(s)
      <3>1. Holders' = Holders
        BY <2>6 DEF MarkWarmInsert, Holders, InGuard, TypeOK
      <3> QED
        BY <2>6, <3>1 DEF MarkWarmInsert, trackerVars, reaperVars
    <2> QED
      BY <1>1, <2>1, <2>2, <2>3, <2>4, <2>5, <2>6 DEF SessionStep
  <1>2. ASSUME NEW p \in Policies, Publish(p) PROVE SweepInv'
    BY <1>2, HoldersSame DEF Publish, trackerVars, sessionVars
  <1>3. CASE ReaperStep
    <2>1. Holders' = Holders
      BY <1>3, HoldersSame DEF ReaperStep, ReaperRead, ReaperPolicyChanged, ReaperSlept,
         ReaperRecheck, ReaperClaim, ReaperBump, ReaperUnload, ReaperFinish, sessionVars
    <2>2. CASE ReaperRead \/ ReaperPolicyChanged \/ ReaperSlept \/ ReaperRecheck
      BY <2>1, <2>2 DEF ReaperRead, ReaperPolicyChanged, ReaperSlept, ReaperRecheck, trackerVars
    <2>3. CASE ReaperClaim
      <3>1. CASE Claimable
        <4>1. Holders = {}
          BY <3>1, HoldersFinite, FS_EmptySet DEF Claimable, TrackerInv
        <4>2. quiet' >= policy'
          BY <2>3, <3>1, <4>1 DEF ReaperClaim, Claimable
        <4>3. sweeps' <= 1
          BY <2>3, <3>1 DEF ReaperClaim, Claimable, TypeOK
        <4>4. /\ unloaded_this_idle_epoch'
              /\ UNCHANGED <<idle_elapsed, policy, idle_for, quiet>>
              /\ reaper' = "bump"
          BY <2>3, <3>1 DEF ReaperClaim, Claimable
        <4> QED
          BY <2>1, <2>3, <4>2, <4>3, <4>4 DEF ReaperClaim
      <3>2. CASE ~Claimable
        BY <2>1, <2>3, <3>2 DEF ReaperClaim
      <3> QED
        BY <3>1, <3>2
    <2>4. CASE ReaperBump \/ ReaperUnload
      BY <2>1, <2>4 DEF ReaperBump, ReaperUnload, trackerVars
    <2>5. CASE ReaperFinish
      BY <2>1, <2>5 DEF ReaperFinish
    <2> QED
      BY <1>3, <2>2, <2>3, <2>4, <2>5 DEF ReaperStep
  <1>4. CASE ReaperAbort
    BY <1>4, HoldersSame DEF ReaperAbort, trackerVars, sessionVars
  <1>5. CASE Tick
    <2>1. Holders' = Holders
      BY <1>5, HoldersSame DEF Tick, sessionVars
    <2>2. Holders = {} => idle_elapsed' = quiet'
      BY <1>5 DEF Tick
    <2>3. Holders = {} => quiet' >= quiet /\ quiet' \in Nat
      BY <1>5, OlderType DEF Tick, TypeOK
    <2>4. Tearing => quiet' >= policy
      <3>1. ASSUME Tearing PROVE policy \in Nat
        BY <3>1, ThresholdsAssumption DEF TypeOK, Policies
      <3> QED
        BY <2>3, <3>1 DEF TrackerInv, TypeOK
    <2> QED
      BY <1>5, <2>1, <2>2, <2>4 DEF Tick, reaperVars
  <1>6. CASE UNCHANGED vars
    BY <1>6, HoldersSame DEF vars, trackerVars, reaperVars, sessionVars
  <1> QED
    BY <1>1, <1>2, <1>3, <1>4, <1>5, <1>6 DEF Next

-----------------------------------------------------------------------------
\* IInv is inductive, so it holds in every reachable state.
THEOREM Invariance == Spec => []IInv
  <1>1. IInv /\ [Next]_vars => IInv'
    BY NextTypeOK, NextTrackerInv, NextMarkerInv, NextSweepInv DEF IInv
  <1> QED
    BY InitIInv, <1>1, PTL DEF Spec

\* No session is inside its activity guard while the reaper tears the native
\* runtimes down, whatever the number of sessions (idle_activity.rs, enter
\* against try_claim_idle_unload).
THEOREM TeardownExcludesGuards == Spec => []NoGuardDuringUnload
  <1>1. IInv => NoGuardDuringUnload
    BY DEF IInv, TrackerInv, NoGuardDuringUnload
  <1> QED
    BY Invariance, <1>1, PTL

\* `/health` never reports a runtime as resident that is not in the cache
\* (mark_native_model_warm against advance_native_runtime_generation).
THEOREM ResidencyIsTruthful == Spec => []ResidentMeansLoaded
  <1>1. IInv => ResidentMeansLoaded
    BY DEF IInv, MarkerInv
  <1> QED
    BY Invariance, <1>1, PTL

\* The reaper sweeps at most once per idle epoch, and only under the policy
\* in force after that policy's quiet time (run_idle_unload_reaper).
THEOREM SweepsAreBounded == Spec => []SweepIsJust
  <1>1. IInv => SweepIsJust
    BY DEF IInv, SweepInv, SweepIsJust, PolicyLocked, Tearing
  <1> QED
    BY Invariance, <1>1, PTL

\* The tracker and the reaper implement the abstract shared/exclusive
\* protocol: every step is one of its steps or leaves its state alone.
THEOREM ImplementsSharedExclusive == Spec => TrackerIsSharedExclusive
  <1>1. Init => SX!SXInit
    BY DEF Init, SX!SXInit, Holders, InGuard
  <1>2. IInv /\ [Next]_vars => [SX!SXNext]_(SX!sxVars)
    <2> SUFFICES ASSUME IInv, [Next]_vars PROVE [SX!SXNext]_(SX!sxVars)
      OBVIOUS
    <2>0. TypeOK /\ TrackerInv
      BY DEF IInv
    <2> USE <2>0 DEF SX!sxVars, SX!SXNext
    <2>1. ASSUME NEW s \in Sessions, SessionStep(s) PROVE [SX!SXNext]_(SX!sxVars)
      <3>1. CASE Enter(s)
        <4>1. session[s] \notin InGuard
          BY <3>1 DEF Enter, InGuard
        <4>2. Holders' = Holders \cup {s}
          BY <3>1, <4>1, HoldersEnter DEF Enter, InGuard
        <4>3. SX!Acquire(s)
          BY <3>1, <4>1, <4>2 DEF Enter, SX!Acquire, Holders
        <4> QED
          BY <4>3
      <3>2. CASE Exit(s)
        <4>1. Holders' = Holders \ {s} /\ s \in Holders
          BY <3>2, HoldersExit DEF Exit
        <4>2. SX!Release(s)
          BY <3>2, <4>1 DEF Exit, SX!Release
        <4> QED
          BY <4>2
      <3>3. CASE EnterWait(s) \/ Decode(s) \/ MarkWarmRead(s) \/ MarkWarmInsert(s)
        <4>1. Holders' = Holders
          BY <3>3 DEF EnterWait, Decode, MarkWarmRead, MarkWarmInsert, Holders, InGuard, TypeOK
        <4>2. unload_in_progress' = unload_in_progress
          BY <3>3 DEF EnterWait, Decode, MarkWarmRead, MarkWarmInsert, trackerVars
        <4> QED
          BY <4>1, <4>2
      <3> QED
        BY <2>1, <3>1, <3>2, <3>3 DEF SessionStep
    <2>2. CASE ReaperStep
      <3>1. Holders' = Holders
        BY <2>2, HoldersSame DEF ReaperStep, ReaperRead, ReaperPolicyChanged, ReaperSlept,
           ReaperRecheck, ReaperClaim, ReaperBump, ReaperUnload, ReaperFinish, sessionVars
      <3>2. CASE ReaperClaim
        <4>1. CASE Claimable
          <5>1. Holders = {}
            BY <4>1, HoldersFinite, FS_EmptySet DEF Claimable, TrackerInv
          <5>2. SX!BeginExclusive
            BY <3>1, <3>2, <4>1, <5>1 DEF ReaperClaim, Claimable, SX!BeginExclusive
          <5> QED
            BY <5>2
        <4>2. CASE ~Claimable
          BY <3>1, <3>2, <4>2 DEF ReaperClaim
        <4> QED
          BY <4>1, <4>2
      <3>3. CASE ReaperFinish
        <4>1. SX!EndExclusive
          BY <3>1, <3>3 DEF ReaperFinish, TrackerInv, Tearing, SX!EndExclusive
        <4> QED
          BY <4>1
      <3>4. CASE ReaperRead \/ ReaperPolicyChanged \/ ReaperSlept \/ ReaperRecheck
                 \/ ReaperBump \/ ReaperUnload
        BY <3>1, <3>4 DEF ReaperRead, ReaperPolicyChanged, ReaperSlept, ReaperRecheck,
           ReaperBump, ReaperUnload, trackerVars
      <3> QED
        BY <2>2, <3>2, <3>3, <3>4 DEF ReaperStep
    <2>3. CASE UNCHANGED <<session, unload_in_progress>>
      BY <2>3, HoldersSame
    <2>4. ASSUME NEW p \in Policies, Publish(p) PROVE UNCHANGED <<session, unload_in_progress>>
      BY <2>4 DEF Publish, trackerVars, sessionVars
    <2>5. ReaperAbort \/ Tick \/ UNCHANGED vars => UNCHANGED <<session, unload_in_progress>>
      BY DEF ReaperAbort, Tick, vars, trackerVars, sessionVars
    <2> QED
      BY <2>1, <2>2, <2>3, <2>4, <2>5 DEF Next
  <1> QED
    BY Invariance, <1>1, <1>2, PTL DEF Spec, SX!SXSpec, TrackerIsSharedExclusive

=============================================================================
