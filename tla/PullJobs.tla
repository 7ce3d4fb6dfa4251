------------------------------ MODULE PullJobs ------------------------------
(***************************************************************************)
(* One background download of a model pack (openasr-server,                *)
(* routes/pull_jobs.rs and the job store in lib.rs): its snapshot in       *)
(* memory and on disk, the registry of live workers with their flags, the  *)
(* worker, the pause, cancel and resume routes, and a restart of the       *)
(* daemon.  A route reads, signals and writes under separate locks, so     *)
(* each is a step.  Downloads of a home share one permit.                  *)
(*                                                                         *)
(* Every spawn makes a worker with flags of its own; it is named by the    *)
(* request that spawned it.                                                *)
(***************************************************************************)
EXTENDS Integers, FiniteSets

CONSTANTS
  Starter,      \* the request that created the job
  Resumers,     \* resume requests, and installs that meet the job
  Cancelers,    \* cancel requests
  Pausers,      \* pause requests
  MaxRestarts,  \* restarts of the daemon
  MaxFailures,  \* failed snapshot writes
  None

ASSUME PullAssumption ==
  /\ Starter \notin Resumers \cup {None} /\ None \notin Resumers
  /\ MaxRestarts \in Nat /\ MaxFailures \in Nat

VARIABLES
  mem,        \* the snapshot in memory: [state, control]
  disk,       \* the persisted snapshot
  failures,   \* snapshot writes that failed
  jobs_active,  \* whose flags are in the active registry
  cancel,     \* workers whose cancel_flag is set
  pause,      \* workers whose pause_flag is set
  permit,     \* the worker that holds the pull permit of this home
  worker,     \* phase of each worker
  resume, canceler, pauser,  \* phases of the requests
  restarts

store == <<mem, disk, failures>>
requests == <<resume, canceler, pauser>>
pullVars == <<store, jobs_active, cancel, pause, permit, worker, requests, restarts>>

Workers == {Starter} \cup Resumers
Terminal == {"completed", "canceled", "failed"}
Resumable == {"queued", "downloading", "verifying"}
States == Terminal \cup Resumable \cup {"paused"}
Snapshot(state, control) == [state |-> state, control |-> control]

\* queue_catalog_pull has inserted the job, registered and spawned its worker.
PullInit ==
  /\ mem = Snapshot("queued", "none") /\ disk = mem /\ failures = 0
  /\ jobs_active = Starter
  /\ cancel = {} /\ pause = {}
  /\ permit = None
  /\ worker = [w \in Workers |-> IF w = Starter THEN "spawned" ELSE "none"]
  /\ resume = [r \in Resumers |-> "new"]
  /\ canceler = [c \in Cancelers |-> "new"]
  /\ pauser = [p \in Pausers |-> "new"]
  /\ restarts = 0

\* update_job_in_memory, for progress only.
UpdateInMemory(s) == mem' = s /\ UNCHANGED <<disk, failures>>

Write(s) == mem' = s /\ disk' = s /\ UNCHANGED failures
WriteFails == failures < MaxFailures /\ failures' = failures + 1 /\ UNCHANGED <<mem, disk>>

\* update_job: persist first, then publish; a failed write changes nothing.
Update(s) == Write(s) \/ WriteFails

-----------------------------------------------------------------------------
(* spawn_pull_job_registered and run_pull_job                               *)

Work(w, phase) == worker' = [worker EXCEPT ![w] = phase]

\* Faulty variant: a canceled worker leaves without a word.
AcquireUnrecorded(w) ==
  /\ worker[w] = "spawned" /\ permit = None
  /\ permit' = w
  /\ Work(w, IF w \in cancel THEN "leave" ELSE "guard")
  /\ UNCHANGED <<store, jobs_active, cancel, pause, requests, restarts>>

\* The permit is acquired; a cancel that came first is recorded.
Acquire(w) ==
  /\ worker[w] = "spawned" /\ permit = None
  /\ permit' = w
  /\ IF w \in cancel
     THEN Update(Snapshot("canceled", "none")) /\ Work(w, "leave")
     ELSE Work(w, "guard") /\ UNCHANGED store
  /\ UNCHANGED <<jobs_active, cancel, pause, requests, restarts>>

\* The spawn-side guard against a job that is already terminal.
Guard(w) ==
  /\ worker[w] = "guard"
  /\ Work(w, IF mem.state \in Terminal THEN "leave" ELSE "start")
  /\ UNCHANGED <<store, jobs_active, cancel, pause, permit, requests, restarts>>

\* run_pull_job begins with a reset to Queued.
Start(w) ==
  /\ worker[w] = "start"
  /\ Update(Snapshot("queued", "none"))
  /\ Work(w, "download")
  /\ UNCHANGED <<jobs_active, cancel, pause, permit, requests, restarts>>

\* Progress; some of the downloading kind is kept in memory only.
Progress(w) ==
  /\ worker[w] = "download"
  /\ \E s \in {"downloading", "verifying"} :
       \/ Update(Snapshot(s, "none"))
       \/ s = "downloading" /\ UpdateInMemory(Snapshot(s, "none"))
  /\ UNCHANGED <<jobs_active, cancel, pause, permit, worker, requests, restarts>>

\* The last progress, Installed or UsingInstalled, writes the terminal state;
\* the pull returns Ok right after it.
Installed(w) ==
  /\ worker[w] = "download"
  /\ Update(Snapshot("completed", "none"))
  /\ Work(w, "completed")
  /\ UNCHANGED <<jobs_active, cancel, pause, permit, requests, restarts>>

\* The pull returns an error: the cancel flag is looked at before the pause flag.
Return(w) ==
  /\ worker[w] = "download"
  /\ \E outcome \in {"failed"}
                      \cup (IF w \in cancel THEN {"canceled"} ELSE {})
                      \cup (IF w \in pause \ cancel THEN {"paused"} ELSE {}) :
       Work(w, outcome)
  /\ UNCHANGED <<store, jobs_active, cancel, pause, permit, requests, restarts>>

\* The outcome is recorded and the permit dropped.
Record(w) ==
  /\ worker[w] \in Terminal \cup {"paused"}
  /\ Update(Snapshot(worker[w], "none"))
  /\ permit' = None
  /\ Work(w, "leave")
  /\ UNCHANGED <<jobs_active, cancel, pause, requests, restarts>>

\* clear_active_job removes the entry of the job, whoever owns it; a worker
\* that never downloaded drops its permit here.
Leave(w) ==
  /\ worker[w] = "leave"
  /\ jobs_active' = None
  /\ permit' = IF permit = w THEN None ELSE permit
  /\ Work(w, "done")
  /\ UNCHANGED <<store, cancel, pause, requests, restarts>>

WorkerStep(w) == Acquire(w) \/ Guard(w) \/ Start(w) \/ Progress(w) \/ Installed(w) \/ Return(w) \/ Record(w) \/ Leave(w)

-----------------------------------------------------------------------------
(* cancel_pull_job                                                          *)

Canceling(c, phase) == canceler' = [canceler EXCEPT ![c] = phase]

CancelRead(c) ==
  /\ canceler[c] = "new"
  /\ Canceling(c, IF mem.state \in Terminal THEN "done" ELSE "signal")
  /\ UNCHANGED <<store, jobs_active, cancel, pause, permit, worker, resume, pauser, restarts>>

\* cancel_job, and is_job_active when there was nobody to signal.
CancelSignal(c) ==
  /\ canceler[c] = "signal"
  /\ IF jobs_active # None
     THEN cancel' = cancel \cup {jobs_active} /\ Canceling(c, "request")
     ELSE Canceling(c, "settle") /\ UNCHANGED cancel
  /\ UNCHANGED <<store, jobs_active, pause, permit, worker, resume, pauser, restarts>>

\* The pending cancel is recorded and answered 202.
CancelRequest(c) ==
  /\ canceler[c] = "request"
  /\ \/ Write([mem EXCEPT !.control = "cancel"]) /\ Canceling(c, "accepted")
     \/ WriteFails /\ Canceling(c, "done")
  /\ UNCHANGED <<jobs_active, cancel, pause, permit, worker, resume, pauser, restarts>>

\* Without a worker the terminal state is written directly.
CancelSettle(c) ==
  /\ canceler[c] = "settle"
  /\ Update(Snapshot("canceled", "none"))
  /\ Canceling(c, "done")
  /\ UNCHANGED <<jobs_active, cancel, pause, permit, worker, resume, pauser, restarts>>

CancelStep(c) == CancelSignal(c) \/ CancelRequest(c) \/ CancelSettle(c)

-----------------------------------------------------------------------------
(* pause_pull_job                                                           *)

Pausing(p, phase) == pauser' = [pauser EXCEPT ![p] = phase]

PauseRead(p) ==
  /\ pauser[p] = "new"
  /\ Pausing(p, IF mem.state \in Terminal \cup {"paused"} THEN "done" ELSE "signal")
  /\ UNCHANGED <<store, jobs_active, cancel, pause, permit, worker, resume, canceler, restarts>>

PauseSignal(p) ==
  /\ pauser[p] = "signal"
  /\ IF jobs_active # None
     THEN pause' = pause \cup {jobs_active} /\ Pausing(p, "request")
     ELSE Pausing(p, "done") /\ UNCHANGED pause
  /\ UNCHANGED <<store, jobs_active, cancel, permit, worker, resume, canceler, restarts>>

PauseRequest(p) ==
  /\ pauser[p] = "request"
  /\ Update([mem EXCEPT !.control = "pause"])
  /\ Pausing(p, "done")
  /\ UNCHANGED <<jobs_active, cancel, pause, permit, worker, resume, canceler, restarts>>

PauseStep(p) == PauseSignal(p) \/ PauseRequest(p)

-----------------------------------------------------------------------------
(* resume_pull_job, and queue_catalog_pull when it meets this job           *)

Resuming(r, phase) == resume' = [resume EXCEPT ![r] = phase]

ResumeRead(r) ==
  /\ resume[r] = "new"
  /\ Resuming(r, CASE mem.state \in Terminal -> "done"
                   [] mem.state = "paused" -> "unpause"
                   [] OTHER -> "look")
  /\ UNCHANGED <<store, jobs_active, cancel, pause, permit, worker, canceler, pauser, restarts>>

\* is_job_active
ResumeLook(r) ==
  /\ resume[r] = "look"
  /\ Resuming(r, IF jobs_active # None THEN "done" ELSE "claim")
  /\ UNCHANGED <<store, jobs_active, cancel, pause, permit, worker, canceler, pauser, restarts>>

Unpause(r) ==
  /\ resume[r] = "unpause"
  /\ \/ Write(Snapshot("queued", "none")) /\ Resuming(r, "register")
     \/ WriteFails /\ Resuming(r, "done")
  /\ UNCHANGED <<jobs_active, cancel, pause, permit, worker, canceler, pauser, restarts>>

\* register_active_job overwrites, then the worker is spawned.
Register(r) ==
  /\ resume[r] = "register"
  /\ jobs_active' = r
  /\ Work(r, "spawned")
  /\ Resuming(r, "resumed")
  /\ UNCHANGED <<store, cancel, pause, permit, canceler, pauser, restarts>>

\* Faulty variant: a restart-resume overwrites, too.
ClaimAnyway(r) ==
  /\ resume[r] = "claim"
  /\ jobs_active' = r /\ Work(r, "spawned")
  /\ Resuming(r, "done")
  /\ UNCHANGED <<store, cancel, pause, permit, canceler, pauser, restarts>>

\* spawn_restart_resume_job: the claim is atomic and loses to a live worker.
Claim(r) ==
  /\ resume[r] = "claim"
  /\ IF jobs_active = None THEN jobs_active' = r /\ Work(r, "spawned") ELSE UNCHANGED <<jobs_active, worker>>
  /\ Resuming(r, "done")
  /\ UNCHANGED <<store, cancel, pause, permit, canceler, pauser, restarts>>

ResumeStep(r) == ResumeLook(r) \/ Unpause(r) \/ Register(r) \/ Claim(r)

-----------------------------------------------------------------------------
(* The daemon restarts                                                      *)

\* load_persisted_pull_jobs: what a snapshot on disk becomes.  Every snapshot
\* that this program writes names its resolved pack.
Loaded(s) ==
  IF s.state \notin Resumable THEN s
  ELSE CASE s.control = "cancel" -> Snapshot("canceled", "none")
         [] s.control = "pause" -> Snapshot("paused", "none")
         [] OTHER -> Snapshot("queued", s.control)

\* Requests in flight and workers are gone with the process.
Restart ==
  /\ restarts < MaxRestarts
  /\ restarts' = restarts + 1
  /\ mem' = Loaded(disk)
  /\ jobs_active' = None /\ permit' = None /\ cancel' = {} /\ pause' = {}
  /\ worker' = [w \in Workers |-> IF worker[w] = "none" THEN "none" ELSE "done"]
  /\ resume' = [r \in Resumers |-> IF resume[r] = "new" THEN "new" ELSE "done"]
  /\ canceler' = [c \in Cancelers |-> IF canceler[c] \in {"new", "accepted"} THEN canceler[c] ELSE "done"]
  /\ pauser' = [p \in Pausers |-> IF pauser[p] = "new" THEN "new" ELSE "done"]
  /\ UNCHANGED <<disk, failures>>

PullNext ==
  \/ \E w \in Workers : WorkerStep(w)
  \/ \E c \in Cancelers : CancelRead(c) \/ CancelStep(c)
  \/ \E p \in Pausers : PauseRead(p) \/ PauseStep(p)
  \/ \E r \in Resumers : ResumeRead(r) \/ ResumeStep(r)
  \/ Restart

PullSpec == PullInit /\ [][PullNext]_pullVars

\* Workers and handlers that have begun go on; downloads end.
FairPullSpec ==
  /\ PullSpec
  /\ \A w \in Workers :
       /\ WF_pullVars(Acquire(w) \/ Guard(w) \/ Start(w) \/ Record(w) \/ Leave(w))
       /\ WF_pullVars(Installed(w) \/ Return(w))
  /\ \A c \in Cancelers : WF_pullVars(CancelStep(c))
  /\ \A p \in Pausers : WF_pullVars(PauseStep(p))
  /\ \A r \in Resumers : WF_pullVars(ResumeStep(r))

-----------------------------------------------------------------------------
(* Properties                                                               *)

Snapshots == [state : States, control : {"none", "cancel", "pause"}]

\* Types; and a registered worker exists.
PullTypeOK ==
  /\ mem \in Snapshots /\ disk \in Snapshots
  /\ jobs_active \in Workers \cup {None} /\ permit \in Workers \cup {None}
  /\ cancel \subseteq Workers /\ pause \subseteq Workers
  /\ worker \in [Workers -> {"none", "spawned", "guard", "start", "download", "leave", "done"}
                              \cup Terminal \cup {"paused"}]
  /\ jobs_active # None => worker[jobs_active] \notin {"none", "done"}
  /\ resume \in [Resumers -> {"new", "look", "unpause", "register", "claim", "resumed", "done"}]
  /\ canceler \in [Cancelers -> {"new", "signal", "request", "settle", "accepted", "done"}]
  /\ pauser \in [Pausers -> {"new", "signal", "request", "done"}]
  /\ restarts \in 0..MaxRestarts /\ failures \in 0..MaxFailures

\* The flags in the registry are those of the worker that downloads, so that
\* pause and cancel reach it and is_job_active tells the truth, unless a paused
\* job was resumed: that registration overwrites, and is lost with the old worker.
FlagsReachWorker ==
  (\A r \in Resumers : resume[r] # "resumed")
    => \A w \in Workers : worker[w] = "download" => jobs_active = w

\* A restart never changes an outcome a client has been shown.
RestartKeepsOutcome == mem.state \in Terminal => Loaded(disk).state = mem.state

\* "Never start a download for a job that is already terminal": a terminal
\* job stays as it is.
TerminalIsFinal == [][mem.state \in Terminal => mem'.state \in Terminal]_pullVars

\* A cancel answered 202 ends the job ("A job with a pending cancel is on its
\* way to a terminal Canceled state"), unless its pause comes first, a snapshot
\* cannot be written or the daemon restarts.
CancelSettles ==
  \A c \in Cancelers :
    canceler[c] = "accepted"
      ~> (mem.state \in Terminal \cup {"paused"} \/ failures > 0 \/ restarts > 0)
=============================================================================
