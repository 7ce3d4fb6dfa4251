----------------------------- MODULE IdleUnload -----------------------------
(***************************************************************************)
(* Process-wide native activity tracking and the `idle_unload` reaper      *)
(* (openasr-server, idle_activity.rs).                                     *)
(*                                                                         *)
(* Requests hold a NativeActivityGuard while they use the cached native    *)
(* runtimes.  The reaper task sleeps, re-reads the configured policy,      *)
(* claims the tracker when it has been idle for the configured time,       *)
(* starts a new runtime generation, tears the cached runtimes down and     *)
(* gives the claim back.  Requests that arrive meanwhile wait on a         *)
(* condition variable.                                                     *)
(*                                                                         *)
(* A guard is a value that is created once, so every session enters at     *)
(* most once; that alone keeps the generation counter finite.              *)
(***************************************************************************)
EXTENDS Integers, FiniteSets

CONSTANTS
  Sessions,       \* requests, each of which takes one activity guard
  Keys,           \* identities of model runtimes that can be resident
  Thresholds,     \* configurable idle times, in clock ticks
  Never,          \* the policy that disables unloading
  NoGeneration    \* "no marker" in the resident map

ASSUME SessionsFinite == IsFiniteSet(Sessions)
ASSUME ThresholdsAssumption ==
  /\ Thresholds \subseteq Nat \ {0}
  /\ IsFiniteSet(Thresholds)
  /\ Thresholds # {}
ASSUME SentinelsAssumption == Never \notin Nat /\ NoGeneration \notin Nat

Policies == Thresholds \cup {Never}

\* Elapsed times are only compared with thresholds: counting stops above the
\* largest one.
MaxThreshold == CHOOSE t \in Thresholds : \A u \in Thresholds : u <= t
Older(t) == IF t < MaxThreshold THEN t + 1 ELSE t

VARIABLES
  \* NativeActivityState
  active, idle_elapsed, unload_in_progress, unloaded_this_idle_epoch,
  \* watch channel of the IdleUnloadController and the reaper task
  policy, changed, reaper, idle_for,
  \* NATIVE_RUNTIME_GENERATION, the resident map, the cached runtimes
  generation, resident, loaded,
  \* requests: program counter, runtime used, generation read for the marker
  session, key, read_generation,
  \* history: sweeps since the last enter, ticks since a guard was last held
  sweeps, quiet

trackerVars == <<active, idle_elapsed, unload_in_progress, unloaded_this_idle_epoch>>
reaperVars  == <<policy, changed, reaper, idle_for>>
runtimeVars == <<generation, resident, loaded>>
sessionVars == <<session, key, read_generation>>
vars == <<trackerVars, reaperVars, runtimeVars, sessionVars, sweeps, quiet>>

SessionStates == {"new", "waiting", "held", "decoded", "marking", "done"}
ReaperStates  == {"read", "dormant", "sleeping", "recheck", "claim",
                  "bump", "unload", "finish", "aborted"}

\* Sessions inside their guard's lifetime.
InGuard  == {"held", "decoded", "marking"}
Holders  == {s \in Sessions : session[s] \in InGuard}

\* Faulty variant: the policy is copied out of the channel, not borrowed.
PolicyCopied == FALSE

\* The reaper keeps the watch channel's read guard from its second look at
\* the policy to the end of the iteration.
PolicyLocked == reaper \in {"claim", "bump", "unload", "finish"}
Tearing      == reaper \in {"bump", "unload", "finish"}

Init ==
  /\ active = 0
  /\ idle_elapsed = 0
  /\ unload_in_progress = FALSE
  /\ unloaded_this_idle_epoch = FALSE
  /\ policy \in Policies
  /\ changed = FALSE
  /\ reaper = "read"
  /\ idle_for = Never
  /\ generation = 0
  /\ resident = [k \in Keys |-> NoGeneration]
  /\ loaded = {}
  /\ session = [s \in Sessions |-> "new"]
  /\ key \in [Sessions -> Keys]
  /\ read_generation = [s \in Sessions |-> 0]
  /\ sweeps = 0
  /\ quiet = 0

-----------------------------------------------------------------------------
(* NativeActivityTracker: enter and exit.                                   *)

\* `enter` takes the state lock and finds an unload in progress: the thread
\* parks on the condition variable.
EnterWait(s) ==
  /\ session[s] = "new"
  /\ unload_in_progress
  /\ session' = [session EXCEPT ![s] = "waiting"]
  /\ UNCHANGED <<trackerVars, reaperVars, runtimeVars, key, read_generation, sweeps, quiet>>

\* Faulty variant: `enter` forgets to open a new idle epoch.
EnterSameEpoch(s) ==
  /\ session[s] \in {"new", "waiting"}
  /\ ~unload_in_progress
  /\ active' = active + 1
  /\ session' = [session EXCEPT ![s] = "held"]
  /\ sweeps' = 0
  /\ UNCHANGED <<idle_elapsed, unload_in_progress, unloaded_this_idle_epoch,
                 reaperVars, runtimeVars, key, read_generation, quiet>>

\* `enter` completes, at once or after the claim was dropped and
\* `notify_all` woke the thread up.
Enter(s) ==
  /\ session[s] \in {"new", "waiting"}
  /\ ~unload_in_progress
  /\ active' = active + 1
  /\ unloaded_this_idle_epoch' = FALSE
  /\ session' = [session EXCEPT ![s] = "held"]
  /\ sweeps' = 0
  /\ UNCHANGED <<idle_elapsed, unload_in_progress, reaperVars, runtimeVars,
                 key, read_generation, quiet>>

\* Only the exit that empties the tracker restarts the idle clock.
IdleElapsedAfterExit == IF active = 1 THEN 0 ELSE idle_elapsed

\* The guard drops: at the end of the request or on any early return.  An
\* unmatched exit (active = 0) is logged and ignored.
Exit(s) ==
  /\ session[s] \in InGuard
  /\ active' = IF active = 0 THEN 0 ELSE active - 1
  /\ idle_elapsed' = IdleElapsedAfterExit
  /\ session' = [session EXCEPT ![s] = "done"]
  /\ quiet' = 0
  /\ UNCHANGED <<unload_in_progress, unloaded_this_idle_epoch, reaperVars,
                 runtimeVars, key, read_generation, sweeps>>

-----------------------------------------------------------------------------
(* A request under its guard: the decode builds or reuses the runtime, and  *)
(* mark_native_model_warm reads the generation before it locks the map.     *)

Decode(s) ==
  /\ session[s] = "held"
  /\ loaded' = loaded \cup {key[s]}
  /\ session' = [session EXCEPT ![s] = "decoded"]
  /\ UNCHANGED <<trackerVars, reaperVars, generation, resident, key,
                 read_generation, sweeps, quiet>>

MarkWarmRead(s) ==
  /\ session[s] = "decoded"
  /\ read_generation' = [read_generation EXCEPT ![s] = generation]
  /\ session' = [session EXCEPT ![s] = "marking"]
  /\ UNCHANGED <<trackerVars, reaperVars, runtimeVars, key, sweeps, quiet>>

MarkWarmInsert(s) ==
  /\ session[s] = "marking"
  /\ resident' = [resident EXCEPT ![key[s]] = read_generation[s]]
  /\ session' = [session EXCEPT ![s] = "held"]
  /\ UNCHANGED <<trackerVars, reaperVars, generation, loaded, key,
                 read_generation, sweeps, quiet>>

\* `/health`: native_model_is_resident
Resident(k) == resident[k] = generation

-----------------------------------------------------------------------------
(* IdleUnloadController::publish.  The write waits while the reaper reads.  *)

Publish(p) ==
  /\ ~PolicyLocked
  /\ policy # p
  /\ policy' = p
  /\ changed' = TRUE
  /\ UNCHANGED <<trackerVars, reaper, idle_for, runtimeVars, sessionVars, sweeps, quiet>>

-----------------------------------------------------------------------------
(* run_idle_unload_reaper                                                   *)

ReaperRead ==
  /\ reaper = "read"
  /\ changed' = FALSE
  /\ \/ policy = Never /\ reaper' = "dormant" /\ UNCHANGED idle_for
     \/ policy # Never /\ reaper' = "sleeping" /\ idle_for' = policy
  /\ UNCHANGED <<trackerVars, policy, runtimeVars, sessionVars, sweeps, quiet>>

\* `policy.changed()` resolves; the biased select prefers it to the timer.
ReaperPolicyChanged ==
  /\ reaper \in {"dormant", "sleeping"}
  /\ changed
  /\ changed' = FALSE
  /\ reaper' = "read"
  /\ UNCHANGED <<trackerVars, policy, idle_for, runtimeVars, sessionVars, sweeps, quiet>>

ReaperSlept ==
  /\ reaper = "sleeping"
  /\ ~changed
  /\ reaper' = "recheck"
  /\ UNCHANGED <<trackerVars, policy, changed, idle_for, runtimeVars, sessionVars, sweeps, quiet>>

\* Second look at the policy; from here the watch read guard is held.
ReaperRecheck ==
  /\ reaper = "recheck"
  /\ changed' = FALSE
  /\ reaper' = IF policy = idle_for THEN "claim" ELSE "read"
  /\ UNCHANGED <<trackerVars, policy, idle_for, runtimeVars, sessionVars, sweeps, quiet>>

\* Faulty variant: the claim ignores the activity count.
ClaimableWhileActive ==
  ~unload_in_progress /\ ~unloaded_this_idle_epoch /\ idle_elapsed >= idle_for

Claimable ==
  /\ active = 0
  /\ ~unload_in_progress
  /\ ~unloaded_this_idle_epoch
  /\ idle_elapsed >= idle_for

\* try_claim_idle_unload
ReaperClaim ==
  /\ reaper = "claim"
  /\ \/ /\ Claimable
        /\ unload_in_progress' = TRUE
        /\ unloaded_this_idle_epoch' = TRUE
        /\ reaper' = "bump"
        /\ sweeps' = sweeps + 1
     \/ /\ ~Claimable
        /\ reaper' = "read"
        /\ UNCHANGED <<unload_in_progress, unloaded_this_idle_epoch, sweeps>>
  /\ UNCHANGED <<active, idle_elapsed, policy, changed, idle_for, runtimeVars,
                 sessionVars, quiet>>

\* Faulty variant: runtimes are torn down with their markers left in place.
ReaperBumpNothing ==
  /\ reaper = "bump"
  /\ reaper' = "unload"
  /\ UNCHANGED <<trackerVars, policy, changed, idle_for, runtimeVars, sessionVars, sweeps, quiet>>

\* advance_native_runtime_generation
ReaperBump ==
  /\ reaper = "bump"
  /\ generation' = generation + 1
  /\ resident' = [k \in Keys |-> NoGeneration]
  /\ reaper' = "unload"
  /\ UNCHANGED <<trackerVars, policy, changed, idle_for, loaded, sessionVars, sweeps, quiet>>

\* unload_idle_native_model_runtime_caches
ReaperUnload ==
  /\ reaper = "unload"
  /\ loaded' = {}
  /\ reaper' = "finish"
  /\ UNCHANGED <<trackerVars, policy, changed, idle_for, generation, resident,
                 sessionVars, sweeps, quiet>>

\* The claim drops, then the watch read guard at the end of the iteration.
ReaperFinish ==
  /\ reaper = "finish"
  /\ unload_in_progress' = FALSE
  /\ reaper' = "read"
  /\ UNCHANGED <<active, idle_elapsed, unloaded_this_idle_epoch, policy, changed,
                 idle_for, runtimeVars, sessionVars, sweeps, quiet>>

\* Dropping IdleUnloadReaper aborts the task, which happens at an await.
ReaperAbort ==
  /\ reaper \in {"dormant", "sleeping"}
  /\ reaper' = "aborted"
  /\ UNCHANGED <<trackerVars, policy, changed, idle_for, runtimeVars, sessionVars, sweeps, quiet>>

Tick ==
  /\ idle_elapsed' = Older(idle_elapsed)
  /\ quiet' = IF Holders = {} THEN Older(quiet) ELSE 0
  /\ UNCHANGED <<active, unload_in_progress, unloaded_this_idle_epoch, reaperVars,
                 runtimeVars, sessionVars, sweeps>>

-----------------------------------------------------------------------------
SessionStep(s) ==
  EnterWait(s) \/ Enter(s) \/ Exit(s) \/ Decode(s) \/ MarkWarmRead(s) \/ MarkWarmInsert(s)

ReaperStep ==
  \/ ReaperRead \/ ReaperPolicyChanged \/ ReaperSlept \/ ReaperRecheck
  \/ ReaperClaim \/ ReaperBump \/ ReaperUnload \/ ReaperFinish

Next ==
  \/ \E s \in Sessions : SessionStep(s)
  \/ \E p \in Policies : Publish(p)
  \/ ReaperStep
  \/ ReaperAbort
  \/ Tick

Spec == Init /\ [][Next]_vars

\* The reaper task and the clock make progress.  A woken waiter needs the
\* state mutex once between two claims, which are at least one poll interval
\* (a second or more) apart.  Nothing is assumed of the requests themselves.
Fairness ==
  /\ WF_vars(ReaperStep)
  /\ WF_vars(Tick)
  /\ \A s \in Sessions : SF_vars(session[s] = "waiting" /\ Enter(s))

FairSpec == Spec /\ Fairness

-----------------------------------------------------------------------------
(* Properties                                                               *)

TypeOK ==
  /\ active \in Nat
  /\ idle_elapsed \in Nat
  /\ unload_in_progress \in BOOLEAN
  /\ unloaded_this_idle_epoch \in BOOLEAN
  /\ policy \in Policies
  /\ changed \in BOOLEAN
  /\ reaper \in ReaperStates
  /\ idle_for \in Policies
  /\ generation \in Nat
  /\ resident \in [Keys -> Nat \cup {NoGeneration}]
  /\ loaded \subseteq Keys
  /\ session \in [Sessions -> SessionStates]
  /\ key \in [Sessions -> Keys]
  /\ read_generation \in [Sessions -> Nat]
  /\ sweeps \in Nat
  /\ quiet \in Nat

\* The module documentation of idle_activity.rs: nothing that uses a native
\* runtime may race its teardown.  While the reaper is between its claim and
\* the drop of the claim, no session is inside its guard.
NoGuardDuringUnload == Tearing => Holders = {}

\* What `/health` reports as model_resident: a runtime whose marker carries
\* the current generation is in the cache, at every point of every sweep.
ResidentMeansLoaded == \A k \in Keys : Resident(k) => k \in loaded

\* The reaper only acts under the policy that is in force while it acts (a
\* change to `never` or to a longer time made before the claim wins), only
\* when no guard has been held for that long, and however often it polls at
\* most once between two requests (unloaded_this_idle_epoch).
SweepIsJust ==
  /\ sweeps <= 1
  /\ Tearing => policy # Never /\ policy = idle_for /\ quiet >= policy

\* A request that found an unload in progress is eventually let in.  Once
\* requests stop coming and the policy stays what it is, the cached runtimes
\* are eventually gone, in every idle epoch, unless the server is shutting the
\* reaper down.
TrackerProgress ==
  /\ \A s \in Sessions : session[s] = "waiting" ~> session[s] # "waiting"
  /\ \A p \in Thresholds :
       <>[](Holders = {} /\ policy = p /\ reaper # "aborted") => <>[](loaded = {})

\* Inductive strengthening, in three parts.  The count is the number of open
\* guards, and the flag is up exactly while the reaper tears down.
TrackerInv ==
  /\ active = Cardinality(Holders)
  /\ unload_in_progress <=> Tearing
  /\ Tearing => Holders = {}

\* A session past its decode keeps its runtime loaded and its generation
\* current until it exits; between the new generation and the teardown no
\* marker is current.
MarkerInv ==
  /\ \A s \in Sessions : session[s] \in {"decoded", "marking"} => key[s] \in loaded
  /\ \A s \in Sessions : session[s] = "marking" => read_generation[s] = generation
  /\ reaper \in {"unload", "finish"} => \A k \in Keys : ~Resident(k)
  /\ ResidentMeansLoaded

\* The epoch flag records a sweep, the idle clock is the true quiet time
\* whenever nobody is inside, and a locked policy is the one being acted on.
SweepInv ==
  /\ sweeps <= 1
  /\ ~unloaded_this_idle_epoch => sweeps = 0
  /\ Holders = {} => idle_elapsed = quiet
  /\ reaper \in {"sleeping", "recheck"} => idle_for # Never
  /\ PolicyLocked => policy # Never /\ policy = idle_for
  /\ Tearing => quiet >= policy

IInv == TypeOK /\ TrackerInv /\ MarkerInv /\ SweepInv

\* The tracker and the reaper together implement the abstract exclusion:
\* sessions share the runtimes, the reaper's claim excludes all of them.
SX == INSTANCE SharedExclusive
        WITH Users <- Sessions, users <- Holders, exclusive <- unload_in_progress
TrackerIsSharedExclusive == SX!SXSpec
=============================================================================
