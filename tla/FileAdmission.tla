---------------------------- MODULE FileAdmission ----------------------------
(***************************************************************************)
(* The file FIFO of the remote-compute policy (openasr-server,             *)
(* remote_runtime_policy.rs) with its users: the HTTP handler of a file    *)
(* request (admission loop, disconnect guard), the blocking worker it      *)
(* spawns, the cancel route, and realtime sessions that compete for the    *)
(* native permits.                                                         *)
(*                                                                         *)
(* Every policy method is one step under the policy mutex; what a handler  *)
(* reads in one method and acts on in the next is two steps.  The worker   *)
(* of an aborted request goes on by itself: dropping the handler's future  *)
(* does not stop a blocking task.  A transcription id is used once.        *)
(***************************************************************************)
EXTENDS Integers, FiniteSets, SequencesExt

CONSTANTS
  Files,         \* transcription ids
  Realtimes,     \* realtime sessions
  Limit,         \* native permits of the one model
  Disconnecting, \* files whose client may go away before its answer
  Cancelable,    \* files the cancel route may be called for
  None

ASSUME LimitAssumption == Limit \in Nat \ {0}
ASSUME NoneAssumption == None \notin Files
ASSUME ClientsAssumption == Disconnecting \subseteq Files /\ Cancelable \subseteq Files

VARIABLES
  running,    \* FileTaskFifo.running
  queued,     \* FileTaskFifo.queued
  pending,    \* whether a model switch is pending (PendingIdleSwitch)
  file,       \* the handler of each file request, see FilePhases
  occupied,   \* what the handler's last file_slot_occupied returned
  cancel,     \* the cancel route: "none", "requested" (control flagged), "done"
  worker,     \* the blocking worker of the request
  realtime    \* each realtime session

vars == <<running, queued, pending, file, occupied, cancel, worker, realtime>>

FilePhases == {"new", "poll", "pollNative", "admit", "asleep", "admitted",
               "drop", "dropQueued", "ended"}

Canceled(f) == cancel[f] # "none"
IsQueued(f) == Contains(queued, f)
Permits == Cardinality({f \in Files : worker[f] = "decoding"})
             + Cardinality({r \in Realtimes : realtime[r] = "active"})

Init ==
  /\ running = None
  /\ queued = <<>>
  /\ pending = FALSE
  /\ file = [f \in Files |-> "new"]
  /\ occupied = [f \in Files |-> FALSE]
  /\ cancel = [f \in Files |-> "none"]
  /\ worker = [f \in Files |-> "none"]
  /\ realtime = [r \in Realtimes |-> "new"]

-----------------------------------------------------------------------------
(* FileTaskFifo                                                             *)

Fifo(run, queue) == running' = run /\ queued' = queue

\* retain(queued != id); an id is never queued twice (TypeOK).
Without(f) ==
  IF IsQueued(f) THEN RemoveAt(queued, CHOOSE i \in 1..Len(queued) : queued[i] = f) ELSE queued

\* Faulty variant: a cancelled running file gives its slot to the next one.
CancelPromotes(f) ==
  IF running = f
  THEN IF queued = <<>> THEN Fifo(None, <<>>) ELSE Fifo(Head(queued), Tail(queued))
  ELSE Fifo(running, Without(f))

\* cancel: a running file keeps its slot until it finishes.
CancelFile(f) ==
  IF running = f THEN Fifo(running, queued)
  ELSE Fifo(running, Without(f))

\* Faulty variant: the slot is not given back.
FinishForgotten(f) == Fifo(running, queued)

\* finish, promoting the head of the queue.
FinishFile(f) ==
  IF running # f THEN Fifo(running, queued)
  ELSE IF queued = <<>> THEN Fifo(None, <<>>)
  ELSE Fifo(Head(queued), Tail(queued))

\* Faulty variant: the caller takes a free slot past the waiting head.
NoPromotion(occ) == FALSE

\* promote_head_if_idle, called only when the slot is not occupied.
PromotesHead(occ) == ~occ /\ running = None /\ queued # <<>>

\* A re-poll finds its id and does not append it once more.
Tracked(f, queue) == Contains(queue, f)

\* admit_file: what the FIFO becomes and what the caller is told.
AdmitFile(f, occ) ==
  LET run == IF PromotesHead(occ) THEN Head(queued) ELSE running
      queue == IF PromotesHead(occ) THEN Tail(queued) ELSE queued
  IN CASE run = f -> [run |-> run, queue |-> queue, answer |-> IF occ THEN "Queued" ELSE "Running"]
       [] run # f /\ Tracked(f, queue) -> [run |-> run, queue |-> queue, answer |-> "Queued"]
       [] run # f /\ ~Tracked(f, queue) /\ pending ->
            [run |-> run, queue |-> queue, answer |-> "PendingIdleSwitch"]
       [] run # f /\ ~Tracked(f, queue) /\ ~pending /\ ~occ /\ run = None ->
            [run |-> f, queue |-> queue, answer |-> "Running"]
       [] OTHER -> [run |-> run, queue |-> Append(queue, f), answer |-> "Queued"]

-----------------------------------------------------------------------------
(* The request handler                                                      *)

\* admit_file_request: the id is registered and the cleanup guard armed.
Register(f) ==
  /\ file[f] = "new"
  /\ file' = [file EXCEPT ![f] = "poll"]
  /\ UNCHANGED <<running, queued, pending, occupied, cancel, worker, realtime>>

\* wait_for_file_admission, top of the loop: a cancelled request leaves.
PollCanceled(f) ==
  /\ file[f] = "poll" /\ Canceled(f)
  /\ CancelFile(f)
  /\ file' = [file EXCEPT ![f] = "drop"]
  /\ UNCHANGED <<pending, occupied, cancel, worker, realtime>>

\* file_slot_occupied, first read: another file has the slot.
PollFile(f) ==
  /\ file[f] = "poll" /\ ~Canceled(f)
  /\ occupied' = [occupied EXCEPT ![f] = running \notin {None, f}]
  /\ file' = [file EXCEPT ![f] = IF running \notin {None, f} THEN "admit" ELSE "pollNative"]
  /\ UNCHANGED <<running, queued, pending, cancel, worker, realtime>>

\* file_slot_occupied, second read: someone holds a native permit.  A parked
\* realtime session keeps its permit, so has_held_realtime adds nothing.
PollNative(f) ==
  /\ file[f] = "pollNative"
  /\ occupied' = [occupied EXCEPT ![f] = Permits > 0]
  /\ file' = [file EXCEPT ![f] = "admit"]
  /\ UNCHANGED <<running, queued, pending, cancel, worker, realtime>>

\* admit_file with the value read before; a file told Running starts its worker.
Admit(f) ==
  LET result == AdmitFile(f, occupied[f]) IN
  /\ file[f] = "admit"
  /\ Fifo(result.run, result.queue)
  /\ file' = [file EXCEPT ![f] = CASE result.answer = "Running" -> "admitted"
                                   [] result.answer = "Queued" -> "asleep"
                                   [] OTHER -> "drop"]
  /\ worker' = [worker EXCEPT ![f] = IF result.answer = "Running" THEN "preparing" ELSE @]
  /\ UNCHANGED <<pending, occupied, cancel, realtime>>

\* The select of the loop returns: a notification or 50 ms.
Wake(f) ==
  /\ file[f] = "asleep"
  /\ file' = [file EXCEPT ![f] = "poll"]
  /\ UNCHANGED <<running, queued, pending, occupied, cancel, worker, realtime>>

\* The decode returned: disarm, then the guard's drop releases the slot.
Respond(f) ==
  /\ file[f] = "admitted" /\ worker[f] = "done"
  /\ FinishFile(f)
  /\ file' = [file EXCEPT ![f] = "ended"]
  /\ UNCHANGED <<pending, occupied, cancel, worker, realtime>>

\* The client goes away while the handler is suspended: the future is
\* dropped and the armed guard flags the control.
Disconnect(f) ==
  /\ f \in Disconnecting
  /\ file[f] \in {"asleep", "admitted"}
  /\ file' = [file EXCEPT ![f] = "drop"]
  /\ cancel' = [cancel EXCEPT ![f] = IF @ = "none" THEN "done" ELSE @]
  /\ UNCHANGED <<running, queued, pending, occupied, worker, realtime>>

\* ActiveTranscriptionCleanup::drop while armed.  The guard asks whether the
\* file is queued; if not, it frees the slot in case the file has it.
DropCheck(f) ==
  /\ file[f] = "drop"
  /\ \/ /\ IsQueued(f)
        /\ file' = [file EXCEPT ![f] = "dropQueued"]
        /\ UNCHANGED <<running, queued>>
     \/ /\ ~IsQueued(f)
        /\ FinishFile(f)
        /\ file' = [file EXCEPT ![f] = "ended"]
  /\ UNCHANGED <<pending, occupied, cancel, worker, realtime>>

\* ... and if it was queued, cancels it, under the lock taken anew.
DropQueued(f) ==
  /\ file[f] = "dropQueued"
  /\ CancelFile(f)
  /\ file' = [file EXCEPT ![f] = "ended"]
  /\ UNCHANGED <<pending, occupied, cancel, worker, realtime>>

\* cancel_transcription_job on a registered id: flag the control, ...
RequestCancel(f) ==
  /\ f \in Cancelable /\ file[f] \notin {"new", "ended"} /\ cancel[f] = "none"
  /\ cancel' = [cancel EXCEPT ![f] = "requested"]
  /\ UNCHANGED <<running, queued, pending, file, occupied, worker, realtime>>

\* ... then take the file out of the queue.
CancelRoute(f) ==
  /\ cancel[f] = "requested"
  /\ CancelFile(f)
  /\ cancel' = [cancel EXCEPT ![f] = "done"]
  /\ UNCHANGED <<pending, file, occupied, worker, realtime>>

-----------------------------------------------------------------------------
(* The blocking worker of transcribe_with_runtime                           *)

AlreadyAdmitted(f) == running = f \/ IsQueued(f)

\* Audio preparation fails, or try_acquire_native_execution refuses.
WorkerFails(f) ==
  /\ worker[f] = "preparing"
  /\ worker' = [worker EXCEPT ![f] = "done"]
  /\ UNCHANGED <<running, queued, pending, file, occupied, cancel, realtime>>

\* Preparation is over; the control is not looked at before the permit is taken.
WorkerAcquire(f) ==
  /\ worker[f] = "preparing"
  /\ AlreadyAdmitted(f) \/ ~pending
  /\ Permits < Limit
  /\ worker' = [worker EXCEPT ![f] = "decoding"]
  /\ UNCHANGED <<running, queued, pending, file, occupied, cancel, realtime>>

WorkerReturn(f) ==
  /\ worker[f] = "decoding"
  /\ worker' = [worker EXCEPT ![f] = "done"]
  /\ UNCHANGED <<running, queued, pending, file, occupied, cancel, realtime>>

-----------------------------------------------------------------------------
(* Realtime sessions and the pending model switch                           *)

\* try_acquire_native_execution for a realtime session: busy at once when a
\* file has the slot or a switch is pending.
RealtimeCheck(r) ==
  /\ realtime[r] = "new"
  /\ realtime' = [realtime EXCEPT ![r] = IF pending \/ running # None THEN "ended" ELSE "checked"]
  /\ UNCHANGED <<running, queued, pending, file, occupied, cancel, worker>>

RealtimeAcquire(r) ==
  /\ realtime[r] = "checked"
  /\ realtime' = [realtime EXCEPT ![r] = IF Permits < Limit THEN "active" ELSE "ended"]
  /\ UNCHANGED <<running, queued, pending, file, occupied, cancel, worker>>

RealtimeEnd(r) ==
  /\ realtime[r] = "active"
  /\ realtime' = [realtime EXCEPT ![r] = "ended"]
  /\ UNCHANGED <<running, queued, pending, file, occupied, cancel, worker>>

\* request_idle_switch and cancel_idle_switch.
SetPending(p) ==
  /\ pending' = p
  /\ UNCHANGED <<running, queued, file, occupied, cancel, worker, realtime>>

Handler(f) ==
  \/ PollCanceled(f) \/ PollFile(f) \/ PollNative(f) \/ Admit(f) \/ Wake(f)
  \/ Respond(f) \/ DropCheck(f) \/ DropQueued(f)
Worker(f) == WorkerFails(f) \/ WorkerAcquire(f) \/ WorkerReturn(f)

Next ==
  \/ \E f \in Files : \/ Register(f) \/ Handler(f) \/ Disconnect(f)
                      \/ RequestCancel(f) \/ CancelRoute(f) \/ Worker(f)
  \/ \E r \in Realtimes : RealtimeCheck(r) \/ RealtimeAcquire(r) \/ RealtimeEnd(r)
  \/ \E p \in BOOLEAN : SetPending(p)

Spec == Init /\ [][Next]_vars

\* The executor runs every handler and worker to its next await; a decode
\* returns, and a realtime user hangs up some day.
FairSpec ==
  /\ Spec
  /\ \A f \in Files : WF_vars(Handler(f)) /\ WF_vars(CancelRoute(f)) /\ WF_vars(Worker(f))
  /\ \A r \in Realtimes : WF_vars(RealtimeEnd(r))

-----------------------------------------------------------------------------
(* Properties                                                               *)

TypeOK ==
  /\ running \in Files \cup {None}
  /\ queued \in Seq(Files) /\ IsInjective(queued)
  /\ pending \in BOOLEAN
  /\ file \in [Files -> FilePhases]
  /\ occupied \in [Files -> BOOLEAN]
  /\ cancel \in [Files -> {"none", "requested", "done"}]
  /\ worker \in [Files -> {"none", "preparing", "decoding", "done"}]
  /\ realtime \in [Realtimes -> {"new", "checked", "active", "ended"}]

\* A request that was told to run has the FIFO's slot until its own guard
\* gives it back: cancels, promotions and re-polls of other requests never
\* take it away, so at most one request runs.
AdmittedHasSlot == \A f \in Files : file[f] = "admitted" => running = f

\* The running file is not waiting as well, so it cannot be promoted twice.
RunningNotQueued == running # None => ~IsQueued(running)

\* First come, first served: the slot goes to the head of the queue, and a
\* newcomer gets it only when nobody waits, whatever stale occupancy the
\* callers act on.
NoOvertaking ==
  [][running' # running /\ running' # None => queued = <<>> \/ running' = Head(queued)]_vars

\* "Abort must release the FIFO immediately" (ActiveTranscriptionCleanup):
\* a request that is over does not have the slot.
AbortReleasesFifo == \A f \in Files : file[f] = "ended" => running # f

\* A request whose client stays is answered, whatever is cancelled, refused or
\* aborted around it; the one way to wait for ever is a slot left with an
\* aborted request.
EveryRequestEnds ==
  \A f \in Files \ Disconnecting :
    file[f] = "poll"
      ~> (file[f] = "ended" \/ \E g \in Disconnecting : file[g] = "ended" /\ running = g)
=============================================================================
