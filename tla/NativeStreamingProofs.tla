------------------------ MODULE NativeStreamingProofs ------------------------
(***************************************************************************)
(* Proofs about the permits of ModelAdmission and about NativeStreaming    *)
(* over them, for any number of sessions and models, any limit and any     *)
(* number of workers given up.                                             *)
(***************************************************************************)
EXTENDS NativeStreaming, TLAPS

\* Most leaves are first-order and left to Zenon; those with arithmetic cite SMT.
USE Zenon

-----------------------------------------------------------------------------
(* The sessions and the workers                                             *)

\* None is not a session.
LEMMA NoneIsNoSession == None \notin Sessions
  BY SessionsAssumption

\* What a step of the permit registry does to other sessions.
LEMMA TryAcquireOthers ==
  ASSUME IInv, NEW s \in Sessions, TryAcquire(s)
  PROVE  /\ [Next]_vars
         /\ model' = model
         /\ \A t \in Sessions \ {s} : state'[t] = state[t] /\ permit'[t] = permit[t]
         /\ state' \in [Sessions -> {"new", "admitted", "rejected", "done"}]
         /\ state[s] = "new"
  <1>1. TypeOK
    BY DEF IInv
  <1>4. model' = model /\ state[s] = "new"
    BY DEF TryAcquire
  <1>5. \A t \in Sessions \ {s} : state'[t] = state[t]
    BY <1>1 DEF TryAcquire, TypeOK
  <1>6. \A t \in Sessions \ {s} : permit'[t] = permit[t]
    BY <1>1 DEF TryAcquire, TypeOK
  <1> QED
    BY <1>1, <1>4, <1>5, <1>6 DEF TryAcquire, TypeOK, Next

\* A permit dropped is its session's alone, ...
LEMMA DropOthers ==
  ASSUME IInv, NEW s \in Sessions, Drop(s)
  PROVE  /\ [Next]_vars
         /\ model' = model
         /\ \A t \in Sessions \ {s} : state'[t] = state[t] /\ permit'[t] = permit[t]
  <1>1. TypeOK
    BY DEF IInv
  <1>3. model' = model
    BY DEF Drop
  <1>4. \A t \in Sessions \ {s} : state'[t] = state[t]
    BY <1>1 DEF Drop, TypeOK
  <1>5. \A t \in Sessions \ {s} : permit'[t] = permit[t]
    BY <1>1 DEF Drop, TypeOK
  <1> QED
    BY <1>3, <1>4, <1>5 DEF Next

\* ... and so is one taken back from a worker given up.
LEMMA ReclaimOthers ==
  ASSUME IInv, NEW t \in Sessions \cup {None}, Reclaim(t)
  PROVE  /\ [Next]_vars
         /\ model' = model
         /\ \A u \in Sessions \ {t} : state'[u] = state[u] /\ permit'[u] = permit[u]
BY DropOthers DEF Reclaim, vars

\* A thread that a step leaves alone, with its attaches, serves as before.
LEMMA ServesFrame ==
  ASSUME NEW w \in Sessions, Serves(w),
         thread'[w] = thread[w], drives'[w] = drives[w], occupant'[w] = occupant[w], queue'[w] = queue[w],
         \A t \in attached : worker[t] = w => t \in attached' /\ worker'[t] = w,
         ended \subseteq ended'
  PROVE  Serves(w)'
BY DEF Serves

\* Who is served depends on the threads and the queues only.
LEMMA ServedFrame ==
  ASSUME ServedInv, UNCHANGED <<thread, drives, occupant, queue, attached, worker, ended>>
  PROVE  ServedInv'
  BY ServesFrame DEF ServedInv

\* Entries may go, and attaches may end, as long as the others keep their permits.
LEMMA RegisteredFrame ==
  ASSUME RegisteredInv, UNCHANGED <<key, worker, model>>,
         \A k \in Keys : registry'[k] # None => registry'[k] = registry[k],
         \A t \in attached' : t \in attached /\ state'[t] = state[t] /\ permit'[t] = permit[t]
  PROVE  RegisteredInv'
BY SMTT(30) DEF RegisteredInv

\* The service starts with no session and no worker.
LEMMA StreamInitInv ==
  ASSUME StreamInit, IInv
  PROVE  StreamInv
  <1>3. UnbornInv /\ BornInv /\ RegisteredInv /\ EvictedInv
    BY NoneIsNoSession DEF StreamInit, UnbornInv, BornInv, RegisteredInv, EvictedInv, Unborn
  <1>5. GateInv
    BY DEF StreamInit, GateInv, InNativeCode, Calling, Building
  <1>6. WorkerPerAttach /\ LateWarmUpIsInert /\ LiveSessionPinsRuntime
    BY DEF StreamInit, WorkerPerAttach, LateWarmUpIsInert, LiveSessionPinsRuntime, Live
  <1> QED
    BY <1>3, <1>5, <1>6, SMTT(30) DEF StreamInv, StreamInit, StreamTypeOK, Phases, ThreadPhases,
       ServedInv, Serves

\* A step of a running session's task that touches neither registry, threads
\* nor permits: sending, applying outcomes, closing, parking, resuming, expiring.
LEMMA TaskOnly ==
  ASSUME StreamInv, IInv', NEW s \in Sessions, NEW phase,
         ws[s] \in Live \cup {"held"},
         phase \in Live \cup {"held", "expired", "closed"},
         Go(s, phase),
         guards' = guards \/ (guards' = guards \ {s} /\ phase = "closed"),
         UNCHANGED <<vars, gate, registryVars, threadVars, abandoned, overtaken>>
  PROVE  StreamInv'
  <1> USE DEF StreamInv, registryVars, threadVars, Go
  <1>0. ws' = [ws EXCEPT ![s] = phase] /\ ws \in [Sessions -> Phases]
    BY DEF StreamTypeOK
  <1>2. StreamTypeOK'
    BY DEF StreamTypeOK, Phases, Live
  <1>3. UnbornInv'
    BY <1>0 DEF UnbornInv, Unborn, Live, vars
  <1>4. BornInv'
    BY <1>0 DEF BornInv, Unborn, Live
  <1>5. ServedInv'
    BY ServedFrame
  <1>6. RegisteredInv'
    BY RegisteredFrame DEF vars
  <1>7. EvictedInv'
    BY <1>0 DEF EvictedInv, Live
  <1>8. GateInv'
    BY <1>0 DEF GateInv, InNativeCode, Calling, Building, Live, vars
  <1>9. WorkerPerAttach' /\ LateWarmUpIsInert'
    BY DEF WorkerPerAttach, LateWarmUpIsInert
  <1>10. LiveSessionPinsRuntime'
    BY <1>0 DEF LiveSessionPinsRuntime, Live
  <1> QED
    BY <1>2, <1>3, <1>4, <1>5, <1>6, <1>7, <1>8, <1>9, <1>10

\* What a session does once it is attached: send, read the outcome, park, resume, expire.
LEMMA SessionTasks ==
  ASSUME StreamInv, IInv', NEW s \in Sessions,
         \/ SendWork(s) \/ SendFinish(s) \/ ApplyOutcome(s) \/ WorkerStopped(s) \/ ClientCancel(s)
         \/ Park(s) \/ Resume(s) \/ Expire(s) \/ Elapse(s)
  PROVE  StreamInv'
  <1> USE DEF channelVars, tokenVars, processVars
  <1>0. ws \in [Sessions -> Phases]
    BY DEF StreamInv, StreamTypeOK
  <1>1. CASE SendWork(s)
    BY <1>0, <1>1, TaskOnly DEF SendWork, Send, Go, Live
  <1>2. CASE SendFinish(s)
    BY <1>2, TaskOnly DEF SendFinish, Send, Live
  <1>3. CASE ApplyOutcome(s)
    BY <1>3, TaskOnly DEF ApplyOutcome, BeginShutdown, Live
  <1>4. CASE WorkerStopped(s)
    BY <1>4, TaskOnly DEF WorkerStopped, BeginShutdown, Live
  <1>5. CASE ClientCancel(s)
    BY <1>5, TaskOnly DEF ClientCancel, BeginShutdown, Live
  <1>6. CASE Park(s)
    BY <1>6, TaskOnly DEF Park, Live
  <1>7. CASE Resume(s)
    BY <1>7, TaskOnly DEF Resume, Live
  <1>8. CASE Expire(s)
    BY <1>8, TaskOnly DEF Expire, BeginShutdown, Live
  <1>9. CASE Elapse(s)
    BY <1>9, TaskOnly DEF Elapse, Live
  <1> QED
    BY <1>1, <1>2, <1>3, <1>4, <1>5, <1>6, <1>7, <1>8, <1>9

\* A session is admitted or refused; it has no attach yet.
LEMMA StartStep ==
  ASSUME StreamInv, IInv', NEW s \in Sessions, StartSession(s)
  PROVE  StreamInv'
  <1> USE DEF StreamInv, channelVars, tokenVars, processVars, registryVars, threadVars, Go
  <1>0. PICK phase \in {"preparing", "closed"} :
          ws' = [ws EXCEPT ![s] = phase] /\ (phase = "preparing" => state'[s] = "admitted")
    BY DEF StartSession
  <1>1. /\ IInv' /\ model' = model
        /\ \A t \in Sessions \ {s} : state'[t] = state[t] /\ permit'[t] = permit[t]
    BY TryAcquireOthers DEF StartSession, vars
  <1>2. ws[s] = "new" /\ ws \in [Sessions -> Phases]
    BY DEF StartSession, StreamTypeOK
  <1>3. s \notin attached /\ \A t \in Sessions : worker[t] # s
    BY <1>2 DEF UnbornInv, Unborn
  <1>4. UNCHANGED <<gate, registry, key, worker, attached, queue, thread, drives, occupant, ended,
                    abandoned, guards, overtaken>>
    BY DEF StartSession
  <1>5. StreamTypeOK'
    BY <1>0, <1>4 DEF StreamTypeOK, Phases
  <1>6. UnbornInv'
    BY <1>0, <1>1, <1>2, <1>4 DEF UnbornInv, Unborn
  <1>7. BornInv'
    BY <1>0, <1>2, <1>4 DEF BornInv, Unborn
  <1>8. ServedInv'
    BY <1>4, ServedFrame
  <1>9. RegisteredInv'
    BY <1>1, <1>3, <1>4, RegisteredFrame DEF StreamTypeOK
  <1>10. EvictedInv'
    BY <1>0, <1>2, <1>4 DEF EvictedInv
  <1>11. GateInv'
    <2>2. \A t \in attached \ abandoned : state'[t] = "admitted"
      BY <1>1, <1>3 DEF GateInv, StreamTypeOK
    <2> QED
      BY <1>0, <1>2, <1>4, <2>2 DEF GateInv, InNativeCode, Calling, Building
  <1>12. WorkerPerAttach' /\ LateWarmUpIsInert'
    BY <1>4 DEF WorkerPerAttach, LateWarmUpIsInert
  <1>13. LiveSessionPinsRuntime'
    BY <1>0, <1>2, <1>4 DEF LiveSessionPinsRuntime, Live
  <1> QED
    BY <1>1, <1>5, <1>6, <1>7, <1>8, <1>9, <1>10, <1>11, <1>12, <1>13

\* The gate is taken only when it is free, so nobody runs native code.
LEMMA PrepareStep ==
  ASSUME StreamInv, IInv', NEW s \in Sessions, Prepare(s)
  PROVE  StreamInv'
  <1> USE DEF StreamInv, channelVars, tokenVars, processVars, registryVars, threadVars, Go
  <1>2. /\ ws[s] = "preparing" /\ ws \in [Sessions -> Phases]
        /\ ws' = [ws EXCEPT ![s] = "building"]
        /\ gate = None /\ gate' = s
    BY DEF Prepare, StreamTypeOK
  <1>3. /\ UNCHANGED <<registry, key, worker, attached, queue, thread, drives, occupant, ended,
                       abandoned, guards, overtaken>>
        /\ UNCHANGED <<state, model, permit>>
    BY DEF Prepare, vars
  <1>7. RegisteredInv' /\ EvictedInv'
    BY <1>2, <1>3, RegisteredFrame DEF EvictedInv
  <1>8. GateInv'
    BY <1>2, <1>3, NoneIsNoSession, SMTT(30) DEF GateInv, InNativeCode, Calling, ServedInv, Serves, Building
  <1>9. LiveSessionPinsRuntime'
    BY <1>2, <1>3 DEF LiveSessionPinsRuntime, Live
  <1> QED
    BY <1>2, <1>3, <1>7, <1>8, <1>9, ServedFrame, SMTT(30) DEF Prepare, StreamTypeOK, Phases,
       UnbornInv, BornInv, Unborn, WorkerPerAttach, LateWarmUpIsInert

\* A session that is built is the only one that runs native code.
LEMMA OnlyBuilder ==
  ASSUME StreamInv, NEW s \in Sessions, ws[s] = "building"
  PROVE  gate = s /\ InNativeCode = {} /\ Building = {s} /\ s \notin attached /\ state[s] = "admitted"
  <1> USE DEF StreamInv
  <1> QED
    BY NoneIsNoSession, SMTT(30) DEF GateInv, InNativeCode, ServedInv, Serves, UnbornInv, Unborn, Building

\* The build of the session fails and its permit goes.
LEMMA BuildFailsStep ==
  ASSUME StreamInv, IInv', NEW s \in Sessions, BuildFails(s)
  PROVE  StreamInv'
  <1> USE DEF StreamInv, channelVars, tokenVars, processVars, registryVars, threadVars, Go
  <1>1. /\ IInv' /\ model' = model
        /\ \A t \in Sessions \ {s} : state'[t] = state[t] /\ permit'[t] = permit[t]
    BY DropOthers DEF BuildFails
  <1>2. /\ ws[s] = "building" /\ ws \in [Sessions -> Phases]
        /\ ws' = [ws EXCEPT ![s] = "closed"]
        /\ gate' = None
    BY DEF BuildFails, StreamTypeOK
  <1>3. UNCHANGED <<registry, key, worker, attached, queue, thread, drives, occupant, ended,
                    abandoned, guards, overtaken>>
    BY DEF BuildFails
  <1>4. InNativeCode = {} /\ Building = {s} /\ s \notin attached
    BY <1>2, OnlyBuilder
  <1>5. StreamTypeOK'
    BY <1>2, <1>3 DEF StreamTypeOK, Phases
  <1>6. UnbornInv' /\ BornInv'
    BY <1>1, <1>2, <1>3 DEF UnbornInv, BornInv, Unborn
  <1>7. ServedInv' /\ WorkerPerAttach' /\ LateWarmUpIsInert'
    BY <1>3, ServedFrame DEF WorkerPerAttach, LateWarmUpIsInert
  <1>8. RegisteredInv'
    BY <1>1, <1>3, <1>4, RegisteredFrame DEF StreamTypeOK
  <1>9. EvictedInv'
    BY <1>2, <1>3 DEF EvictedInv
  <1>10. GateInv'
    <2>3. \A t \in attached \ abandoned : state'[t] = "admitted"
      BY <1>1, <1>4 DEF GateInv, StreamTypeOK
    <2> QED
      BY <1>2, <1>3, <1>4, <2>3 DEF GateInv, InNativeCode, Calling, Building
  <1>11. LiveSessionPinsRuntime'
    BY <1>2, <1>3 DEF LiveSessionPinsRuntime, Live
  <1> QED
    BY <1>1, <1>5, <1>6, <1>7, <1>8, <1>9, <1>10, <1>11

\* The worker registered for the slot a session was given serves nobody: an
\* attach that it still served would hold the permit for the same slot.
LEMMA FreeWorker ==
  ASSUME StreamInv, NEW s \in Sessions, ws[s] = "building",
         NEW k, k = <<model[s], permit[s].slot_index>>
  PROVE  /\ k \in Keys
         /\ \A t \in attached : worker[t] # registry[k]
         /\ registry[k] # None => /\ occupant[registry[k]] = None
                                  /\ drives[registry[k]] = None
                                  /\ queue[registry[k]] = <<>>
  <1> USE DEF StreamInv
  <1>1. TypeOK /\ SlotsAreDistinct /\ s \notin attached /\ state[s] = "admitted"
    BY OnlyBuilder DEF IInv
  <1>2. k \in Keys
    BY <1>1 DEF TypeOK, Keys
  <1>3. ASSUME NEW t \in attached, worker[t] = registry[k] PROVE FALSE
    BY <1>1, <1>2, <1>3, SMTT(30) DEF GateInv, RegisteredInv, TypeOK, Holders, SlotsAreDistinct
  <1>4. ASSUME registry[k] # None
        PROVE  occupant[registry[k]] = None /\ drives[registry[k]] = None /\ queue[registry[k]] = <<>>
    <2>1. registry[k] \in Sessions
      BY <1>2, <1>4 DEF StreamTypeOK
    <2> QED
      BY <1>3, <2>1, SMTT(30) DEF ServedInv, Serves
  <1> QED
    BY <1>2, <1>3, <1>4

\* attach_admitted never meets a canceled occupant, so it preempts nobody: it
\* reuses the registered worker, which is free, or registers a new one.
LEMMA AttachEffect ==
  ASSUME StreamInv, NEW s \in Sessions, Attach(s)
  PROVE  \E k \in Keys, own \in Sessions :
           /\ k = <<model[s], permit[s].slot_index>>
           /\ own = IF registry[k] = None THEN s ELSE registry[k]
           /\ registry' = [registry EXCEPT ![k] = own]
           /\ key' = [key EXCEPT ![s] = k]
           /\ worker' = [worker EXCEPT ![s] = own]
           /\ queue' = [queue EXCEPT ![own] = <<s>>]
           /\ attached' = attached \cup {s}
           /\ guards' = (guards \ {None}) \cup {s}
           /\ gate' = None
           /\ ws' = [ws EXCEPT ![s] = "warming"]
           /\ UNCHANGED <<vars, occupant, abandoned, thread, drives, ended, overtaken>>
           /\ queue[own] = <<>> /\ drives[own] = None
           /\ \A t \in attached : worker[t] # own
  <1> DEFINE k == <<model[s], permit[s].slot_index>>
             w == registry[k]
             preempted == IF w # None /\ occupant[w] \in canceled THEN occupant[w] ELSE None
             own == IF w = None \/ preempted # None THEN s ELSE w
  <1>0. ws[s] = "building"
    BY DEF Attach
  <1>1. /\ k \in Keys
        /\ \A t \in attached : worker[t] # w
        /\ w # None => occupant[w] = None /\ drives[w] = None /\ queue[w] = <<>>
    BY <1>0, FreeWorker
  <1>2. preempted = None
    BY <1>1
  <1>3. own = IF registry[k] = None THEN s ELSE registry[k]
    BY <1>2
  <1>4. own \in Sessions
    BY <1>1, <1>3 DEF StreamInv, StreamTypeOK
  <1>5. queue[own] = <<>> /\ drives[own] = None /\ \A t \in attached : worker[t] # own
    <2>1. CASE w = None
      BY <1>0, <1>3, <2>1, SMTT(30) DEF StreamInv, StreamTypeOK, UnbornInv, Unborn, ServedInv, Serves
    <2>2. CASE w # None
      BY <1>1, <1>3, <2>2
    <2> QED
      BY <2>1, <2>2
  <1>6. /\ gate' = None
        /\ key' = [key EXCEPT ![s] = k]
        /\ worker' = [worker EXCEPT ![s] = own]
        /\ registry' = [registry EXCEPT ![k] = own]
        /\ occupant' = IF preempted = None THEN occupant ELSE [occupant EXCEPT ![w] = None]
        /\ abandoned' = abandoned \cup ({preempted} \ {None})
        /\ guards' = (guards \ {preempted}) \cup {s}
        /\ Reclaim(preempted)
        /\ attached' = attached \cup {s}
        /\ queue' = [queue EXCEPT ![own] = Append(queue[own], s)]
        /\ ws' = [ws EXCEPT ![s] = "warming"]
        /\ UNCHANGED <<thread, drives, ended, overtaken>>
    BY DEF Attach, Go, processVars
  <1>7. Append(queue[own], s) = <<s>>
    <2> HIDE DEF own
    <2> QED
      BY <1>5, SMTT(30)
  <1>8. UNCHANGED vars /\ occupant' = occupant /\ abandoned' = abandoned /\ guards' = (guards \ {None}) \cup {s}
    BY <1>2, <1>6 DEF Reclaim
  <1> HIDE DEF k, own, preempted, w
  <1>9. k = <<model[s], permit[s].slot_index>>
    BY DEF k
  <1> QED
    BY <1>1, <1>3, <1>4, <1>5, <1>6, <1>7, <1>8, <1>9

\* native_streaming_worker_for_key: the session takes the worker of its key, or spawns one.
LEMMA AttachStep ==
  ASSUME StreamInv, IInv', NEW s \in Sessions, Attach(s)
  PROVE  StreamInv'
  <1> USE DEF StreamInv
  <1>1. PICK k \in Keys, own \in Sessions :
           /\ k = <<model[s], permit[s].slot_index>>
           /\ own = IF registry[k] = None THEN s ELSE registry[k]
           /\ registry' = [registry EXCEPT ![k] = own]
           /\ key' = [key EXCEPT ![s] = k]
           /\ worker' = [worker EXCEPT ![s] = own]
           /\ queue' = [queue EXCEPT ![own] = <<s>>]
           /\ attached' = attached \cup {s}
           /\ guards' = (guards \ {None}) \cup {s}
           /\ gate' = None
           /\ ws' = [ws EXCEPT ![s] = "warming"]
           /\ UNCHANGED <<vars, occupant, abandoned, thread, drives, ended, overtaken>>
           /\ queue[own] = <<>> /\ drives[own] = None
           /\ \A t \in attached : worker[t] # own
    BY AttachEffect
  <1>2. ws[s] = "building" /\ ws \in [Sessions -> Phases]
    BY DEF Attach, StreamTypeOK
  <1>3. InNativeCode = {} /\ Building = {s} /\ s \notin attached /\ state[s] = "admitted"
    BY <1>2, OnlyBuilder
  <1>4. (\A t \in Sessions : worker[t] # s) /\ (\A l \in Keys : registry[l] # s)
    BY <1>2 DEF UnbornInv, Unborn
  <1>6. UNCHANGED <<state, model, permit>>
    BY <1>1 DEF vars
  <1>7. StreamTypeOK'
    BY <1>1, <1>2, SMTT(30) DEF StreamTypeOK, Phases
  <1>8. worker'[s] = own /\ \A t \in Sessions \ {s} : worker'[t] = worker[t]
    BY <1>1 DEF StreamTypeOK
  <1>9. key'[s] = k /\ \A t \in Sessions \ {s} : key'[t] = key[t]
    BY <1>1 DEF StreamTypeOK
  <1>10. registry'[k] = own /\ \A l \in Keys \ {k} : registry'[l] = registry[l]
    BY <1>1 DEF StreamTypeOK
  <1>11. queue'[own] = <<s>> /\ \A w \in Sessions \ {own} : queue'[w] = queue[w]
    BY <1>1 DEF StreamTypeOK
  <1>12. ws'[s] = "warming" /\ \A t \in Sessions \ {s} : ws'[t] = ws[t]
    BY <1>1, <1>2
  <1>13. own = s \/ (own = registry[k] /\ own # None)
    BY <1>1, NoneIsNoSession
  <1>14. /\ attached' = attached \cup {s} /\ s \in Sessions /\ own \in Sessions
        /\ \A t \in attached : t # s /\ t \in Sessions /\ worker[t] # own
    BY <1>1, <1>3 DEF StreamTypeOK
  <1>15. UNCHANGED <<occupant, abandoned, thread, drives, ended, overtaken>> /\ queue[own] = <<>> /\ drives[own] = None
    BY <1>1
  <1>17. UnbornInv'
    BY <1>6, <1>8, <1>10, <1>12, <1>13, <1>14, SMTT(30) DEF UnbornInv, Unborn
  <1>18. BornInv'
    BY <1>8, <1>9, <1>12, <1>14, <1>15, NoneIsNoSession DEF BornInv
  <1>19. ServedInv'
    BY <1>8, <1>11, <1>14, <1>15, ServesFrame, SMTT(30) DEF ServedInv, Serves
  <1>20. RegisteredInv'
    <2>2. \A l \in Keys : registry[l] # None => worker[registry[l]] = registry[l]
      BY DEF RegisteredInv
    <2>3. \A l \in Keys, t \in Sessions : worker[t] # None /\ worker[t] = registry[l] =>
             key[t] = l /\ (t \in attached => state[t] = "admitted" /\ l = <<model[t], permit[t].slot_index>>)
      BY DEF RegisteredInv
    <2>4. \A l \in Keys : registry[l] \in Sessions \cup {None}
      BY DEF StreamTypeOK
    <2>5. ASSUME NEW l \in Keys, registry'[l] # None PROVE worker'[registry'[l]] = registry'[l]
      BY <1>4, <1>8, <1>10, <1>13, <2>2, <2>4, <2>5, SMTT(30)
    <2> SUFFICES ASSUME NEW l \in Keys, NEW t \in Sessions, worker'[t] # None, worker'[t] = registry'[l]
                 PROVE  /\ key'[t] = l
                        /\ t \in attached' => state'[t] = "admitted" /\ l = <<model'[t], permit'[t].slot_index>>
      BY <2>5, SMTT(30) DEF RegisteredInv
    <2>6. CASE t = s
      <3>1. registry'[l] = own
        BY <1>8, <2>6
      <3>2. ASSUME l # k PROVE FALSE
        BY <1>4, <1>10, <1>13, <1>14, <2>2, <2>3, <3>1, <3>2, SMTT(30)
      <3>3. k = <<model[s], permit[s].slot_index>>
        BY <1>1
      <3> QED
        BY <1>3, <1>6, <1>9, <2>6, <3>2, <3>3
    <2>7. CASE t # s
      BY <1>4, <1>6, <1>8, <1>9, <1>10, <1>13, <1>14, <2>3, <2>7, SMTT(30)
    <2> QED
      BY <2>6, <2>7
  <1>21. EvictedInv'
    BY <1>4, <1>8, <1>10, <1>12, <1>13, SMTT(30) DEF EvictedInv
  <1>22. GateInv'
    <2>4. attached' \subseteq {t \in Sessions : worker'[t] # None}
      <3> QED
        BY <1>1, <1>3, <1>8, <1>14, NoneIsNoSession DEF GateInv
    <2>5. overtaken' \subseteq abandoned'
      BY <1>1 DEF GateInv
    <2> QED
      BY <1>1, <1>3, <1>6, <1>12, <2>4, <2>5 DEF GateInv, InNativeCode, Calling, Building
  <1>23. WorkerPerAttach'
    <2>3. attached' = attached \cup {s}
      BY <1>1
    <2> QED
      BY <1>8, <1>14, <2>3 DEF WorkerPerAttach
  <1>24. LateWarmUpIsInert'
    BY <1>1 DEF LateWarmUpIsInert
  <1>25. LiveSessionPinsRuntime'
    BY <1>1, <1>12, <1>15, NoneIsNoSession DEF LiveSessionPinsRuntime
  <1> QED
    BY <1>7, <1>17, <1>18, <1>19, <1>20, <1>21, <1>22, <1>23, <1>24, <1>25

\* The watchdog's eviction: the worker was registered under the session's own
\* key if anywhere, so afterwards it is registered nowhere.
LEMMA EvictStep ==
  ASSUME StreamInv, IInv', NEW s \in Sessions, Evict(s)
  PROVE  StreamInv'
  <1> USE DEF StreamInv, channelVars, tokenVars, processVars, registryVars, threadVars, Go
  <1>2. ws[s] = "expired" /\ ws \in [Sessions -> Phases]
    BY DEF Evict, StreamTypeOK
  <1>3. worker[s] # None /\ key[s] \in Keys /\ s \in attached \cup ended
    BY <1>2 DEF BornInv, Unborn
  <1>4. PICK phase \in {"evicted", "missed"} : ws' = [ws EXCEPT ![s] = phase]
    BY DEF Evict
  <1>5. UNCHANGED <<state, model, permit, gate, key, worker, attached, queue, thread, drives, occupant,
                    ended, abandoned, guards, overtaken>>
    BY DEF Evict, vars
  <1>6. /\ registry' \in [Keys -> Sessions \cup {None}]
        /\ \A k \in Keys : registry'[k] # None => registry'[k] = registry[k]
    BY <1>3 DEF Evict, StreamTypeOK
  <1>7. \A k \in Keys : registry'[k] # worker[s]
    BY <1>3, <1>6, SMTT(30) DEF RegisteredInv, Evict, StreamTypeOK
  <1>8. StreamTypeOK'
    BY <1>2, <1>4, <1>5, <1>6 DEF StreamTypeOK, Phases
  <1>9. UnbornInv'
    BY <1>2, <1>4, <1>5, <1>6, NoneIsNoSession, SMTT(30) DEF Unborn, UnbornInv
  <1>10. BornInv'
    BY <1>2, <1>3, <1>4, <1>5 DEF BornInv, Unborn
  <1>11. ServedInv' /\ WorkerPerAttach' /\ LateWarmUpIsInert'
    BY <1>5, ServedFrame DEF WorkerPerAttach, LateWarmUpIsInert
  <1>12. RegisteredInv'
    BY <1>5, <1>6, RegisteredFrame
  <1>13. EvictedInv'
    BY <1>2, <1>4, <1>5, <1>6, <1>7 DEF EvictedInv, BornInv, Unborn
  <1>14. GateInv'
    BY <1>2, <1>4, <1>5 DEF Building, GateInv, InNativeCode, Calling
  <1>15. LiveSessionPinsRuntime'
    BY <1>2, <1>4, <1>5 DEF LiveSessionPinsRuntime, Live
  <1> QED
    BY <1>8, <1>9, <1>10, <1>11, <1>12, <1>13, <1>14, <1>15

\* prune_idle_native_streaming_workers: an entry nobody is attached to goes.
LEMMA PruneStep ==
  ASSUME StreamInv, IInv', NEW l \in Keys, Prune(l)
  PROVE  StreamInv'
  <1> USE DEF StreamInv, channelVars, tokenVars, processVars, threadVars
  <1>2. UNCHANGED <<state, model, permit, ws, gate, key, worker, attached, queue, thread, drives,
                    occupant, ended, abandoned, guards, overtaken>>
    BY DEF Prune, vars
  <1>3. /\ registry' \in [Keys -> Sessions \cup {None}]
        /\ \A k \in Keys : registry'[k] # None => registry'[k] = registry[k]
    BY DEF Prune, StreamTypeOK
  <1>8. EvictedInv'
    BY <1>2, <1>3 DEF BornInv, Unborn, EvictedInv
  <1>9. GateInv'
    BY <1>2 DEF GateInv, InNativeCode, Calling, Building
  <1> QED
    BY <1>2, <1>3, <1>8, <1>9, NoneIsNoSession, ServedFrame, RegisteredFrame, SMTT(30) DEF Prune,
       StreamTypeOK, UnbornInv, BornInv, WorkerPerAttach, LateWarmUpIsInert, LiveSessionPinsRuntime

\* The abandoned attach gives its permit back, and its worker is registered
\* nowhere: nobody else is led to it by the slot that is free again.
LEMMA AbandonStep ==
  ASSUME StreamInv, IInv', NEW s \in Sessions, AbandonOccupant(s)
  PROVE  StreamInv'
  <1> USE DEF StreamInv, registryVars, Go, GateAfter
  <1> DEFINE w == worker[s]
             t == occupant[w]
  <1>1. /\ ws[s] \in {"evicted", "missed"} /\ ws \in [Sessions -> Phases]
        /\ ws' = [ws EXCEPT ![s] = "closed"]
    BY DEF AbandonOccupant, StreamTypeOK
  <1>2. w \in Sessions /\ (\A k \in Keys : registry[k] # w)
    <2>1. w # None /\ (\A k \in Keys : registry[k] # w)
      BY <1>1 DEF BornInv, Unborn, EvictedInv
    <2> QED
      BY <2>1 DEF StreamTypeOK
  <1>3. t \in Sessions \cup {None}
    BY <1>2 DEF StreamTypeOK
  <1>4. t # None => t = drives[w] /\ t \in attached /\ worker[t] = w
    BY <1>2, SMTT(30) DEF ServedInv, Serves
  <1>5. /\ occupant' = [occupant EXCEPT ![w] = None]
        /\ abandoned' = abandoned \cup ({t} \ {None})
        /\ guards' = guards \ {s, t}
        /\ gate' = gate
        /\ overtaken' = IF t # None /\ Calling(w) THEN overtaken \cup {t} ELSE overtaken
        /\ UNCHANGED <<registry, key, worker, attached, queue, thread, drives, ended>>
        /\ Reclaim(t)
    BY DEF AbandonOccupant
  <1> HIDE DEF w, t
  <1>6. /\ IInv' /\ model' = model
        /\ \A u \in Sessions \ {t} : state'[u] = state[u] /\ permit'[u] = permit[u]
    BY <1>3, <1>5, ReclaimOthers
  <1>7. StreamTypeOK'
    BY <1>1, <1>2, <1>5 DEF StreamTypeOK, Phases
  <1>8. UnbornInv'
    BY <1>1, <1>4, <1>5, <1>6, NoneIsNoSession, SMTT(30) DEF UnbornInv, Unborn
  <1>9. BornInv'
    BY <1>1, <1>5 DEF BornInv, Unborn
  <1>10. ServedInv'
    BY <1>5, ServesFrame, SMTT(30) DEF ServedInv, StreamTypeOK, Serves
  <1>11. RegisteredInv'
    BY <1>2, <1>4, <1>5, <1>6, NoneIsNoSession, SMTT(30) DEF RegisteredInv
  <1>12. EvictedInv'
    BY <1>1, <1>5 DEF EvictedInv
  <1>13. GateInv'
    <2>3. \A u \in attached' \ abandoned' : state'[u] = "admitted"
      <3> SUFFICES ASSUME NEW u \in attached' \ abandoned' PROVE state'[u] = "admitted"
        OBVIOUS
      <3>1. u \in attached \ abandoned /\ u \in Sessions /\ u # t
        BY <1>5, NoneIsNoSession DEF StreamTypeOK
      <3> QED
        BY <1>6, <3>1 DEF GateInv
    <2> QED
      BY <1>1, <1>5, <2>3 DEF GateInv, Building, InNativeCode, Calling
  <1>14. WorkerPerAttach'
    BY <1>5 DEF WorkerPerAttach
  <1>15. LateWarmUpIsInert'
    BY <1>4, <1>5, SMTT(30) DEF LateWarmUpIsInert, ServedInv, Serves, Calling
  <1>16. LiveSessionPinsRuntime'
    BY <1>1, <1>5, NoneIsNoSession DEF LiveSessionPinsRuntime, Live
  <1> QED
    BY <1>6, <1>7, <1>8, <1>9, <1>10, <1>11, <1>12, <1>13, <1>14, <1>15, <1>16

\* A thread that takes an attach from its queue.
LEMMA ReceiveStep ==
  ASSUME StreamInv, IInv', NEW w \in Sessions, Receive(w)
  PROVE  StreamInv'
  <1> USE DEF StreamInv, channelVars, tokenVars, processVars, registryVars, Turn
  <1>2. PICK t \in attached : queue[w] = <<t>> /\ worker[t] = w
    BY DEF Receive, ServedInv, Serves
  <1>3. t \in Sessions /\ Head(queue[w]) = t /\ Tail(queue[w]) = <<>> /\ t # None
    BY <1>2, NoneIsNoSession, SMTT(30) DEF StreamTypeOK
  <1>4. UNCHANGED <<state, model, permit, ws, gate, registry, key, worker, attached, ended, abandoned,
                    guards, overtaken>>
    BY DEF Receive, vars
  <1>5. /\ thread[w] = "recv"
        /\ thread' = [thread EXCEPT ![w] = "idle"]
        /\ drives' = [drives EXCEPT ![w] = t]
        /\ occupant' = [occupant EXCEPT ![w] = t]
        /\ queue' = [queue EXCEPT ![w] = <<>>]
    BY <1>3 DEF Receive
  <1>7. /\ thread'[w] = "idle" /\ drives'[w] = t /\ occupant'[w] = t /\ queue'[w] = <<>>
        /\ \A v \in Sessions \ {w} : /\ thread'[v] = thread[v] /\ drives'[v] = drives[v]
                                    /\ occupant'[v] = occupant[v] /\ queue'[v] = queue[v]
    BY <1>5 DEF StreamTypeOK
  <1>8. ServedInv'
    <2>1. Serves(w)'
      BY <1>2, <1>3, <1>4, <1>7 DEF Serves
    <2>2. ASSUME NEW v \in Sessions \ {w} PROVE Serves(v)'
      BY <1>4, <1>7, ServesFrame DEF ServedInv
    <2> QED
      BY <2>1, <2>2 DEF ServedInv
  <1>10. GateInv'
    BY <1>4, <1>5, <1>7, SMTT(30) DEF InNativeCode, Calling, GateInv, Building
  <1>11. LateWarmUpIsInert'
    BY <1>4, <1>7 DEF LateWarmUpIsInert
  <1>12. StreamTypeOK'
    BY <1>3, <1>4, <1>5, SMTT(30) DEF StreamTypeOK, ThreadPhases
  <1>13. RegisteredInv'
    BY <1>4, RegisteredFrame
  <1>14. UnbornInv' /\ BornInv' /\ EvictedInv' /\ WorkerPerAttach' /\ LiveSessionPinsRuntime'
    BY <1>4 DEF UnbornInv, BornInv, EvictedInv, WorkerPerAttach, LiveSessionPinsRuntime
  <1> QED
    BY <1>8, <1>10, <1>11, <1>12, <1>13, <1>14

\* Two threads in native code would hold the gate for the same attach.
LEMMA OnlyCaller ==
  ASSUME StreamInv, NEW w \in InNativeCode
  PROVE  InNativeCode = {w} /\ Building = {}
  <1> USE DEF StreamInv
  <1>1. w \in Sessions /\ drives[w] # None /\ gate = drives[w] /\ drives[w] \in attached /\ worker[drives[w]] = w
    BY DEF ServedInv, Serves, GateInv, InNativeCode, Calling
  <1>2. ASSUME NEW v \in InNativeCode PROVE v = w
    BY <1>1, ZenonT(30) DEF ServedInv, Serves, GateInv, InNativeCode, Calling
  <1>3. ASSUME NEW s \in Building PROVE FALSE
    BY <1>1 DEF Building, GateInv, UnbornInv, Unborn
  <1> QED
    BY <1>2, <1>3

\* A thread that goes from one phase to another for the attach it drives.
LEMMA ThreadMoves ==
  ASSUME StreamInv, IInv', NEW w \in Sessions,
         NEW phase \in {"idle", "call", "wedged", "mark", "returned", "error", "clear"},
         thread[w] \notin {"recv", "clear", "retire"},
         Turn(w, phase),
         ended' = ended \/ ended' = ended \cup {drives[w]},
         phase = "clear" => drives[w] \in ended',
         phase = "mark" => drives[w] \notin abandoned,
         IF phase \in {"idle", "clear"}
         THEN \/ w \notin InNativeCode /\ gate' = gate
              \/ w \in InNativeCode /\ gate' = None
         ELSE \/ w \in InNativeCode /\ gate' = gate
              \/ gate = None /\ gate' = drives[w],
         UNCHANGED <<vars, ws, registryVars, attached, queue, drives, occupant, tokenVars, processVars>>
  PROVE  StreamInv'
  <1> USE DEF StreamInv, tokenVars, processVars, registryVars, Turn
  <1>2. UNCHANGED <<state, model, permit, ws, registry, key, worker, attached, queue, drives, occupant,
                    abandoned, guards, overtaken>>
    BY DEF vars
  <1>3. drives[w] \in Sessions /\ drives[w] # None
    BY NoneIsNoSession DEF ServedInv, Serves, StreamTypeOK
  <1>4. thread'[w] = phase /\ \A v \in Sessions \ {w} : thread'[v] = thread[v]
    BY DEF StreamTypeOK
  <1>7. ServedInv'
    BY <1>2, <1>3, <1>4, ServesFrame, SMTT(30) DEF ServedInv, Serves
  <1>10. LateWarmUpIsInert'
    BY <1>2, <1>4 DEF LateWarmUpIsInert, GateInv
  <1>11. GateInv'
    BY <1>2, <1>4, OnlyCaller, NoneIsNoSession, SMTT(30) DEF Building, InNativeCode, Calling, GateInv,
       ServedInv, Serves
  <1>12. StreamTypeOK'
    <2>1. thread' \in [Sessions -> ThreadPhases] /\ ended' \subseteq Sessions /\ gate' \in Sessions \cup {None}
      BY <1>3 DEF StreamTypeOK, ThreadPhases
    <2> QED
      BY <1>2, <2>1 DEF StreamTypeOK
  <1>13. RegisteredInv'
    BY <1>2, RegisteredFrame
  <1>14. UnbornInv' /\ EvictedInv' /\ BornInv'
    BY <1>2 DEF UnbornInv, EvictedInv, BornInv
  <1>15. WorkerPerAttach' /\ LiveSessionPinsRuntime'
    BY <1>2 DEF WorkerPerAttach, LiveSessionPinsRuntime
  <1> QED
    BY <1>7, <1>10, <1>11, <1>12, <1>13, <1>14, <1>15

\* The decode thread around a native call: it quits, enters, returns, wedges, replies.
LEMMA CallSteps ==
  ASSUME StreamInv, IInv', NEW w \in Sessions,
         Quit(w) \/ EnterGate(w) \/ CallReturns(w) \/ Wedge(w) \/ Unwedge(w) \/ Reply(w)
  PROVE  StreamInv'
  <1> USE DEF channelVars
  <1>1. CASE Quit(w)
    BY <1>1, ThreadMoves DEF Quit, InNativeCode, Calling, Leave
  <1>2. CASE EnterGate(w)
    BY <1>2, ThreadMoves DEF EnterGate
  <1>3. CASE Wedge(w)
    BY <1>3, ThreadMoves DEF Wedge, InNativeCode, Calling
  <1>4. CASE CallReturns(w) \/ Unwedge(w)
    BY <1>4, ThreadMoves DEF CallReturns, Unwedge, InNativeCode, Calling, Returns, MayMark
  <1>5. CASE Reply(w)
    BY <1>5, ThreadMoves DEF Reply, InNativeCode, Leave
  <1> QED
    BY <1>1, <1>2, <1>3, <1>4, <1>5

\* clear_occupant.
LEMMA ClearStep ==
  ASSUME StreamInv, IInv', NEW w \in Sessions, Clear(w)
  PROVE  StreamInv'
  <1> USE DEF StreamInv, tokenVars, processVars, registryVars, Turn
  <1>2. UNCHANGED <<state, model, permit, ws, gate, registry, key, worker, attached, queue, drives, ended,
                    abandoned, guards, overtaken>>
    BY DEF Clear, vars
  <1>3. /\ thread[w] = "clear" /\ thread'[w] = "retire" /\ occupant'[w] = None
        /\ \A v \in Sessions \ {w} : thread'[v] = thread[v] /\ occupant'[v] = occupant[v]
    BY DEF Clear, StreamTypeOK
  <1>6. UnbornInv' /\ BornInv' /\ RegisteredInv' /\ EvictedInv' /\ WorkerPerAttach'
        /\ LiveSessionPinsRuntime'
    BY <1>2, RegisteredFrame DEF UnbornInv, BornInv, EvictedInv, WorkerPerAttach,
       LiveSessionPinsRuntime
  <1>8. GateInv'
    BY <1>2, <1>3 DEF GateInv, InNativeCode, Calling, Building
  <1>9. LateWarmUpIsInert'
    BY <1>2, <1>3 DEF LateWarmUpIsInert
  <1> QED
    BY <1>2, <1>3, <1>6, <1>8, <1>9, ServesFrame, SMTT(30) DEF Clear, StreamTypeOK, ThreadPhases,
       ServedInv, Serves

\* The permit and the count of the attach go together, after its occupant.
LEMMA RetireStep ==
  ASSUME StreamInv, IInv', NEW w \in Sessions, RetireAttach(w)
  PROVE  StreamInv'
  <1> USE DEF StreamInv, processVars, registryVars, Turn
  <1> DEFINE t == drives[w]
  <1>1. /\ thread[w] = "retire" /\ Reclaim(t) /\ attached' = attached \ {t} /\ guards' = guards \ {t}
        /\ UNCHANGED <<ws, gate, registry, key, worker, queue, occupant, ended, abandoned, overtaken>>
    BY DEF RetireAttach
  <1>2. t \in Sessions /\ t \in attached /\ worker[t] = w /\ queue[w] = <<>> /\ t \in ended /\ occupant[w] = None
    BY <1>1 DEF ServedInv, Serves, StreamTypeOK
  <1>3. /\ thread'[w] = "recv" /\ drives'[w] = None
        /\ \A v \in Sessions \ {w} : thread'[v] = thread[v] /\ drives'[v] = drives[v]
    BY DEF RetireAttach, StreamTypeOK
  <1>4. StreamTypeOK'
    BY <1>1 DEF RetireAttach, StreamTypeOK, ThreadPhases
  <1> HIDE DEF t
  <1>5. /\ IInv' /\ model' = model
        /\ \A u \in Sessions \ {t} : state'[u] = state[u] /\ permit'[u] = permit[u]
    BY <1>1, <1>2, ReclaimOthers
  <1>6. UnbornInv'
    BY <1>1, <1>2, <1>5 DEF UnbornInv
  <1>7. BornInv'
    BY <1>1, <1>2 DEF BornInv
  <1>8. ServedInv'
    <2>1. Serves(w)'
      BY <1>1, <1>2, <1>3 DEF Serves
    <2>2. ASSUME NEW v \in Sessions \ {w} PROVE Serves(v)'
      BY <1>1, <1>2, <1>3, ServesFrame DEF ServedInv
    <2> QED
      BY <2>1, <2>2 DEF ServedInv
  <1>9. RegisteredInv'
    BY <1>1, <1>5, RegisteredFrame DEF StreamTypeOK
  <1>10. EvictedInv' /\ WorkerPerAttach'
    BY <1>1 DEF EvictedInv, WorkerPerAttach
  <1>11. GateInv'
    <2>2. \A u \in attached' \ abandoned' : state'[u] = "admitted"
      BY <1>1, <1>5 DEF GateInv, StreamTypeOK
    <2> QED
      BY <1>1, <1>3, <2>2 DEF GateInv, Building, InNativeCode, Calling
  <1>12. LateWarmUpIsInert'
    BY <1>1, <1>3 DEF LateWarmUpIsInert
  <1>13. LiveSessionPinsRuntime'
    BY <1>1, <1>2 DEF LiveSessionPinsRuntime
  <1> QED
    BY <1>4, <1>5, <1>6, <1>7, <1>8, <1>9, <1>10, <1>11, <1>12, <1>13

\* A step that changes nothing.
LEMMA StreamStutter ==
  ASSUME StreamInv, IInv', UNCHANGED allVars
  PROVE  StreamInv'
  <1> USE DEF StreamInv, allVars, streamVars, channelVars, tokenVars, processVars, registryVars, threadVars
  <1>2. UNCHANGED <<state, model, permit, ws, gate, registry, key, worker, attached, queue, thread, drives,
                    occupant, ended, abandoned, guards, overtaken>>
    BY DEF vars
  <1>5. GateInv'
    BY <1>2 DEF GateInv, InNativeCode, Calling, Building
  <1> QED
    BY <1>2, <1>5, ServedFrame, RegisteredFrame DEF StreamTypeOK, UnbornInv, BornInv,
       EvictedInv, WorkerPerAttach, LateWarmUpIsInert, LiveSessionPinsRuntime

-----------------------------------------------------------------------------
(* The permits                                                              *)

INSTANCE FiniteSetTheorems

\* A model has `limit` slots.
LEMMA IndicesFinite == IsFiniteSet(0..(Limit - 1)) /\ Cardinality(0..(Limit - 1)) = Limit
  <1>1. 0 \in Int /\ Limit - 1 \in Int /\ 0 <= Limit - 1
    BY LimitAssumption, SMT
  <1>2. /\ IsFiniteSet(0..(Limit - 1))
        /\ Cardinality(0..(Limit - 1)) = IF 0 > Limit - 1 THEN 0 ELSE Limit - 1 - 0 + 1
    BY <1>1, FS_Interval
  <1> QED
    BY <1>1, <1>2, LimitAssumption, SMT



\* While an index is free the scan of try_acquire finds one below the limit
\* that nobody holds.
LEMMA LowestFreeIsFree ==
  ASSUME NEW taken \in SUBSET (0..(Limit - 1)), Cardinality(taken) < Limit
  PROVE  LowestFree(taken) \in 0..(Limit - 1) /\ LowestFree(taken) \notin taken
  <1> DEFINE free == (0..(Limit - 1)) \ taken
             P(i) == i \notin taken /\ \A j \in 0..(i - 1) : j \in taken
  <1>1. IsFiniteSet(0..(Limit - 1)) /\ Cardinality(0..(Limit - 1)) = Limit
    BY IndicesFinite
  <1>2. free # {}
    <2>1. ASSUME free = {} PROVE taken = 0..(Limit - 1)
      BY <2>1
    <2> QED
      BY <1>1, <2>1, LimitAssumption, SMTT(30)
  <1>3. PICK i \in free : \A y \in free : ~ (<<y, i>> \in OpToRel(<, Nat))
    <2>1. free \subseteq Nat
      BY LimitAssumption, SMTT(30)
    <2> QED
      BY <1>2, <2>1, NatLessThanWellFounded, WFMin
  <1>4. \A j \in 0..(i - 1) : j \in taken
    <2> SUFFICES ASSUME NEW j \in 0..(i - 1), j \notin taken PROVE FALSE
      OBVIOUS
    <2>1. j \in free /\ j \in Nat /\ i \in Nat /\ j < i
      BY LimitAssumption, SMTT(30)
    <2>2. <<j, i>> \in OpToRel(<, Nat)
      BY <2>1 DEF OpToRel
    <2> QED
      BY <1>3, <2>1, <2>2
  <1> QED
    BY <1>2, <1>4, LimitAssumption, SMTT(30) DEF LowestFree

\* The holders of a model are finitely many.
LEMMA HoldersFinite == \A m \in Models : IsFiniteSet(Holders(m))
  BY SessionsAssumption, FS_Subset DEF Holders

\* The registry starts with every permit free.
LEMMA InitIInv == Init => IInv
BY LimitAssumption, FS_EmptySet, SMTT(30) DEF Init, Holders, TypeOK, NoPermit, PermitInv, IInv,
   SlotsAreDistinct

\* An admission takes a free index, and one permit of the entry's semaphore.
LEMMA AdmitStep ==
  ASSUME IInv, NEW s \in Sessions, TryAcquire(s), EntryAvailable(s, model[s]) > 0
  PROVE  IInv'
  <1> PICK m : m = model[s]
    OBVIOUS
  <1> PICK e : e = EntrySemaphore(s, m)
    OBVIOUS
  <1> PICK i : i = LowestFree(occupied[m])
    OBVIOUS
  <1>0. TypeOK /\ SlotsAreDistinct /\ PermitInv
    BY DEF IInv
  <1>1. m \in Models /\ s \notin Holders(m) /\ state[s] = "new"
    BY <1>0 DEF TypeOK, TryAcquire, Holders
  <1>2. Cardinality(Holders(m)) \in Nat /\ IsFiniteSet(Holders(m))
    BY <1>1, HoldersFinite, FS_CardinalityType
  <1>3. EntryAvailable(s, m) = Limit - Cardinality(Holders(m))
    <2>1. CASE semaphore[m] # None
      BY <1>0, <1>1, <2>1 DEF PermitInv, EntryAvailable
    <2>2. CASE semaphore[m] = None
      <3>1. Holders(m) = {} /\ EntryAvailable(s, m) = Limit
        BY <1>0, <1>1, <2>2 DEF PermitInv, EntryAvailable
      <3>2. Cardinality(Holders(m)) = 0
        BY <3>1, FS_EmptySet
      <3> QED
        BY <3>1, <3>2, LimitAssumption, SMTT(30)
    <2> QED
      BY <2>1, <2>2
  <1>4. i \in 0..(Limit - 1) /\ i \notin occupied[m]
    BY <1>0, <1>1, <1>2, <1>3, LimitAssumption, LowestFreeIsFree, SMTT(30) DEF PermitInv, TypeOK
  <1>5. /\ semaphore' = [semaphore EXCEPT ![m] = e]
        /\ available' = [available EXCEPT ![e] = EntryAvailable(s, m) - 1]
        /\ occupied' = [occupied EXCEPT ![m] = occupied[m] \cup {i}]
        /\ permit' = [permit EXCEPT ![s] = [semaphore |-> e, slot_index |-> i]]
        /\ state' = [state EXCEPT ![s] = "admitted"]
        /\ model' = model
    BY <1>2, <1>3, LimitAssumption, SMTT(30) DEF TryAcquire
  <1>6. e \in Sessions
    BY <1>0, <1>1 DEF TypeOK, EntrySemaphore
  <1>7. TypeOK'
    BY <1>0, <1>1, <1>2, <1>3, <1>4, <1>5, <1>6, LimitAssumption, SMTT(30) DEF TypeOK
  <1>8. Holders(m)' = Holders(m) \cup {s}
    BY <1>0, <1>1, <1>5 DEF Holders, TypeOK
  <1>9. \A n \in Models \ {m} : Holders(n)' = Holders(n)
    BY <1>0, <1>1, <1>5 DEF Holders, TypeOK
  <1>10. \A t \in Sessions \ {s} : permit'[t] = permit[t] /\ state'[t] = state[t]
    BY <1>0, <1>5 DEF TypeOK
  <1>11. permit'[s] = [semaphore |-> e, slot_index |-> i]
    BY <1>0, <1>5 DEF TypeOK
  <1>12. SlotsAreDistinct'
    <2> SUFFICES ASSUME NEW n \in Models, NEW t \in Holders(n)', NEW u \in Holders(n)', t # u
                 PROVE  permit'[t].slot_index # permit'[u].slot_index
      BY DEF SlotsAreDistinct
    <2>0. \A v \in Holders(m) : v \in Sessions /\ permit[v].slot_index \in occupied[m]
      <3>2. occupied[m] = {permit[v].slot_index : v \in Holders(m)}
        BY <1>0, <1>1 DEF PermitInv
      <3> QED
        BY <3>2 DEF Holders
    <2>1. CASE n # m
      BY <1>0, <1>1, <1>9, <1>10, <2>1, SMTT(30) DEF Holders, SlotsAreDistinct
    <2>2. CASE n = m /\ t # s /\ u # s
      BY <1>0, <1>1, <1>8, <1>10, <2>0, <2>2, SMTT(30) DEF SlotsAreDistinct
    <2>3. CASE n = m /\ t = s
      BY <1>4, <1>8, <1>10, <1>11, <2>0, <2>3, SMTT(30)
    <2>4. CASE n = m /\ u = s
      BY <1>4, <1>8, <1>10, <1>11, <2>0, <2>4, SMTT(30)
    <2> QED
      BY <2>1, <2>2, <2>3, <2>4
  <1>13. PermitInv'
    <2> SUFFICES ASSUME NEW n \in Models
                 PROVE  /\ occupied'[n] = {permit'[t].slot_index : t \in Holders(n)'}
                        /\ Cardinality(occupied'[n]) = Cardinality(Holders(n)')
                        /\ \A t \in Holders(n)' : permit'[t].semaphore = semaphore'[n] /\ semaphore'[n] # None
                        /\ semaphore'[n] # None =>
                             /\ Holders(n)' # {}
                             /\ available'[semaphore'[n]] = Limit - Cardinality(Holders(n)')
                             /\ model'[semaphore'[n]] = n
                             /\ state'[semaphore'[n]] \in {"admitted", "done"}
      BY DEF PermitInv
    <2>0. s # None /\ e # None
      BY <1>6, SessionsAssumption
    <2>1. CASE n = m
      <3>1. \A t \in Holders(m) : t # s /\ t \in Sessions
        BY <1>1 DEF Holders
      <3>2. occupied'[m] = occupied[m] \cup {i}
        BY <1>0, <1>1, <1>5 DEF TypeOK
      <3>3. {permit'[t].slot_index : t \in Holders(m)'} = {permit[t].slot_index : t \in Holders(m)} \cup {i}
        BY <1>8, <1>10, <1>11, <3>1, SMTT(30)
      <3>4. occupied'[m] = {permit'[t].slot_index : t \in Holders(m)'}
        BY <1>0, <1>1, <3>2, <3>3 DEF PermitInv
      <3>5. Cardinality(Holders(m)') = Cardinality(Holders(m)) + 1
        BY <1>1, <1>2, <1>8, FS_AddElement
      <3>6. Cardinality(occupied'[m]) = Cardinality(occupied[m]) + 1
        <4>1. IsFiniteSet(occupied[m])
          <5>1. IsFiniteSet(0..(Limit - 1))
            BY IndicesFinite
          <5>2. occupied[m] \in SUBSET (0..(Limit - 1))
            BY <1>0, <1>1 DEF TypeOK
          <5> QED
            BY <5>1, <5>2, FS_Subset
        <4>2. i \notin occupied[m]
          BY <1>4
        <4>3. Cardinality(occupied[m] \cup {i}) = Cardinality(occupied[m]) + 1
          BY <4>1, <4>2, FS_AddElement
        <4> QED
          BY <3>2, <4>3
      <3>7. semaphore'[m] = e
        BY <1>0, <1>1, <1>5 DEF TypeOK
      <3>8. \A t \in Holders(m)' : permit'[t].semaphore = e
        BY <1>0, <1>1, <1>8, <1>10, <1>11, <3>1, SMTT(30) DEF PermitInv, EntrySemaphore
      <3>9. available'[e] = Limit - Cardinality(Holders(m)')
        BY <1>0, <1>2, <1>3, <1>5, <1>6, <3>5, LimitAssumption, SMTT(30) DEF TypeOK
      <3>10. model'[e] = m /\ state'[e] \in {"admitted", "done"}
        BY <1>0, <1>1, <1>5, <1>6 DEF TypeOK, EntrySemaphore, PermitInv
      <3>11. Cardinality(occupied'[m]) = Cardinality(Holders(m)')
        BY <1>0, <1>1, <3>5, <3>6 DEF PermitInv
      <3> QED
        BY <1>8, <2>0, <2>1, <3>4, <3>7, <3>8, <3>9, <3>10, <3>11
    <2>2. CASE n # m
      <3>1. /\ Holders(n)' = Holders(n) /\ s \notin Holders(n)
            /\ occupied'[n] = occupied[n] /\ semaphore'[n] = semaphore[n]
        BY <1>0, <1>1, <1>5, <1>9, <2>2, SMTT(30) DEF TypeOK, Holders
      <3>2. \A t \in Holders(n) : permit'[t] = permit[t]
        BY <1>10, <3>1 DEF Holders
      <3>4. semaphore[n] # None =>
              /\ available'[semaphore[n]] = available[semaphore[n]]
              /\ state'[semaphore[n]] \in {"admitted", "done"}
        BY <1>0, <1>1, <1>5, <2>2, SMTT(30) DEF TypeOK, PermitInv, EntrySemaphore
      <3>7. model' = model
        BY <1>5
      <3> QED
        BY <1>0, <3>1, <3>2, <3>4, <3>7, SMTT(30) DEF PermitInv
    <2> QED
      BY <2>1, <2>2
  <1> QED
    BY <1>7, <1>12, <1>13 DEF IInv

\* A drop frees its own index and returns its permit to the semaphore that
\* is in the map; the entry goes with the last holder.
LEMMA DropStep ==
  ASSUME IInv, NEW s \in Sessions, Drop(s)
  PROVE  IInv'
  <1> PICK m : m = model[s]
    OBVIOUS
  <1> PICK i : i = permit[s].slot_index
    OBVIOUS
  <1> PICK e : e = semaphore[m]
    OBVIOUS
  <1>0. TypeOK /\ SlotsAreDistinct /\ PermitInv
    BY DEF IInv
  <1>1. m \in Models /\ s \in Holders(m)
    BY <1>0 DEF TypeOK, Drop, Holders
  <1>2. /\ occupied[m] = {permit[t].slot_index : t \in Holders(m)}
        /\ Cardinality(occupied[m]) = Cardinality(Holders(m))
        /\ \A t \in Holders(m) : permit[t].semaphore = e
        /\ e # None
        /\ available[e] = Limit - Cardinality(Holders(m))
        /\ model[e] = m
        /\ state[e] \in {"admitted", "done"}
    BY <1>0, <1>1 DEF PermitInv
  <1>3. e \in Sessions
    BY <1>0, <1>1, <1>2 DEF TypeOK
  <1>4. IsFiniteSet(Holders(m)) /\ Cardinality(Holders(m)) \in Nat
    BY <1>1, HoldersFinite, FS_CardinalityType
  <1>5. IsFiniteSet(occupied[m]) /\ Cardinality(occupied[m]) <= Limit
    <2>1. IsFiniteSet(0..(Limit - 1)) /\ Cardinality(0..(Limit - 1)) = Limit
      BY IndicesFinite
    <2>2. occupied[m] \in SUBSET (0..(Limit - 1))
      BY <1>0, <1>1 DEF TypeOK
    <2> QED
      BY <2>1, <2>2, FS_Subset
  <1>6. Cardinality(Holders(m)) \in 1..Limit
    BY <1>1, <1>2, <1>4, <1>5, FS_EmptySet, LimitAssumption, SMTT(30)
  <1>7. i \in occupied[m]
    BY <1>1, <1>2
  <1>8. /\ available' = [available EXCEPT ![e] = available[e] + 1]
        /\ permit' = [permit EXCEPT ![s] = NoPermit]
        /\ state' = [state EXCEPT ![s] = "done"]
        /\ model' = model
    BY <1>1, <1>2 DEF Drop, Returned
  <1>9. occupied'[m] = occupied[m] \ {i}
    BY <1>0, <1>1 DEF Drop, TypeOK, ShouldRemove
  <1>10. semaphore'[m] = IF occupied[m] \ {i} = {} THEN None ELSE e
    BY <1>0, <1>1, <1>2 DEF TypeOK, Drop, ShouldRemove
  <1>11. \A n \in Models \ {m} : occupied'[n] = occupied[n] /\ semaphore'[n] = semaphore[n]
    BY <1>0, <1>1 DEF TypeOK, Drop
  <1>12. TypeOK'
    BY <1>0, <1>1, <1>2, <1>3, <1>6, <1>8, LimitAssumption, SMTT(30) DEF TypeOK, Drop, NoPermit
  <1>13. Holders(m)' = Holders(m) \ {s}
    BY <1>0, <1>1, <1>8 DEF Holders, TypeOK
  <1>14. \A n \in Models \ {m} : Holders(n)' = Holders(n) /\ s \notin Holders(n)
    BY <1>0, <1>1, <1>8 DEF Holders, TypeOK
  <1>16. \A n \in Models : \A t \in Holders(n)' : t \in Holders(n) /\ permit'[t] = permit[t]
    BY <1>0, <1>8, <1>13, <1>14 DEF Holders, TypeOK
  <1>18. PermitInv'
    <2> SUFFICES ASSUME NEW n \in Models
                 PROVE  /\ occupied'[n] = {permit'[t].slot_index : t \in Holders(n)'}
                        /\ Cardinality(occupied'[n]) = Cardinality(Holders(n)')
                        /\ \A t \in Holders(n)' : permit'[t].semaphore = semaphore'[n] /\ semaphore'[n] # None
                        /\ semaphore'[n] # None =>
                             /\ Holders(n)' # {}
                             /\ available'[semaphore'[n]] = Limit - Cardinality(Holders(n)')
                             /\ model'[semaphore'[n]] = n
                             /\ state'[semaphore'[n]] \in {"admitted", "done"}
      BY DEF PermitInv
    <2>1. CASE n = m
      <3>1. \A t \in Holders(m) \ {s} : permit[t].slot_index # i
        BY <1>0, <1>1 DEF SlotsAreDistinct
      <3>2. occupied'[m] = {permit'[t].slot_index : t \in Holders(m)'}
        BY <1>1, <1>2, <1>9, <1>13, <1>16, <3>1, SMTT(30)
      <3>3. Cardinality(Holders(m)') = Cardinality(Holders(m)) - 1
        <4>1. s \in Holders(m)
          BY <1>1
        <4>2. Cardinality(Holders(m) \ {s}) = Cardinality(Holders(m)) - 1
          BY <1>4, <4>1, FS_RemoveElement
        <4> QED
          BY <1>13, <4>2
      <3>4. Cardinality(occupied'[m]) = Cardinality(occupied[m]) - 1
        <4>1. IsFiniteSet(occupied[m])
          BY <1>5
        <4>2. Cardinality(occupied[m] \ {i}) = Cardinality(occupied[m]) - 1
          BY <1>7, <4>1, FS_RemoveElement
        <4> QED
          BY <1>9, <4>2
      <3>5. \A t \in Holders(m)' : permit'[t].semaphore = semaphore'[m] /\ semaphore'[m] # None
        BY <1>1, <1>2, <1>10, <1>13, <1>16, <3>1, SMTT(30)
      <3>6. semaphore'[m] # None =>
              /\ semaphore'[m] = e
              /\ Holders(m)' # {}
        BY <1>9, <1>10, <3>2, SMTT(30)
      <3>7. available'[e] = Limit - Cardinality(Holders(m)')
        BY <1>0, <1>2, <1>3, <1>6, <1>8, <3>3, LimitAssumption, SMTT(30) DEF TypeOK
      <3>8. model'[e] = m /\ state'[e] \in {"admitted", "done"}
        BY <1>0, <1>2, <1>3, <1>8 DEF TypeOK
      <3>9. Cardinality(occupied'[m]) = Cardinality(Holders(m)')
        BY <1>2, <3>3, <3>4, ZenonT(30)
      <3> QED
        BY <2>1, <3>2, <3>5, <3>6, <3>7, <3>8, <3>9
    <2>2. CASE n # m
      <3>1. /\ occupied'[n] = occupied[n] /\ semaphore'[n] = semaphore[n]
            /\ Holders(n)' = Holders(n) /\ \A t \in Holders(n) : permit'[t] = permit[t]
        BY <1>11, <1>14, <1>16, <2>2
      <3>2. {permit'[t].slot_index : t \in Holders(n)} = {permit[t].slot_index : t \in Holders(n)}
        BY <3>1
      <3>3. semaphore[n] # None =>
              /\ semaphore[n] \in Sessions /\ model[semaphore[n]] = n
              /\ state[semaphore[n]] \in {"admitted", "done"}
        BY <1>0 DEF PermitInv, TypeOK
      <3>4. semaphore[n] # None =>
              /\ available'[semaphore[n]] = available[semaphore[n]]
              /\ model'[semaphore[n]] = n /\ state'[semaphore[n]] \in {"admitted", "done"}
        BY <1>0, <1>2, <1>8, <2>2, <3>3 DEF PermitInv, TypeOK
      <3>5. /\ occupied[n] = {permit[t].slot_index : t \in Holders(n)}
            /\ Cardinality(occupied[n]) = Cardinality(Holders(n))
            /\ \A t \in Holders(n) : permit[t].semaphore = semaphore[n] /\ semaphore[n] # None
            /\ semaphore[n] # None => /\ Holders(n) # {}
                                     /\ available[semaphore[n]] = Limit - Cardinality(Holders(n))
        BY <1>0 DEF PermitInv
      <3>6. occupied'[n] = {permit'[t].slot_index : t \in Holders(n)'}
        BY <3>1, <3>2, <3>5
      <3>7. \A t \in Holders(n)' : permit'[t].semaphore = semaphore'[n] /\ semaphore'[n] # None
        BY <3>1, <3>5
      <3> QED
        BY <3>1, <3>4, <3>5, <3>6, <3>7
    <2> QED
      BY <2>1, <2>2
  <1> QED
    BY <1>0, <1>12, <1>16, <1>18, SMTT(30) DEF IInv, SlotsAreDistinct

\* A refusal changes nothing but the asking session.
LEMMA RefuseStep ==
  ASSUME IInv, NEW s \in Sessions, TryAcquire(s), ~(EntryAvailable(s, model[s]) > 0)
  PROVE  IInv'
  <1>0. TypeOK /\ SlotsAreDistinct /\ PermitInv
    BY DEF IInv
  <1>1. /\ state' = [state EXCEPT ![s] = "rejected"] /\ state[s] = "new"
        /\ UNCHANGED <<semaphore, occupied, available, permit, model>>
    BY DEF TryAcquire
  <1>3. \A n \in Models : Holders(n)' = Holders(n)
    BY <1>0, <1>1 DEF TypeOK, Holders
  <1> QED
    BY <1>0, <1>1, <1>3, SMTT(30) DEF IInv, TypeOK, SlotsAreDistinct, PermitInv

\* Whatever step is taken, and whoever takes it.
LEMMA StepIInv ==
  ASSUME IInv, [Next]_vars
  PROVE  IInv'
  <1>1. CASE UNCHANGED vars
    <2>1. \A n \in Models : Holders(n)' = Holders(n)
      BY <1>1 DEF vars, Holders
    <2> QED
      BY <1>1, <2>1, SMTT(30) DEF vars, IInv, TypeOK, SlotsAreDistinct, PermitInv
  <1> QED
    BY <1>1, AdmitStep, DropStep, RefuseStep DEF Next

\* A permit always belongs to the entry in the map and holds an index of its
\* own: PermitInv and SlotsAreDistinct are inductive together.
THEOREM Invariance == Spec => []IInv
  <1>1. IInv /\ [Next]_vars => IInv'
    BY StepIInv
  <1> QED
    BY InitIInv, <1>1, PTL DEF Spec

\* Two concurrent sessions of one model never get the same slot index, so
\* they never share a streaming worker (try_acquire).
THEOREM DistinctSlots == Spec => []SlotsAreDistinct
  <1>1. IInv => SlotsAreDistinct
    BY DEF IInv
  <1> QED
    BY Invariance, <1>1, PTL

\* No sequence of drops, entry removals and re-creations lets a model exceed
\* max_concurrent_sessions_per_model.
THEOREM Capacity == Spec => []CapacityHolds
  <1>1. IInv => CapacityHolds
    <2> SUFFICES ASSUME IInv, NEW m \in Models PROVE Cardinality(Holders(m)) <= Limit
      BY DEF CapacityHolds
    <2>1. IsFiniteSet(0..(Limit - 1)) /\ Cardinality(0..(Limit - 1)) = Limit
      BY IndicesFinite
    <2>2. occupied[m] \in SUBSET (0..(Limit - 1)) /\ Cardinality(occupied[m]) = Cardinality(Holders(m))
      BY DEF IInv, TypeOK, PermitInv
    <2>3. Cardinality(occupied[m]) <= Cardinality(0..(Limit - 1))
      BY <2>1, <2>2, FS_Subset
    <2> QED
      BY <2>1, <2>2, <2>3
  <1> QED
    BY Invariance, <1>1, PTL

\* The registry holds an entry exactly for the running models, and
\* has_active_sessions is exact.
THEOREM ExactRegistry == Spec => []RegistryIsExact
  <1>1. IInv => RegistryIsExact
    <2> SUFFICES ASSUME PermitInv PROVE RegistryIsExact
      BY DEF IInv
    <2>1. ASSUME NEW m \in Models PROVE semaphore[m] # None <=> Holders(m) # {}
      BY DEF PermitInv
    <2>2. ASSUME NEW m \in Models PROVE occupied[m] # {} <=> Holders(m) # {}
      <3>1. occupied[m] = {permit[s].slot_index : s \in Holders(m)}
        BY DEF PermitInv
      <3> QED
        BY <3>1, SMTT(30)
    <2>3. HasActiveSessions => \E m \in Models : Holders(m) # {}
      BY <2>2, SMTT(30) DEF HasActiveSessions
    <2>4. ASSUME NEW m \in Models, Holders(m) # {} PROVE HasActiveSessions
      BY <2>1, <2>2, <2>4 DEF HasActiveSessions
    <2> QED
      BY <2>1, <2>3, <2>4, SMTT(30) DEF RegistryIsExact
  <1> QED
    BY Invariance, <1>1, PTL

\* A session is refused only when `limit` sessions of its model really run.
THEOREM RefusalsAreJust == Spec => RefusedOnlyAtCapacity
  <1>1. IInv /\ [Next]_vars => [\A s \in Sessions : state[s] = "new" /\ state'[s] = "rejected"
                                  => Cardinality(Holders(model[s])) = Limit]_vars
    <2> SUFFICES ASSUME IInv, Next, NEW s \in Sessions, state[s] = "new", state'[s] = "rejected"
                 PROVE  Cardinality(Holders(model[s])) = Limit
      BY DEF vars
    <2>1. TypeOK /\ PermitInv
      BY DEF IInv
    <2>2. TryAcquire(s) /\ EntryAvailable(s, model[s]) = 0
      BY <2>1 DEF Next, TryAcquire, Drop, TypeOK
    <2> QED
      BY <2>1, <2>2, LimitAssumption, HoldersFinite, FS_CardinalityType, SMTT(30) DEF PermitInv,
         EntryAvailable, TypeOK
  <1> QED
    BY Invariance, <1>1, PTL DEF Spec, RefusedOnlyAtCapacity

-----------------------------------------------------------------------------
(* The service                                                              *)

\* A step of the service is a step of the permits or leaves them alone.
LEMMA PermitSteps ==
  ASSUME StreamInv, [StreamNext]_allVars
  PROVE  [Next]_vars
  <1>0. IInv /\ StreamTypeOK /\ BornInv
    BY DEF StreamInv
  <1>1. ASSUME NEW s \in Sessions, StartSession(s) \/ BuildFails(s) PROVE [Next]_vars
    BY <1>1 DEF StartSession, BuildFails, Next, vars
  <1>2. ASSUME NEW s \in Sessions, Attach(s) PROVE [Next]_vars
    BY <1>2, AttachEffect DEF vars
  <1>3. ASSUME NEW s \in Sessions, AbandonOccupant(s) PROVE [Next]_vars
    <2>1. worker[s] \in Sessions
      BY <1>0, <1>3 DEF AbandonOccupant, BornInv, Unborn, StreamTypeOK
    <2> QED
      BY <1>0, <1>3, <2>1, ReclaimOthers DEF AbandonOccupant, StreamTypeOK
  <1>4. ASSUME NEW w \in Sessions, RetireAttach(w) PROVE [Next]_vars
    BY <1>0, <1>4, ReclaimOthers DEF RetireAttach, StreamTypeOK
  <1>5. ASSUME NEW s \in Sessions, \/ Prepare(s) \/ SendWork(s) \/ SendFinish(s) \/ ApplyOutcome(s)
                                   \/ WorkerStopped(s) \/ ClientCancel(s)
        PROVE  UNCHANGED vars
    BY <1>5 DEF Prepare, SendWork, SendFinish, Send, ApplyOutcome, WorkerStopped, ClientCancel
  <1>6. ASSUME NEW s \in Sessions, Park(s) \/ Resume(s) \/ Expire(s) \/ Elapse(s) \/ Evict(s)
        PROVE  UNCHANGED vars
    BY <1>6 DEF Park, Resume, Expire, Elapse, Evict
  <1>7. ASSUME NEW s \in Sessions, \/ Receive(s) \/ Quit(s) \/ EnterGate(s) \/ CallReturns(s)
                                   \/ Reply(s) \/ Clear(s) \/ Wedge(s) \/ Unwedge(s)
        PROVE  UNCHANGED vars
    BY <1>7 DEF Receive, Quit, EnterGate, CallReturns, Returns, Reply, Clear, Wedge, Unwedge
  <1>8. ASSUME NEW k \in Keys, Prune(k) PROVE UNCHANGED vars
    BY <1>8 DEF Prune
  <1>9. ASSUME NEW s \in Sessions, TaskStep(s) \/ ClientStep(s) PROVE [Next]_vars
    BY <1>1, <1>2, <1>3, <1>5, <1>6, <1>9 DEF TaskStep, SetupStep, OutcomeStep, WatchdogStep, ClientStep
  <1>10. ASSUME NEW s \in Sessions, ThreadStep(s) \/ Expire(s) \/ Elapse(s) \/ Wedge(s) \/ Unwedge(s)
         PROVE  [Next]_vars
    BY <1>4, <1>6, <1>7, <1>10 DEF ThreadStep
  <1> QED
    BY <1>8, <1>9, <1>10 DEF StreamNext, allVars

\* Every step keeps the invariant of the service.
LEMMA StreamStep ==
  ASSUME StreamInv, [StreamNext]_allVars
  PROVE  StreamInv'
  <1>0. IInv'
    BY PermitSteps, StepIInv DEF StreamInv
  <1>1. ASSUME NEW s \in Sessions, TaskStep(s) \/ ClientStep(s) \/ Expire(s) \/ Elapse(s)
        PROVE  StreamInv'
    BY <1>0, <1>1, StartStep, PrepareStep, BuildFailsStep, AttachStep, SessionTasks, EvictStep, AbandonStep
       DEF TaskStep, SetupStep, OutcomeStep, WatchdogStep, ClientStep
  <1>2. ASSUME NEW w \in Sessions, ThreadStep(w) \/ Wedge(w) \/ Unwedge(w)
        PROVE  StreamInv'
    BY <1>0, <1>2, ReceiveStep, CallSteps, ClearStep, RetireStep DEF ThreadStep
  <1>3. ASSUME NEW k \in Keys, Prune(k) PROVE StreamInv'
    BY <1>0, <1>3, PruneStep
  <1> QED
    BY <1>0, <1>1, <1>2, <1>3, StreamStutter DEF StreamNext

\* The invariant of the service holds in every state.
LEMMA StreamInvHolds == StreamSpec => []StreamInv
  <1>1. StreamInit => StreamInv
    BY InitIInv, StreamInitInv DEF StreamInit
  <1> QED
    BY <1>1, StreamStep, PTL DEF StreamSpec

\* The service is an implementation of the permit registry: whatever sessions,
\* threads and watchdogs do to the slots, they do by acquiring and dropping
\* permits (ModelSessionAdmission), so every promise of the permits
\* is kept by the service.
THEOREM ServiceKeepsPermits == StreamSpec => Spec
  <1>1. StreamInit => Init
    BY DEF StreamInit
  <1>2. StreamInv /\ [StreamNext]_allVars => [Next]_vars
    BY PermitSteps
  <1> QED
    BY <1>1, <1>2, StreamInvHolds, PTL DEF StreamSpec, Spec

\* No session is ever queued behind another on a decode thread
\* (native_streaming_worker_for_key, spawn_native_streaming_worker), for any
\* number of sessions, models and slots.
THEOREM WorkerPerAttachHolds == StreamSpec => []WorkerPerAttach
  BY StreamInvHolds, PTL DEF StreamInv

\* Native code runs for one session at a time and a decode keeps its permit
\* until it is given up (RealtimeExecutionGate, AttachToken).
THEOREM CallsAreSerial == StreamSpec => []CallsAreSerialAndAdmitted
  <1>1. StreamInv => CallsAreSerialAndAdmitted
    BY OnlyCaller, OnlyBuilder, SMTT(30) DEF Building, StreamInv, ServedInv, Serves, GateInv,
       InNativeCode, Calling, CallsAreSerialAndAdmitted
  <1> QED
    BY <1>1, StreamInvHolds, PTL

\* A warm-up given up while it hung never marks its model resident when it
\* returns (warm_up_native_streaming_session_once).
THEOREM LateWarmUpStaysInert == StreamSpec => []LateWarmUpIsInert
  BY StreamInvHolds, PTL DEF StreamInv

\* A session with a client, connected or expected back, holds its idle-unload
\* guard until its attach ends or is given up (AttachToken).
THEOREM LiveSessionsPinRuntime == StreamSpec => []LiveSessionPinsRuntime
  BY StreamInvHolds, PTL DEF StreamInv

\* A watchdog takes no other session's worker out of the registry and gives up
\* no attach but its own, except as the successor on the same worker
\* (abandon_stuck_native_streaming_worker).
THEOREM WatchdogIsPrecise == StreamSpec => WatchdogHitsOwnWorker
  <1> DEFINE Kept == \A k \in Keys : registry[k] # None /\ registry'[k] # registry[k] =>
                       \/ \E s \in Sessions : ws[s] = "expired" /\ worker[s] = registry[k]
                       \/ \A s \in attached : worker[s] # registry[k]
             Own == \A t \in abandoned' \ abandoned : \E s \in Sessions :
                       ws[s] \in {"evicted", "missed"} /\ worker[s] = worker[t] /\ (s = t \/ s \in ended)
  <1>1. ASSUME StreamInv, [StreamNext]_allVars PROVE [Kept /\ Own]_allVars
    <2> USE <1>1
    <2>1. ASSUME UNCHANGED <<registry, abandoned>> PROVE Kept /\ Own
      BY <2>1
    <2>2. ASSUME NEW s \in Sessions, Attach(s) PROVE Kept /\ Own
      BY <2>2, AttachEffect, SMTT(30) DEF StreamInv, StreamTypeOK
    <2>3. ASSUME NEW s \in Sessions, Evict(s) PROVE Kept /\ Own
      BY <2>3, ZenonT(30) DEF Evict, tokenVars, StreamInv, StreamTypeOK
    <2>4. ASSUME NEW s \in Sessions, AbandonOccupant(s) PROVE Kept /\ Own
      <3> DEFINE t == occupant[worker[s]]
      <3>1. ws[s] \in {"evicted", "missed"} /\ registry' = registry /\ abandoned' = abandoned \cup ({t} \ {None})
        BY <2>4 DEF AbandonOccupant, registryVars
      <3>2. worker[s] \in Sessions /\ s \in attached \cup ended
        BY <3>1 DEF StreamInv, BornInv, Unborn, StreamTypeOK
      <3> QED
        BY <3>1, <3>2, SMTT(30) DEF StreamInv, WorkerPerAttach, ServedInv, Serves
    <2>5. ASSUME NEW k \in Keys, Prune(k) PROVE Kept /\ Own
      BY <2>5 DEF Prune, tokenVars, StreamInv, StreamTypeOK
    <2> HIDE DEF Kept, Own
    <2>6. ASSUME NEW s \in Sessions,
                 \/ StartSession(s) \/ Prepare(s) \/ BuildFails(s)
                 \/ SendWork(s) \/ SendFinish(s) \/ ApplyOutcome(s) \/ WorkerStopped(s) \/ ClientCancel(s)
                 \/ Park(s) \/ Resume(s) \/ Expire(s) \/ Elapse(s)
          PROVE  UNCHANGED <<registry, abandoned>>
      BY <2>6 DEF StartSession, Prepare, BuildFails, SendWork, SendFinish, Send, ApplyOutcome, WorkerStopped,
         ClientCancel, Park, Resume, Expire, Elapse, registryVars, tokenVars
    <2>7. ASSUME NEW w \in Sessions, ThreadStep(w) \/ Wedge(w) \/ Unwedge(w)
          PROVE  UNCHANGED <<registry, abandoned>>
      BY <2>7 DEF ThreadStep, Receive, Quit, EnterGate, CallReturns, Returns, Reply, Clear, RetireAttach, Wedge,
         Unwedge, registryVars, tokenVars
    <2>8. ASSUME NEW s \in Sessions, TaskStep(s) \/ ClientStep(s) \/ ThreadStep(s)
                 \/ Expire(s) \/ Elapse(s) \/ Wedge(s) \/ Unwedge(s)
          PROVE  Kept /\ Own
      BY <2>1, <2>2, <2>3, <2>4, <2>6, <2>7, <2>8
         DEF TaskStep, SetupStep, OutcomeStep, WatchdogStep, ClientStep
    <2> QED
      BY <2>5, <2>8 DEF StreamNext
  <1> QED
    BY <1>1, StreamInvHolds, PTL DEF StreamSpec, WatchdogHitsOwnWorker

=============================================================================
