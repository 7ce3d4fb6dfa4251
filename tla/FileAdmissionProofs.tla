------------------------ MODULE FileAdmissionProofs ------------------------
(***************************************************************************)
(* Theorems about the file FIFO, for any number of files and sessions.     *)
(* The inductive invariant is IInv: the types, no id twice in the FIFO,    *)
(* and the slot with the request that was told to run.                     *)
(***************************************************************************)
EXTENDS FileAdmission, SequenceTheorems, TLAPS

-----------------------------------------------------------------------------
(* Sequences                                                                *)

\* What is left after the element at i is taken out.
LEMMA RemoveAtShifts ==
  ASSUME NEW S, NEW s \in Seq(S), NEW i \in 1..Len(s)
  PROVE  /\ RemoveAt(s, i) \in Seq(S)
         /\ Len(RemoveAt(s, i)) = Len(s) - 1
         /\ \A j \in 1..(Len(s) - 1) : RemoveAt(s, i)[j] = IF j < i THEN s[j] ELSE s[j + 1]
  <1> DEFINE a == SubSeq(s, 1, i - 1)
             b == SubSeq(s, i + 1, Len(s))
  <1>0. Len(s) \in Nat
    OBVIOUS
  <1>1. a \in Seq(S) /\ Len(a) = i - 1 /\ \A j \in 1..(i - 1) : a[j] = s[j]
    BY <1>0, SubSeqProperties
  <1>2. b \in Seq(S) /\ Len(b) = Len(s) - i /\ \A j \in 1..(Len(s) - i) : b[j] = s[i + j]
    BY <1>0, SubSeqProperties
  <1>3. RemoveAt(s, i) = a \o b
    BY DEF RemoveAt
  <1> HIDE DEF a, b
  <1>4. a \o b \in Seq(S) /\ Len(a \o b) = Len(a) + Len(b)
    BY <1>1, <1>2, ConcatProperties
  <1>5. ASSUME NEW j \in 1..(Len(s) - 1)
        PROVE  (a \o b)[j] = IF j < i THEN s[j] ELSE s[j + 1]
    <2>1. (a \o b)[j] = IF j <= Len(a) THEN a[j] ELSE b[j - Len(a)]
      BY <1>0, <1>1, <1>2, ConcatProperties
    <2> QED
      BY <1>0, <1>1, <1>2, <2>1
  <1> QED
    BY <1>0, <1>1, <1>2, <1>3, <1>4, <1>5

\* Taking an element out keeps the others, each once.
LEMMA RemoveAtInjective ==
  ASSUME NEW S, NEW s \in Seq(S), NEW i \in 1..Len(s), IsInjective(s)
  PROVE  /\ IsInjective(RemoveAt(s, i))
         /\ \A e : Contains(RemoveAt(s, i), e) => Contains(s, e)
  <1> DEFINE r == RemoveAt(s, i)
  <1>1. /\ r \in Seq(S) /\ Len(r) = Len(s) - 1
        /\ \A j \in 1..(Len(s) - 1) : r[j] = IF j < i THEN s[j] ELSE s[j + 1]
    BY RemoveAtShifts
  <1> HIDE DEF r
  <1>2. DOMAIN r = 1..(Len(s) - 1) /\ DOMAIN s = 1..Len(s) /\ Len(s) \in Nat
    BY <1>1
  <1>3. ASSUME NEW a \in 1..(Len(s) - 1), NEW b \in 1..(Len(s) - 1), r[a] = r[b]
        PROVE  a = b
    <2>1. PICK c \in 1..Len(s) : c = IF a < i THEN a ELSE a + 1
      BY <1>2
    <2>2. PICK d \in 1..Len(s) : d = IF b < i THEN b ELSE b + 1
      BY <1>2
    <2>3. s[c] = s[d]
      BY <1>1, <1>3, <2>1, <2>2
    <2>4. c = d
      BY <1>2, <2>3 DEF IsInjective
    <2> QED
      BY <1>2, <2>1, <2>2, <2>4
  <1>4. \A e : Contains(r, e) => Contains(s, e)
    BY <1>1, <1>2 DEF Contains
  <1> QED
    BY <1>2, <1>3, <1>4 DEF r, IsInjective

\* The head of an injective sequence is not in its tail.
LEMMA TailInjective ==
  ASSUME NEW S, NEW s \in Seq(S), s # <<>>, IsInjective(s)
  PROVE  /\ Tail(s) \in Seq(S) /\ Head(s) \in S
         /\ IsInjective(Tail(s))
         /\ ~Contains(Tail(s), Head(s))
         /\ \A e : Contains(Tail(s), e) => Contains(s, e)
  <1> DEFINE t == Tail(s)
  <1>1. /\ t \in Seq(S) /\ Len(t) = Len(s) - 1 /\ Head(s) = s[1] /\ Head(s) \in S
        /\ Len(s) \in Nat /\ Len(s) >= 1
        /\ \A j \in 1..(Len(s) - 1) : t[j] = s[j + 1]
    OBVIOUS
  <1> HIDE DEF t
  <1>2. DOMAIN t = 1..(Len(s) - 1) /\ DOMAIN s = 1..Len(s)
    BY <1>1
  <1>3. ASSUME NEW a \in 1..(Len(s) - 1), NEW b \in 1..(Len(s) - 1), t[a] = t[b]
        PROVE  a = b
    <2>1. a + 1 \in DOMAIN s /\ b + 1 \in DOMAIN s /\ s[a + 1] = s[b + 1]
      BY <1>1, <1>2, <1>3
    <2>2. a + 1 = b + 1
      BY <2>1 DEF IsInjective
    <2> QED
      BY <1>1, <2>2
  <1>4. ~Contains(t, Head(s))
    BY <1>1, <1>2 DEF IsInjective, Contains
  <1>5. \A e : Contains(t, e) => Contains(s, e)
    BY <1>1 DEF Contains
  <1> QED
    BY <1>1, <1>2, <1>3, <1>4, <1>5 DEF t, IsInjective

\* Appending a new element keeps the sequence injective.
LEMMA AppendNewInjective ==
  ASSUME NEW S, NEW s \in Seq(S), NEW e \in S, IsInjective(s), ~Contains(s, e)
  PROVE  /\ Append(s, e) \in Seq(S)
         /\ IsInjective(Append(s, e))
         /\ \A x : Contains(Append(s, e), x) => Contains(s, x) \/ x = e
  <1> DEFINE t == Append(s, e)
  <1>1. /\ t \in Seq(S) /\ Len(t) = Len(s) + 1 /\ Len(s) \in Nat
        /\ \A j \in 1..Len(s) : t[j] = s[j]
        /\ t[Len(s) + 1] = e
    OBVIOUS
  <1> HIDE DEF t
  <1>2. DOMAIN t = 1..(Len(s) + 1) /\ DOMAIN s = 1..Len(s)
    BY <1>1
  <1>3. IsInjective(t)
    BY <1>1, <1>2 DEF IsInjective, Contains
  <1>4. \A x : Contains(t, x) => Contains(s, x) \/ x = e
    BY <1>1 DEF Contains
  <1> QED
    BY <1>1, <1>3, <1>4 DEF t

-----------------------------------------------------------------------------
(* The FIFO                                                                 *)

\* A FIFO without duplicates.
FifoOk(run, queue) ==
  /\ run \in Files \cup {None}
  /\ queue \in Seq(Files) /\ IsInjective(queue)
  /\ run # None => ~Contains(queue, run)

IInv == TypeOK /\ AdmittedHasSlot /\ RunningNotQueued

\* The head of the queue moves into the slot.
LEMMA PromotionOk ==
  ASSUME NEW run, NEW queue, FifoOk(run, queue), queue # <<>>
  PROVE  FifoOk(Head(queue), Tail(queue)) /\ Head(queue) # None
  BY TailInjective, NoneAssumption DEF FifoOk

LEMMA EmptySlotOk ==
  FifoOk(None, <<>>)
  BY DEF FifoOk, IsInjective

LEMMA FinishOk ==
  ASSUME NEW f, FinishFile(f), FifoOk(running, queued)
  PROVE  FifoOk(running', queued')
  <1>1. CASE running # f
    BY <1>1 DEF FinishFile, Fifo
  <1>2. CASE running = f /\ queued = <<>>
    BY <1>2, EmptySlotOk DEF FinishFile, Fifo
  <1>3. CASE running = f /\ queued # <<>>
    BY <1>3, PromotionOk DEF FinishFile, Fifo
  <1> QED
    BY <1>1, <1>2, <1>3

LEMMA CancelOk ==
  ASSUME NEW f, CancelFile(f), FifoOk(running, queued)
  PROVE  FifoOk(running', queued')
  <1>1. CASE running = f \/ ~IsQueued(f)
    BY <1>1 DEF CancelFile, Fifo, Without
  <1>2. CASE running # f /\ IsQueued(f)
    <2>1. PICK i \in 1..Len(queued) : i = CHOOSE j \in 1..Len(queued) : queued[j] = f
      BY <1>2 DEF IsQueued, Contains
    <2>2. running' = running /\ queued' = RemoveAt(queued, i)
      BY <1>2, <2>1 DEF CancelFile, Fifo, Without
    <2>3. queued \in Seq(Files) /\ IsInjective(queued)
      BY DEF FifoOk
    <2>4. RemoveAt(queued, i) \in Seq(Files)
      BY <2>3, RemoveAtShifts
    <2>5. IsInjective(RemoveAt(queued, i)) /\ \A e : Contains(RemoveAt(queued, i), e) => Contains(queued, e)
      BY <2>3, RemoveAtInjective
    <2> QED
      BY <2>2, <2>4, <2>5 DEF FifoOk
  <1> QED
    BY <1>1, <1>2

LEMMA AdmitOk ==
  ASSUME NEW f \in Files, NEW occ \in BOOLEAN, FifoOk(running, queued)
  PROVE  FifoOk(AdmitFile(f, occ).run, AdmitFile(f, occ).queue)
  <1> DEFINE run == IF PromotesHead(occ) THEN Head(queued) ELSE running
             queue == IF PromotesHead(occ) THEN Tail(queued) ELSE queued
             result == AdmitFile(f, occ)
  <1>1. FifoOk(run, queue)
    BY PromotionOk DEF PromotesHead
  <1>2. \/ result.run = run /\ result.queue = queue
        \/ run = None /\ ~Tracked(f, queue) /\ result.run = f /\ result.queue = queue
        \/ run # f /\ ~Tracked(f, queue) /\ result.run = run /\ result.queue = Append(queue, f)
    BY DEF AdmitFile
  <1> HIDE DEF run, queue, result
  <1>3. CASE run = None /\ ~Tracked(f, queue) /\ result.run = f /\ result.queue = queue
    <2>1. FifoOk(f, queue)
      BY <1>1, <1>3 DEF FifoOk, Tracked
    <2> QED
      BY <1>3, <2>1 DEF result
  <1>4. CASE run # f /\ ~Tracked(f, queue) /\ result.run = run /\ result.queue = Append(queue, f)
    <2>1. queue \in Seq(Files) /\ IsInjective(queue) /\ ~Contains(queue, f)
      BY <1>1, <1>4 DEF FifoOk, Tracked
    <2>2. /\ Append(queue, f) \in Seq(Files) /\ IsInjective(Append(queue, f))
          /\ \A x : Contains(Append(queue, f), x) => Contains(queue, x) \/ x = f
      BY <2>1, AppendNewInjective
    <2>3. FifoOk(run, Append(queue, f))
      BY <1>1, <1>4, <2>2 DEF FifoOk
    <2> QED
      BY <1>4, <2>3 DEF result
  <1> QED
    BY <1>1, <1>2, <1>3, <1>4 DEF result

\* The handlers' part of IInv.
SlotInv == file \in [Files -> FilePhases] /\ AdmittedHasSlot

\* The other variables' types.
RestType ==
  /\ pending \in BOOLEAN
  /\ occupied \in [Files -> BOOLEAN]
  /\ cancel \in [Files -> {"none", "requested", "done"}]
  /\ worker \in [Files -> {"none", "preparing", "decoding", "done"}]
  /\ realtime \in [Realtimes -> {"new", "checked", "active", "ended"}]

\* finish(f) never changes the slot of another file.
LEMMA FinishKeepsOthers ==
  ASSUME NEW f, NEW g, FinishFile(f), running = g, f # g
  PROVE  running' = g
  BY DEF FinishFile, Fifo

\* cancel never changes the slot.
LEMMA CancelKeepsSlot ==
  ASSUME NEW f, CancelFile(f)
  PROVE  running' = running
  BY DEF CancelFile, Fifo

\* admit_file leaves an occupied slot alone, and says Running only to the
\* file that has the slot.
LEMMA AdmitKeepsSlot ==
  ASSUME NEW f \in Files, NEW occ \in BOOLEAN
  PROVE  /\ running # None => AdmitFile(f, occ).run = running
         /\ AdmitFile(f, occ).answer = "Running" => AdmitFile(f, occ).run = f
  BY DEF AdmitFile, PromotesHead

\* A step that changes the phase of f only, to a phase other than
\* "admitted", and leaves every other admitted file its slot, keeps SlotInv.
LEMMA PhaseStep ==
  ASSUME SlotInv, NEW f \in Files, NEW p \in FilePhases \ {"admitted"},
         file' = [file EXCEPT ![f] = p],
         \A g \in Files : g # f /\ running = g => running' = g
  PROVE  SlotInv'
  BY DEF SlotInv, AdmittedHasSlot

\* One step of Next keeps SlotInv.
LEMMA SlotInvStep ==
  ASSUME SlotInv, [Next]_vars, occupied \in [Files -> BOOLEAN]
  PROVE  SlotInv'
  <1>1. ASSUME NEW f \in Files, Register(f) PROVE SlotInv'
    BY <1>1, PhaseStep DEF Register, FilePhases
  <1>2. ASSUME NEW f \in Files, PollCanceled(f) PROVE SlotInv'
    BY <1>2, PhaseStep, CancelKeepsSlot DEF PollCanceled, FilePhases
  <1>3. ASSUME NEW f \in Files, PollFile(f) PROVE SlotInv'
    BY <1>3, PhaseStep DEF PollFile, FilePhases
  <1>4. ASSUME NEW f \in Files, PollNative(f) PROVE SlotInv'
    BY <1>4, PhaseStep DEF PollNative, FilePhases
  <1>5. ASSUME NEW f \in Files, Admit(f) PROVE SlotInv'
    <2> DEFINE result == AdmitFile(f, occupied[f])
    <2>1. running # None => result.run = running
      BY AdmitKeepsSlot
    <2>2. result.answer = "Running" => result.run = f
      BY AdmitKeepsSlot
    <2>3. running' = result.run
      BY <1>5 DEF Admit, Fifo
    <2>4. \A g \in Files : running = g => running' = g
      BY <2>1, <2>3, NoneAssumption
    <2>5. CASE result.answer = "Running"
      <3>1. file' = [file EXCEPT ![f] = "admitted"]
        BY <1>5, <2>5 DEF Admit
      <3>2. running' = f
        BY <2>2, <2>3, <2>5
      <3> HIDE DEF result
      <3> QED
        BY <2>4, <3>1, <3>2 DEF SlotInv, AdmittedHasSlot, FilePhases
    <2>6. CASE result.answer # "Running"
      <3>1. PICK p \in {"asleep", "drop"} : file' = [file EXCEPT ![f] = p]
        BY <1>5, <2>6 DEF Admit
      <3> QED
        BY <2>4, <3>1, PhaseStep DEF FilePhases
    <2> QED
      BY <2>5, <2>6
  <1>6. ASSUME NEW f \in Files, Wake(f) PROVE SlotInv'
    BY <1>6, PhaseStep DEF Wake, FilePhases
  <1>7. ASSUME NEW f \in Files, Respond(f) PROVE SlotInv'
    BY <1>7, PhaseStep, FinishKeepsOthers DEF Respond, FilePhases
  <1>8. ASSUME NEW f \in Files, Disconnect(f) PROVE SlotInv'
    BY <1>8, PhaseStep DEF Disconnect, FilePhases
  <1>9. ASSUME NEW f \in Files, DropCheck(f) PROVE SlotInv'
    <2>1. CASE IsQueued(f)
      BY <1>9, <2>1, PhaseStep DEF DropCheck, FilePhases
    <2>2. CASE ~IsQueued(f)
      BY <1>9, <2>2, PhaseStep, FinishKeepsOthers DEF DropCheck, FilePhases
    <2> QED
      BY <2>1, <2>2
  <1>10. ASSUME NEW f \in Files, DropQueued(f) PROVE SlotInv'
    BY <1>10, PhaseStep, CancelKeepsSlot DEF DropQueued, FilePhases
  <1>11. ASSUME NEW f \in Files, CancelRoute(f) PROVE SlotInv'
    BY <1>11, CancelKeepsSlot DEF CancelRoute, SlotInv, AdmittedHasSlot
  <1>12. ASSUME UNCHANGED <<running, file>> PROVE SlotInv'
    BY <1>12 DEF SlotInv, AdmittedHasSlot
  <1>13. ASSUME NEW f \in Files, RequestCancel(f) \/ Worker(f) PROVE SlotInv'
    BY <1>12, <1>13 DEF RequestCancel, Worker, WorkerFails, WorkerAcquire, WorkerReturn
  <1>14. ASSUME NEW r \in Realtimes, RealtimeCheck(r) \/ RealtimeAcquire(r) \/ RealtimeEnd(r)
         PROVE  SlotInv'
    BY <1>12, <1>14 DEF RealtimeCheck, RealtimeAcquire, RealtimeEnd
  <1>15. ASSUME NEW p \in BOOLEAN, SetPending(p) PROVE SlotInv'
    BY <1>12, <1>15 DEF SetPending
  <1>16. CASE UNCHANGED vars
    BY <1>12, <1>16 DEF vars
  <1> QED
    BY <1>1, <1>2, <1>3, <1>4, <1>5, <1>6, <1>7, <1>8, <1>9, <1>10, <1>11, <1>13, <1>14,
       <1>15, <1>16 DEF Next, Handler

\* One step of Next keeps the types of the other variables.
LEMMA RestStep ==
  ASSUME RestType, [Next]_vars
  PROVE  RestType'
  <1>1. ASSUME NEW f \in Files, Handler(f) \/ Register(f)
        PROVE  RestType'
    <2>1. ASSUME UNCHANGED <<pending, cancel, realtime, worker, occupied>> PROVE RestType'
      BY <2>1 DEF RestType
    <2>2. CASE PollFile(f)
      BY <2>2 DEF RestType, PollFile
    <2>3. CASE PollNative(f)
      BY <2>3 DEF RestType, PollNative
    <2>4. CASE Admit(f)
      <3>1. worker' = [worker EXCEPT ![f] = "preparing"] \/ worker' = [worker EXCEPT ![f] = worker[f]]
        BY <2>4 DEF Admit
      <3> QED
        BY <2>4, <3>1 DEF RestType, Admit
    <2> QED
      BY <1>1, <2>1, <2>2, <2>3, <2>4 DEF Handler, Register, PollCanceled, Wake, Respond,
         DropCheck, DropQueued
  <1>2. ASSUME NEW f \in Files, Disconnect(f) PROVE RestType'
    BY <1>2 DEF RestType, Disconnect
  <1>3. ASSUME NEW f \in Files, RequestCancel(f) \/ CancelRoute(f) PROVE RestType'
    BY <1>3 DEF RestType, RequestCancel, CancelRoute
  <1>4. ASSUME NEW f \in Files, Worker(f) PROVE RestType'
    BY <1>4 DEF RestType, Worker, WorkerFails, WorkerAcquire, WorkerReturn
  <1>5. ASSUME NEW r \in Realtimes, RealtimeCheck(r) \/ RealtimeAcquire(r) \/ RealtimeEnd(r)
        PROVE  RestType'
    BY <1>5 DEF RestType, RealtimeCheck, RealtimeAcquire, RealtimeEnd
  <1>6. ASSUME NEW p \in BOOLEAN, SetPending(p) PROVE RestType'
    BY <1>6 DEF RestType, SetPending
  <1>7. CASE UNCHANGED vars
    BY <1>7 DEF RestType, vars
  <1> QED
    BY <1>1, <1>2, <1>3, <1>4, <1>5, <1>6, <1>7 DEF Next

\* One step of Next leaves the FIFO without duplicates.
LEMMA FifoStep ==
  ASSUME FifoOk(running, queued), occupied \in [Files -> BOOLEAN], [Next]_vars
  PROVE  FifoOk(running', queued')
  <1>1. ASSUME NEW f \in Files, FinishFile(f) \/ CancelFile(f) PROVE FifoOk(running', queued')
    BY <1>1, FinishOk, CancelOk
  <1>2. ASSUME NEW f \in Files, Admit(f) PROVE FifoOk(running', queued')
    <2>1. running' = AdmitFile(f, occupied[f]).run /\ queued' = AdmitFile(f, occupied[f]).queue
      BY <1>2 DEF Admit, Fifo
    <2> QED
      BY <2>1, AdmitOk
  <1>3. ASSUME UNCHANGED <<running, queued>> PROVE FifoOk(running', queued')
    BY <1>3
  <1>4. ASSUME NEW f \in Files,
               Register(f) \/ Handler(f) \/ Disconnect(f) \/ RequestCancel(f) \/ CancelRoute(f) \/ Worker(f)
        PROVE  FifoOk(running', queued')
    BY <1>1, <1>2, <1>3, <1>4 DEF Register, Handler, Disconnect, RequestCancel, CancelRoute,
       Worker, PollCanceled, PollFile, PollNative, Wake, Respond, DropCheck, DropQueued,
       WorkerFails, WorkerAcquire, WorkerReturn
  <1>5. ASSUME NEW r \in Realtimes, RealtimeCheck(r) \/ RealtimeAcquire(r) \/ RealtimeEnd(r)
        PROVE  FifoOk(running', queued')
    BY <1>3, <1>5 DEF RealtimeCheck, RealtimeAcquire, RealtimeEnd
  <1>6. ASSUME NEW p \in BOOLEAN, SetPending(p) PROVE FifoOk(running', queued')
    BY <1>3, <1>6 DEF SetPending
  <1>7. CASE UNCHANGED vars
    BY <1>3, <1>7 DEF vars
  <1> QED
    BY <1>4, <1>5, <1>6, <1>7 DEF Next

LEMMA IInvParts ==
  IInv <=> SlotInv /\ RestType /\ FifoOk(running, queued)
  BY DEF IInv, TypeOK, SlotInv, RestType, FifoOk, RunningNotQueued, IsQueued

\* Types, a FIFO without duplicates, and the slot with the request that was
\* told to run are inductive together.
THEOREM Invariance == Spec => []IInv
  <1>1. Init => IInv
    <2> SUFFICES ASSUME Init PROVE IInv
      OBVIOUS
    <2>1. SlotInv
      BY DEF Init, SlotInv, AdmittedHasSlot, FilePhases
    <2>2. RestType
      BY DEF Init, RestType
    <2>3. FifoOk(running, queued)
      BY EmptySlotOk DEF Init
    <2> QED
      BY <2>1, <2>2, <2>3, IInvParts
  <1>2. IInv /\ [Next]_vars => IInv'
    <2> SUFFICES ASSUME IInv, [Next]_vars PROVE IInv'
      OBVIOUS
    <2>1. SlotInv /\ RestType /\ FifoOk(running, queued) /\ occupied \in [Files -> BOOLEAN]
      BY IInvParts DEF RestType
    <2>2. SlotInv' /\ RestType' /\ FifoOk(running', queued')
      BY <2>1, SlotInvStep, RestStep, FifoStep
    <2> QED
      BY <2>2 DEF IInv, TypeOK, SlotInv, RestType, FifoOk, RunningNotQueued, IsQueued
  <1> QED
    BY <1>1, <1>2, PTL DEF Spec

\* A request that was told to run keeps the FIFO's slot until its own guard
\* returns it (admit_file, cancel, finish), so two requests never run.
THEOREM SlotIsExclusive == Spec => []AdmittedHasSlot
  <1>1. IInv => AdmittedHasSlot
    BY DEF IInv
  <1> QED
    BY Invariance, <1>1, PTL

\* The running id is not queued as well, through any mix of re-polls,
\* cancels and promotions.
THEOREM NoDoublePromotion == Spec => []RunningNotQueued
  <1>1. IInv => RunningNotQueued
    BY DEF IInv
  <1> QED
    BY Invariance, <1>1, PTL

\* The slot passes to the head of the queue only, through finish_file and
\* through the promotion in admit_file.
THEOREM FirstComeFirstServed == Spec => NoOvertaking
  <1> DEFINE Fair == running' # running /\ running' # None => queued = <<>> \/ running' = Head(queued)
  <1>1. IInv /\ [Next]_vars => [Fair]_vars
    <2> SUFFICES ASSUME IInv, Next PROVE Fair
      BY DEF vars
    <2>1. ASSUME NEW f \in Files, FinishFile(f) PROVE Fair
      BY <2>1 DEF FinishFile, Fifo
    <2>2. ASSUME NEW f \in Files, CancelFile(f) PROVE Fair
      BY <2>2, CancelKeepsSlot
    <2>3. ASSUME NEW f \in Files, Admit(f) PROVE Fair
      <3>1. running' = AdmitFile(f, occupied[f]).run
        BY <2>3 DEF Admit, Fifo
      <3>2. CASE PromotesHead(occupied[f])
        <4>1. Head(queued) \in Files
          BY <3>2 DEF IInv, TypeOK, PromotesHead
        <4>2. running' = Head(queued)
          BY <3>1, <3>2, <4>1, NoneAssumption DEF AdmitFile
        <4> QED
          BY <4>2
      <3>3. CASE ~PromotesHead(occupied[f])
        <4>1. running' # running => running = None /\ ~occupied[f]
          BY <3>1, <3>3 DEF AdmitFile
        <4> QED
          BY <3>3, <4>1 DEF PromotesHead
      <3> QED
        BY <3>2, <3>3
    <2>4. ASSUME running' = running PROVE Fair
      BY <2>4
    <2> HIDE DEF Fair
    <2>5. ASSUME NEW f \in Files,
                 Register(f) \/ Handler(f) \/ Disconnect(f) \/ RequestCancel(f) \/ CancelRoute(f) \/ Worker(f)
          PROVE  Fair
      BY <2>1, <2>2, <2>3, <2>4, <2>5 DEF Register, Handler, Disconnect, RequestCancel, CancelRoute,
         Worker, PollCanceled, PollFile, PollNative, Wake, Respond, DropCheck, DropQueued,
         WorkerFails, WorkerAcquire, WorkerReturn
    <2>6. ASSUME NEW r \in Realtimes, RealtimeCheck(r) \/ RealtimeAcquire(r) \/ RealtimeEnd(r)
          PROVE  Fair
      BY <2>4, <2>6 DEF RealtimeCheck, RealtimeAcquire, RealtimeEnd
    <2>7. ASSUME NEW p \in BOOLEAN, SetPending(p) PROVE Fair
      BY <2>4, <2>7 DEF SetPending
    <2> QED
      BY <2>5, <2>6, <2>7 DEF Next
  <1> QED
    BY Invariance, <1>1, PTL DEF Spec, NoOvertaking
=============================================================================
