------------------------ MODULE LivePipelineProofs ------------------------
(***************************************************************************)
(* Proofs about LivePipeline, for every VAD configuration, every capacity  *)
(* of the channel and every length of audio.                               *)
(***************************************************************************)
EXTENDS LiveAudioProofs, TLAPS

\* Most leaves are first-order and left to Zenon; those with arithmetic cite SMT.
USE Zenon

-----------------------------------------------------------------------------
(* The invariance of the order                                              *)

\* The flights, the channels and their order.
LineInv == FlightInv /\ Channels /\ OrderInv

\* One flight changes.
LEMMA OneFlight ==
  ASSUME flights \in FlightMap, NEW u \in Utterances, NEW g \in Flights, flights' = [flights EXCEPT ![u] = g],
         flights[u].revision <= g.revision, flights[u].finalized => g.finalized
  PROVE  /\ flights' \in FlightMap /\ flights'[u] = g /\ \A w \in Utterances \ {u} : flights'[w] = flights[w]
         /\ Ahead(flights, flights')
BY SMTT(30) DEF FlightMap, Flights, Ahead

\* Nothing but the line changes, and it carries on.
LEMMA QuietStep ==
  ASSUME LineInv, UNCHANGED <<flights, segments, accepted>>, Channels', NEW d,
         Carries(Outstanding, Outstanding', d)
  PROVE  LineInv'
<1>2. Outstanding \in Seq(Jobs) /\ Outstanding' \in Seq(Jobs)
  BY OutIsLine, LineParts DEF LineInv, Channels
<1>3. Ahead(flights, flights)
  BY SMTT(30) DEF Ahead, LineInv, FlightInv, FlightMap, Flights
<1> DEFINE out == Outstanding
           new == Outstanding'
<1> HIDE DEF out, new
<1> QED
  BY <1>2, <1>3, OrderCarried DEF LineInv, OrderInv, new, FlightInv, out

\* A job joins the line.
LEMMA SentStep ==
  ASSUME Channels, NEW job \in Jobs, jobs' = Append(jobs, job), UNCHANGED <<batch, results, running>>
  PROVE  Channels' /\ Outstanding' = Append(Outstanding, job) /\ Outstanding \in Seq(Jobs)
<1>3. Line(batch, results, running, Append(jobs, job)) = Append(Line(batch, results, running, jobs), job)
  <2>1. Line(batch, results, running, Plus(jobs, job)) = Plus(Line(batch, results, running, jobs), job)
    BY LineSend, ZenonT(30) DEF Channels
  <2> QED
    BY <2>1, ZenonT(30) DEF Plus
<1>4. Line(batch, results, running, jobs) \in Seq(Jobs)
  BY LineParts DEF Channels
<1> QED
  BY <1>3, <1>4, OutIsLine, SMTT(30) DEF Channels

\* A line that nobody touches.
LEMMA SameLine ==
  ASSUME UNCHANGED <<batch, results, running, jobs>>
  PROVE  Outstanding' = Outstanding
BY DEF Outstanding

\* A frame, or the flush.
LEMMA MoveStep ==
  ASSUME LineInv, Moves, accepted \in [Utterances -> Seq(Nat)], UNCHANGED <<segments, batch, results, running>>
  PROVE  LineInv'
<1>0. /\ flights \in FlightMap /\ segments \in SegmentMap /\ Ordered(Outstanding, flights, segments)
      /\ FlightInv /\ Channels /\ OrderInv
  BY DEF LineInv, FlightInv, OrderInv
<1>1. Outstanding \in Seq(Jobs)
  BY <1>0, OutIsLine, LineParts DEF Channels
<1>2. CASE Untouched
  BY <1>2, SameLine DEF Untouched, channel, LineInv, FlightInv, Channels, OrderInv
<1> DEFINE out == Outstanding
           new == Outstanding'
<1>3. ASSUME NEW u \in Utterances, NEW g, Touched(u, flights[u], g) PROVE LineInv'
  <2>1. /\ g \in Flights /\ flights' = [flights EXCEPT ![u] = g] /\ flights[u].revision <= g.revision
        /\ UNCHANGED <<accepted, jobs>> /\ g.finalized = flights[u].finalized /\ g.generation = flights[u].generation
    BY <1>3 DEF Touched, Becomes, channel
  <2>2. /\ flights' \in FlightMap /\ flights'[u] = g /\ \A w \in Utterances \ {u} : flights'[w] = flights[w]
        /\ Ahead(flights, flights')
    BY <1>0, <2>1, OneFlight
  <2>5. Ordered(out, flights', segments)
    BY <1>0, <1>1, <2>2, OrderCarried, Reflexive DEF out
  <2> QED
    BY <1>0, <2>1, <2>2, <2>5, SameLine, SMTT(30) DEF LineInv, OrderInv, FlightInv, SegmentMap, Segments,
       FlightMap, Flights, Channels
<1>4. ASSUME NEW u \in Utterances, NEW g, NEW job,
             PartialSent(u, flights[u], g, job) \/ FinalSent(u, flights[u], g, job)
      PROVE  LineInv'
  <2>1. /\ g \in Flights /\ flights' = [flights EXCEPT ![u] = g] /\ g.revision = flights[u].revision + 1
        /\ jobs' = Append(jobs, job) /\ ~flights[u].finalized
        /\ job \in Jobs /\ job.u = u /\ job.generation = flights[u].generation /\ job.revision = flights[u].revision + 1
        /\ flights[u].revision <= g.revision
        /\ job.final => g.finalized
        /\ g.generation = IF g.finalized THEN 1 ELSE 0
    BY <1>0, <1>4 DEF PartialSent, FinalSent, Becomes, Sent, Send, FlightInv
  <2>2. /\ flights' \in FlightMap /\ flights'[u] = g /\ \A w \in Utterances \ {u} : flights'[w] = flights[w]
        /\ Ahead(flights, flights')
    BY <1>0, <2>1, OneFlight, ZenonT(30)
  <2>3. Channels' /\ new = Append(out, job)
    BY <1>0, <2>1, SentStep
  <2>4. /\ g.finalized <=> accepted'[u] # <<>>
        /\ \A w \in Utterances \ {u} : accepted'[w] = accepted[w]
    BY <1>0, <1>4 DEF PartialSent, Sent, FlightInv, FinalSent
  <2>5. /\ segments[u] # None => ~segments[u].finalized /\ segments[u].revision <= flights[u].revision
        /\ flights[u].generation = 0 /\ flights[u].revision \in Nat
    BY <1>0, <2>1 DEF FlightInv, FlightMap, Flights
  <2>6. FlightInv'
    BY <1>0, <2>1, <2>2, <2>4, <2>5, SMTT(30) DEF FlightInv, SegmentMap, Segments
  <2>7. Ordered(new, flights', segments)
    <3>1. /\ job.generation = 0 /\ job.revision = flights[job.u].revision + 1
          /\ job.revision <= flights'[job.u].revision /\ (job.final => flights'[job.u].finalized)
          /\ ~flights[job.u].finalized
          /\ segments[job.u] # None => ~segments[job.u].finalized /\ segments[job.u].revision <= flights[job.u].revision
      BY <2>1, <2>2, <2>5, SMTT(30)
    <3> HIDE DEF out, new
    <3>2. out \in Seq(Jobs) /\ Ordered(out, flights, segments)
      BY <1>0, <1>1 DEF out
    <3> QED
      BY <1>0, <2>1, <2>2, <2>3, <3>1, <3>2, OrderSent
  <2> QED
    BY <2>3, <2>6, <2>7 DEF LineInv, OrderInv
<1> QED
  BY <1>2, <1>3, <1>4 DEF Moves

-----------------------------------------------------------------------------
(* What the steps do to the line                                            *)

\* The worker takes the next job, ...
LEMMA TakeLine == ASSUME Channels, Take PROVE Channels' /\ Outstanding' = Outstanding
BY LineTake, OutIsLine, SMTT(30) DEF Take, main, Channels

\* ... delivers its result, ...
LEMMA DeliverLine == ASSUME Channels, Deliver PROVE Channels' /\ Outstanding' = Outstanding
BY LineDeliver, OutIsLine, SMTT(30) DEF Deliver, main, Channels

\* ... or its error, ...
LEMMA FailLine ==
  ASSUME Channels, Fail
  PROVE  Channels' /\ Carries(Outstanding, Outstanding', 0) /\ Len(Outstanding') = Len(Outstanding)
<1> DEFINE y == [running EXCEPT !.ok = FALSE]
<1>1. /\ running \in Jobs /\ results' = Append(results, y) /\ running' = None
      /\ UNCHANGED <<batch, jobs>> /\ jobs \in Seq(Jobs) /\ results \in Seq(Jobs) /\ batch \in Seq(Jobs)
  BY DEF Fail, main, Channels
<1>2. y \in Jobs /\ Alike(y, running)
  BY <1>1 DEF Jobs, Alike
<1> HIDE DEF y
<1>4. /\ Carries(Line(batch, results, running, jobs), Line(batch, Append(results, y), None, jobs), 0)
      /\ Len(Line(batch, results, running, jobs)) = Len(Line(batch, Append(results, y), None, jobs))
  BY <1>1, <1>2, LineFail, SMTT(30)
<1> QED
  BY <1>1, <1>2, <1>4, OutIsLine, SMTT(30) DEF Channels

\* ... or dies.
LEMMA PanicLine == ASSUME Channels, Panic PROVE Channels' /\ Carries(Outstanding, Outstanding', 0)
BY LinePanic, OutIsLine, SMTT(30) DEF Panic, main, Channels

\* The main thread takes every result there is (try_recv), ...
LEMMA CollectLine ==
  ASSUME Channels, batch = <<>>, batch' = results, results' = <<>>, UNCHANGED <<jobs, running>>
  PROVE  Channels' /\ Outstanding' = Outstanding
BY LineCollect, OutIsLine DEF Channels

\* ... or waits for one (recv), ...
LEMMA ReceiveLine ==
  ASSUME Channels, results # <<>>, batch' = Append(batch, Head(results)), results' = Tail(results),
         UNCHANGED <<jobs, running>>
  PROVE  Channels' /\ Outstanding' = Outstanding
<1>2. Line(Append(batch, Head(results)), Tail(results), running, jobs) = Line(batch, results, running, jobs)
  BY LineReceive DEF Channels
<1> QED
  BY <1>2, OutIsLine, SMTT(30) DEF Channels

\* ... or drops those it took.
LEMMA DropLine ==
  ASSUME Channels, batch' = <<>>, UNCHANGED <<jobs, running, results>>
  PROVE  Channels' /\ Carries(Outstanding, Outstanding', Len(batch))
<1>2. Carries(Line(batch, results, running, jobs), Line(<<>>, results, running, jobs), Len(batch))
  BY LineDrop DEF Channels
<1> QED
  BY <1>2, OutIsLine, SMTT(30) DEF Channels

\* The first result is taken off, ...
Pops == batch # <<>> /\ batch' = Tail(batch) /\ UNCHANGED <<running, results>>

\* ... which leaves the others.
Popped == Line(Rest(batch), results, running, jobs)

\* The line without its first result, also after the next partial is sent.
LEMMA PoppedParts ==
  ASSUME Channels
  PROVE  /\ \A q \in Seq(Jobs), z \in Jobs :
              Line(q, results, running, Plus(jobs, z)) = Plus(Line(q, results, running, jobs), z)
         /\ Line(batch, results, running, jobs) \in Seq(Jobs)
         /\ Nonempty(batch) => /\ Nonempty(Line(batch, results, running, jobs))
                               /\ First(Line(batch, results, running, jobs)) = First(batch)
                               /\ Popped = Rest(Line(batch, results, running, jobs))
<1>1. \A q \in Seq(Jobs), z \in Jobs :
        Line(q, results, running, Plus(jobs, z)) = Plus(Line(q, results, running, jobs), z)
  BY LineSend, SMTT(30) DEF Channels
<1>3. ASSUME Nonempty(batch) PROVE First(Line(batch, results, running, jobs)) = First(batch)
  BY <1>3, LineApply, SMTT(30) DEF Channels
<1>4. ASSUME Nonempty(batch) PROVE Nonempty(Line(batch, results, running, jobs))
  BY <1>4, LineApply DEF Channels
<1>5. ASSUME Nonempty(batch)
      PROVE  Line(Rest(batch), results, running, jobs) = Rest(Line(batch, results, running, jobs))
  BY <1>5, LineApply, SMTT(30) DEF Channels
<1> QED
  BY <1>1, <1>3, <1>4, <1>5, LineParts DEF Popped, Channels

\* The first result is taken off the line, and the next partial may join it.
LEMMA PopLine ==
  ASSUME Channels, Pops
  PROVE  /\ Outstanding \in Seq(Jobs) /\ Outstanding # <<>> /\ Head(Outstanding) = Head(batch)
         /\ Popped \in Seq(Jobs) /\ Popped = Tail(Outstanding)
         /\ jobs' = jobs => Channels' /\ Outstanding' = Popped
         /\ \A job \in Jobs : jobs' = Append(jobs, job) => Channels' /\ Outstanding' = Append(Popped, job)
<1> DEFINE line == Line(batch, results, running, jobs)
<1>1. /\ jobs \in Seq(Jobs) /\ results \in Seq(Jobs) /\ batch \in Seq(Jobs) /\ running \in Jobs \cup {None}
      /\ Nonempty(batch) /\ First(batch) = Head(batch)
  BY DEF Channels, Nonempty, Pops, First
<1>2. Rest(batch) \in Seq(Jobs) /\ Rest(batch) = batch' /\ running' = running /\ results' = results
  BY <1>1, SMTT(30) DEF Rest, Pops
<1>3. /\ Nonempty(line) /\ First(line) = First(batch) /\ Popped = Rest(line) /\ line \in Seq(Jobs)
      /\ Outstanding = line
  BY <1>1, PoppedParts, OutIsLine
<1> HIDE DEF line
<1>6. jobs' = jobs => Channels' /\ Outstanding' = Popped
  BY <1>1, <1>2, OutIsLine DEF Channels, Popped
<1>7. ASSUME NEW job \in Jobs PROVE jobs' = Append(jobs, job) => Channels' /\ Outstanding' = Append(Popped, job)
  <2> HAVE jobs' = Append(jobs, job)
  <2>1. jobs' = Plus(jobs, job) /\ Plus(jobs, job) \in Seq(Jobs)
    BY <1>1, SMTT(30) DEF Plus
  <2>2. Channels'
    BY <1>1, <1>2, <2>1 DEF Channels
  <2>3. Line(batch', results, running, Plus(jobs, job)) = Plus(Line(batch', results, running, jobs), job)
    BY <1>2, PoppedParts
  <2>4. Outstanding' = Plus(Popped, job)
    BY <1>2, <2>1, <2>2, <2>3, OutIsLine DEF Popped
  <2> QED
    BY <2>2, <2>4 DEF Plus
<1> QED
  BY <1>1, <1>3, <1>6, <1>7, SMTT(30) DEF Nonempty, First, Rest

-----------------------------------------------------------------------------
(* A result keeps the order                                                 *)

\* The segments after result r, shown or not.
Reads(r) ==
  /\ segments' \in SegmentMap
  /\ \A u \in Utterances : segments'[u] # segments[u] =>
       u = r.u /\ segments'[u] # None /\ segments'[u].revision = r.revision /\ segments'[u].finalized = r.final

\* A result that is shown, or not, leaves the other segments alone.
LEMMA ResultReads ==
  ASSUME segments \in SegmentMap, NEW r \in Jobs, Reveals(r) \/ Hides
  PROVE  Reads(r)
BY NoneIsNone, SMTT(30) DEF Hides, Reads, Jobs, Transcript!Segment, Segments, Reveals, SegmentMap

\* The flight of the result is settled.
LEMMA SettledFlight ==
  ASSUME FlightInv, NEW r \in Jobs, Current(r, flights, segments), Reads(r), UNCHANGED accepted,
         NEW g \in Flights, flights' = [flights EXCEPT ![r.u] = g],
         g.finalized = flights[r.u].finalized, g.generation = flights[r.u].generation,
         flights[r.u].revision <= g.revision
  PROVE  /\ FlightInv' /\ Ahead(flights, flights') /\ flights' \in FlightMap /\ flights'[r.u] = g
         /\ \A u \in Utterances : u # r.u => flights'[u] = flights[u]
<1>1. r.u \in Utterances /\ r.revision \in Nat /\ flights \in FlightMap /\ segments \in SegmentMap
  BY DEF Jobs, FlightInv
<1>2. /\ flights' \in FlightMap /\ flights'[r.u] = g /\ \A w \in Utterances \ {r.u} : flights'[w] = flights[w]
      /\ Ahead(flights, flights')
  BY <1>1, OneFlight
<1>3. ASSUME NEW w \in Utterances
      PROVE  /\ flights'[w].generation = IF flights'[w].finalized THEN 1 ELSE 0
             /\ flights'[w].finalized <=> accepted'[w] # <<>>
             /\ segments'[w] # None => /\ segments'[w].revision <= flights'[w].revision
                                       /\ segments'[w].finalized => flights'[w].finalized
  BY <1>1, <1>2, <1>3, SMTT(30) DEF Reads, FlightInv, FlightMap, Flights, SegmentMap, Segments, Current
<1> QED
  BY <1>2, <1>3 DEF FlightInv, Reads

\* apply_transcription_result keeps the order.
LEMMA ResultStep ==
  ASSUME LineInv, ResultMove(Head(batch))
  PROVE  LineInv' /\ Current(Head(batch), flights, segments) /\ Head(batch) \in Jobs
<1> DEFINE r == Head(batch)
           u == r.u
           fl == flights
           gl == flights'
           sog == segments'
           out == Outstanding
           new == Outstanding'
<1>1. /\ FlightInv /\ Channels /\ OrderInv /\ batch # <<>> /\ UNCHANGED <<accepted, running, results>>
      /\ Fails \/ Settles(r) \/ Follows(r)
  BY DEF LineInv, ResultMove
<1>2. /\ out \in Seq(Jobs) /\ out # <<>> /\ Head(out) = r /\ r \in Jobs /\ Current(r, fl, segments)
      /\ Ordered(out, fl, segments)
  BY <1>1, FirstIsCurrent DEF OrderInv
<1>3. /\ u \in Utterances /\ fl \in FlightMap /\ segments \in SegmentMap /\ fl[u] \in Flights
      /\ fl[u].generation = (IF fl[u].finalized THEN 1 ELSE 0)
  BY <1>1, <1>2 DEF Jobs, FlightInv, FlightMap
<1> HIDE DEF r
<1>4. CASE Fails
  BY <1>1, <1>2, <1>4, DropLine, QuietStep DEF Fails, channel, r
<1>5. ASSUME Reveals(r) \/ Hides
      PROVE  Reads(r) /\ sog \in SegmentMap /\ Tail(out) \in Seq(Jobs) /\ Ordered(Tail(out), fl, sog)
  BY <1>2, <1>3, <1>5, ResultReads, OrderShown, SMTT(30) DEF Reads
<1>6. ASSUME Settles(r) PROVE LineInv'
  <2>1. /\ Reveals(r) \/ Hides
        /\ Pops /\ UNCHANGED jobs
    BY <1>1, <1>6 DEF Settles, Pops, channel
  <2>2. PICK g : Keeps(flights[r.u], g) /\ flights' = [flights EXCEPT ![r.u] = g]
    BY <1>6 DEF Settles
  <2>3. Reads(r) /\ sog \in SegmentMap /\ Tail(out) \in Seq(Jobs) /\ Ordered(Tail(out), fl, sog)
    BY <1>5, <2>1
  <2>4. /\ g \in Flights /\ g.finalized = flights[r.u].finalized /\ g.generation = flights[r.u].generation
        /\ flights[r.u].revision <= g.revision
    BY <1>3, <2>2, SMTT(30) DEF Keeps, Flights
  <2>5. FlightInv' /\ Ahead(fl, gl) /\ gl \in FlightMap
    BY <1>1, <1>2, <2>2, <2>3, <2>4, SettledFlight
  <2>6. Channels' /\ new = Tail(out)
    BY <1>1, <2>1, PopLine
  <2>7. Ordered(new, gl, sog)
    <3> DEFINE rest == Tail(out)
    <3>1. rest \in Seq(Jobs) /\ Ordered(rest, fl, sog) /\ new = rest
      BY <2>3, <2>6
    <3> HIDE DEF rest, out, fl, gl, sog, new
    <3> QED
      BY <1>3, <2>3, <2>5, <3>1, OrderCarried, Reflexive, SMTT(30)
  <2> QED
    BY <2>5, <2>6, <2>7 DEF LineInv, OrderInv
<1>7. ASSUME Follows(r) PROVE LineInv'
  <2>1. ~r.final /\ ~flights[r.u].finalized /\ (Reveals(r) \/ Hides)
    BY <1>7 DEF Follows
  <2>2. PICK f, g :
           /\ Keeps(flights[r.u], f)
           /\ \/ batch' = Tail(batch) /\ UNCHANGED <<phase, ending>> /\ \E job : PartialSent(r.u, f, g, job)
              \/ batch' = <<>> /\ Abort /\ Touched(r.u, f, g)
    BY <1>7 DEF Follows
  <2>3. Reads(r) /\ sog \in SegmentMap /\ Tail(out) \in Seq(Jobs) /\ Ordered(Tail(out), fl, sog)
    BY <1>5, <2>1
  <2>4. /\ g \in Flights /\ g.finalized = flights[r.u].finalized /\ g.generation = flights[r.u].generation
        /\ flights[r.u].revision <= g.revision /\ flights' = [flights EXCEPT ![r.u] = g]
        /\ f.revision = flights[r.u].revision /\ f.generation = flights[r.u].generation
    BY <2>2 DEF Keeps, Touched, PartialSent, Becomes
  <2>5. FlightInv' /\ Ahead(fl, gl) /\ gl \in FlightMap /\ gl[u] = g
    BY <1>1, <1>2, <2>3, <2>4, SettledFlight
  <2> DEFINE rest == Tail(out)
  <2>6. rest \in Seq(Jobs) /\ Ordered(rest, fl, sog)
    BY <2>3
  <2>7. ASSUME batch' = <<>>, Touched(r.u, f, g) PROVE LineInv'
    <3> DEFINE d == Len(batch)
               e == d - 1
    <3>2. Channels' /\ Carries(out, new, d)
      BY <1>1, <2>7, DropLine DEF Touched, channel
    <3>3. new \in Seq(Jobs)
      BY <3>2, LineParts, OutIsLine DEF Channels
    <3>4. d \in Nat \ {0}
      BY <1>1, SMTT(30) DEF Channels
    <3> HIDE DEF d, out, new
    <3>5. Carries(rest, new, e)
      BY <1>2, <3>2, <3>3, <3>4, DroppedMore, SMTT(30)
    <3> HIDE DEF rest, fl, gl, sog, e
    <3> QED
      BY <1>3, <2>3, <2>5, <2>6, <3>2, <3>3, <3>5, OrderCarried, SMTT(30) DEF LineInv, OrderInv, new, gl, sog
  <2>8. ASSUME batch' = Tail(batch), NEW job, PartialSent(r.u, f, g, job) PROVE LineInv'
    <3>1. /\ job \in Jobs /\ jobs' = Append(jobs, job) /\ ~job.final /\ job.u = u
          /\ job.generation = f.generation /\ job.revision = f.revision + 1 /\ g.revision = f.revision + 1
      BY <2>8 DEF PartialSent, Sent, Send
    <3>3. Channels' /\ new = Append(rest, job)
      BY <1>1, <2>8, <3>1, PopLine DEF Pops
    <3>4. /\ job.generation = 0 /\ job.revision = fl[job.u].revision + 1 /\ job.revision <= gl[job.u].revision
          /\ ~fl[job.u].finalized
      BY <1>3, <2>1, <2>4, <2>5, <3>1, SMTT(30) DEF Flights
    <3>5. sog[job.u] # None => ~sog[job.u].finalized /\ sog[job.u].revision <= fl[job.u].revision
      BY <1>1, <1>2, <1>3, <2>1, <2>3, <3>1, SMTT(30) DEF FlightInv, Reads, Current
    <3> HIDE DEF rest, fl, gl, sog, new, out, u
    <3>6. Ordered(new, gl, sog)
      BY <1>3, <2>3, <2>5, <2>6, <3>1, <3>3, <3>4, <3>5, OrderSent
    <3> QED
      BY <2>5, <3>3, <3>6 DEF LineInv, OrderInv, new, gl, sog
  <2> QED
    BY <2>2, <2>7, <2>8
<1> QED
  BY <1>1, <1>2, <1>4, <1>6, <1>7 DEF r

-----------------------------------------------------------------------------
(* The invariant of the session                                             *)

\* A batch is open only while it is applied or the session finishes.
BatchInv == phase \notin {"apply", "finishing", "settle"} => batch = <<>>

\* The invariant of the session.
SessionInv == VadInv /\ BufferInv /\ BatchInv /\ LineInv

\* LivePipeline::new.
LEMMA SessionStarts == Init => SessionInv
<1> SUFFICES ASSUME Init PROVE SessionInv
  OBVIOUS
<1>2. BufferInv
  BY SMTT(30) DEF Init, VadNew, Buffer!BufferNew, Buffers, BufferInv
<1>3. BatchInv /\ Channels
  BY SMTT(30) DEF Init, BatchInv, Channels
<1>4. FlightInv
  BY SMTT(30) DEF Init, NoFlight, Flights, FlightMap, SegmentMap, FlightInv
<1>6. OrderInv
  BY SMTT(30) DEF OrderInv, Ordered, Init, Outstanding
<1> QED
  BY <1>2, <1>3, <1>4, <1>6, Positive, LiveAssumption, SMTT(30) DEF SessionInv, LineInv, Init, VadNew,
     VadStates, VadInv, InTime

\* A step that leaves the audio, the flights and the line alone.
LEMMA SameSession ==
  ASSUME SessionInv, UNCHANGED <<audio, accepted, flights, segments, jobs, running, results, batch>>,
         phase' \in {"new", "collect", "apply", "loop", "shutdown", "finishing", "settle", "done"},
         Flowing' => Flowing, BatchInv'
  PROVE  SessionInv'
BY AudioFrame, SameLine DEF SessionInv, LineInv, FlightInv, Channels, OrderInv

\* The worker's steps, and the main thread's receipt of results.
LEMMA WorkerSession ==
  ASSUME SessionInv, Worker \/ Collect \/ FinishReceive
  PROVE  SessionInv'
<1>0. VadInv /\ BufferInv /\ BatchInv /\ LineInv /\ Channels
  BY DEF SessionInv, LineInv
<1>1. UNCHANGED <<audio, accepted, flights, segments>>
  BY DEF Worker, Take, Deliver, Fail, Panic, Exit, main, Collect, FinishReceive
<1>2. phase \in {"new", "collect", "apply", "loop", "shutdown", "finishing", "settle", "done"}
  BY <1>0 DEF BufferInv
<1>3. /\ phase' \in {"new", "collect", "apply", "loop", "shutdown", "finishing", "settle", "done"}
      /\ Flowing' => Flowing
  BY <1>2 DEF Worker, Take, Deliver, Fail, Panic, Exit, main, Collect, FinishReceive, Flowing
<1>4. BatchInv'
  BY <1>0 DEF Worker, Take, Deliver, Fail, Panic, Exit, main, Collect, FinishReceive, BatchInv
<1>6. ASSUME Channels', Outstanding' = Outstanding PROVE LineInv'
  BY <1>0, <1>1, <1>6 DEF LineInv, FlightInv, OrderInv
<1>7. ASSUME Take PROVE LineInv'
  BY <1>0, <1>6, <1>7, TakeLine
<1>8. ASSUME Deliver PROVE LineInv'
  BY <1>0, <1>6, <1>8, DeliverLine
<1>9. ASSUME Fail PROVE LineInv'
  BY <1>0, <1>1, <1>9, FailLine, QuietStep
<1>10. ASSUME Panic PROVE LineInv'
  BY <1>0, <1>1, <1>10, PanicLine, QuietStep
<1>11. ASSUME Exit PROVE LineInv'
  BY <1>0, <1>6, <1>11, SameLine DEF Exit, main, Channels
<1>12. ASSUME Collect PROVE LineInv'
  BY <1>0, <1>6, <1>12, CollectLine DEF Collect, BatchInv
<1>13. ASSUME FinishReceive PROVE LineInv'
  BY <1>0, <1>6, <1>13, ReceiveLine DEF FinishReceive
<1>14. LineInv'
  BY <1>7, <1>8, <1>9, <1>10, <1>11, <1>12, <1>13 DEF Worker
<1> QED
  BY <1>0, <1>1, <1>3, <1>4, <1>14, AudioFrame DEF SessionInv

\* apply_transcription_result, while the session runs and at its end.
LEMMA ResultSession ==
  ASSUME SessionInv, NEW b \in BOOLEAN, ApplyResult(b) \/ SettleResult(b)
  PROVE  /\ SessionInv' /\ ResultMove(Head(batch)) /\ Head(batch) \in Jobs /\ Current(Head(batch), flights, segments)
         /\ phase \in {"apply", "settle"} /\ (phase = "settle" => phase' = "settle")
         /\ segments \in SegmentMap
<1>0. VadInv /\ BufferInv /\ BatchInv /\ LineInv /\ FlightInv /\ Channels /\ OrderInv
  BY DEF SessionInv, LineInv
<1>1. ResultMove(Head(batch)) /\ phase \in {"apply", "settle"} /\ (phase = "settle" => phase' = "settle")
  BY <1>0, ApplyMove, SettleMove
<1>2. UNCHANGED <<audio, accepted>>
  BY DEF ApplyResult, SettleResult
<1> DEFINE r == Head(batch)
<1> HIDE DEF r
<1>5. phase' \in {phase, "shutdown", "done"} /\ (batch' # <<>> => phase' = phase)
  BY <1>1, AbortEnds DEF Fails, Settles, Follows, ResultMove, r
<1> QED
  BY <1>0, <1>1, <1>2, <1>5, ResultStep, AudioFrame DEF SessionInv, FlightInv, BatchInv, Flowing

\* The frame and the flush.
LEMMA AudioSession ==
  ASSUME SessionInv, (\E b \in BOOLEAN : ProcessFrame(b)) \/ FlushOpen
  PROVE  SessionInv'
<1>1. UNCHANGED <<segments, batch, results, running>>
  BY DEF ProcessFrame, FlushOpen, thread
<1> QED
  BY <1>1, MoveStep, FrameStep, FlushStep DEF SessionInv, BatchInv, LineInv, BufferInv

\* The end of the session.
LEMMA EndSession ==
  ASSUME SessionInv, FinishFails \/ Close
  PROVE  SessionInv'
BY AudioClosed, DropLine, QuietStep DEF SessionInv, LineInv, FinishFails, Close, EmitTerminal,
   channel, thread, BatchInv

\* Every step keeps the invariant of the session.
LEMMA SessionStep == ASSUME SessionInv, [Next]_vars PROVE SessionInv'
<1>0. phase \in {"new", "collect", "apply", "loop", "shutdown", "finishing", "settle", "done"} /\ BatchInv
  BY DEF SessionInv, BufferInv
<1>1. ASSUME Start \/ VadFails \/ Drained \/ Idle \/ Leave \/ FinishJoin PROVE SessionInv'
  <2>1. UNCHANGED <<audio, accepted, flights, segments, jobs, running, results, batch>>
    BY <1>1 DEF Start, VadFails, Drained, Idle, Leave, FinishJoin, channel, thread
  <2>3. BatchInv'
    BY <1>0, <1>1, <2>1 DEF Start, VadFails, Drained, Idle, Leave, FinishJoin, BatchInv
  <2> QED
    BY <1>0, <1>1, <2>1, <2>3, SameSession, SMTT(30) DEF Start, VadFails, Drained, Idle, Leave, FinishJoin,
       Abort, Flowing
<1>2. CASE UNCHANGED vars
  BY <1>0, <1>2, SameSession DEF vars, audio, channel, thread, Flowing, BatchInv
<1>3. CASE Next
  BY <1>1, <1>3, WorkerSession, ResultSession, AudioSession, EndSession, SMTT(30) DEF Next, Main
<1> QED
  BY <1>2, <1>3

\* What is out, in the channels and in the worker's hands, stays in order: the
\* session's inductive invariant (live.rs, LivePipeline and LiveTranscriptionWorker).
THEOREM SessionInvariance == Spec => []SessionInv
<1>1. SessionInv /\ [Next]_vars => SessionInv'
  BY SessionStep
<1> QED
  BY <1>1, SessionStarts, PTL DEF Spec

\* Revisions of a segment only grow, a final is never changed, and once the final
\* of an utterance is queued no partial of it is shown (apply_transcription_result).
THEOREM TranscriptMovesForward == Spec => TranscriptOnlyMovesForward
<1> DEFINE Forward == \A u \in Utterances : segments'[u] # segments[u] =>
                        /\ segments[u] # None => ~segments[u].finalized /\ segments'[u].revision > segments[u].revision
                        /\ flights[u].finalized => segments'[u].finalized
<1>1. ASSUME SessionInv, [Next]_vars PROVE [Forward]_vars
  <2>1. ASSUME NEW b \in BOOLEAN, ApplyResult(b) \/ SettleResult(b) PROVE Forward
    <3> DEFINE r == Head(batch)
    <3>1. ResultMove(r) /\ r \in Jobs /\ Current(r, flights, segments) /\ segments \in SegmentMap
      BY <1>1, <2>1, ResultSession
    <3> HIDE DEF r
    <3>2. ASSUME Reveals(r) \/ Hides PROVE Reads(r)
      BY <3>1, <3>2, ResultReads
    <3>3. /\ Reads(r) \/ UNCHANGED segments
          /\ flights[r.u].finalized => r.final \/ UNCHANGED segments
      BY <3>1, <3>2 DEF Fails, Settles, Hides, Follows, ResultMove
    <3>4. ASSUME NEW u \in Utterances, segments'[u] # segments[u]
          PROVE  /\ segments[u] # None => ~segments[u].finalized /\ segments'[u].revision > segments[u].revision
                 /\ flights[u].finalized => segments'[u].finalized
      BY <3>1, <3>3, <3>4 DEF Reads, Current, Jobs, SegmentMap, Segments
    <3> QED
      BY <3>4
  <2>2. ASSUME ~\E b \in BOOLEAN : ApplyResult(b) \/ SettleResult(b), Next PROVE UNCHANGED segments
    BY <2>2 DEF Next, Main, Worker, Start, VadFails, Collect, Drained, Idle, Leave, FlushOpen, FinishReceive,
                FinishJoin, FinishFails, Close, ProcessFrame, Take, Deliver, Fail, Panic, Exit, main
  <2> QED
    BY <1>1, <2>1, <2>2
<1> QED
  BY <1>1, SessionInvariance, PTL DEF Spec, TranscriptOnlyMovesForward

-----------------------------------------------------------------------------
(* The audio is kept                                                        *)

\* The audio's invariant holds.
LEMMA AudioInvariance == ASSUME Roomy PROVE Spec => []AudioInv
<1>1. Init => AudioInv
  BY AudioStarts
<1>2. SessionInv /\ AudioInv /\ [Next]_vars => AudioInv'
  BY AudioStep DEF SessionInv
<1> QED
  BY <1>1, <1>2, SessionInvariance, PTL DEF Spec

\* The buffer that LivePipelineConfig::from_options sizes never overflows, for
\* every VAD configuration whose longest utterance has room for a frame.
THEOREM BufferIsLargeEnough == ASSUME Roomy PROVE Spec => []CapacitySuffices
<1>1. AudioInv => CapacitySuffices
  BY DEF AudioInv, CapacitySuffices
<1> QED
  BY <1>1, AudioInvariance, PTL

\* push_frame and start_active_from_pre_roll lose no speech: the audio of an
\* utterance has no gap, reaches back to the start of the speech and shares
\* no frame with another utterance.
THEOREM SpeechStaysWhole == ASSUME Roomy PROVE Spec => []SpeechIsKept
<1>1. SessionInv /\ AudioInv => SpeechIsKept
  BY AudioKept DEF SessionInv
<1> QED
  BY <1>1, AudioInvariance, SessionInvariance, PTL

-----------------------------------------------------------------------------
(* in_flight and the line                                                   *)

\* in_flight is true of every utterance while the session runs.
FlyInv == Flowing /\ worker = "alive" => Tracks(Outstanding, flights)

\* The line is a sequence of jobs.
LEMMA OutLen == ASSUME Channels PROVE Outstanding \in Seq(Jobs) /\ Len(Outstanding) \in Nat
BY OutIsLine, LineParts, SMTT(30) DEF Channels

\* A step that leaves the line and in_flight alone.
LEMMA SameTracks ==
  ASSUME Channels, Outstanding' = Outstanding, \A u \in Utterances : Flies(flights[u], flights'[u]),
         Tracks(Outstanding, flights)
  PROVE  Tracks(Outstanding', flights')
BY OutLen, Reflexive, TracksSame, SMTT(30)

\* A frame.
LEMMA MoveTracks ==
  ASSUME LineInv, Moves, UNCHANGED <<batch, results, running>>, Tracks(Outstanding, flights)
  PROVE  Tracks(Outstanding', flights')
<1>0. Channels /\ flights \in FlightMap
  BY DEF LineInv, FlightInv
<1>1. CASE Untouched
  BY <1>0, <1>1, SameTracks, SameLine DEF Untouched, channel, Flies
<1>2. ASSUME NEW u \in Utterances, NEW g, Touched(u, flights[u], g) PROVE Tracks(Outstanding', flights')
  BY <1>0, <1>2, SameTracks, SameLine DEF Touched, Becomes, Flies, channel, FlightMap
<1>3. ASSUME NEW u \in Utterances, NEW g, NEW job,
             PartialSent(u, flights[u], g, job) \/ FinalSent(u, flights[u], g, job)
      PROVE  Tracks(Outstanding', flights')
  <2> DEFINE out == Outstanding
             new == Outstanding'
             fl == flights
             gl == flights'
  <2>1. /\ flights' = [flights EXCEPT ![u] = g] /\ jobs' = Append(jobs, job) /\ job \in Jobs /\ job.u = u
        /\ ~g.finalized => ~job.final /\ ~fl[u].finalized /\ ~fl[u].inFlight /\ g.inFlight
    BY <1>3 DEF PartialSent, FinalSent, Becomes, Sent, Send
  <2>2. out \in Seq(Jobs) /\ new = Plus(out, job)
    BY <1>0, <2>1, SentStep DEF Plus
  <2>3. /\ gl[u] = g /\ \A w \in Utterances : w # job.u => Flies(fl[w], gl[w])
    BY <1>0, <2>1 DEF FlightMap, Flies
  <2>5. Tracks(out, fl)
    OBVIOUS
  <2> HIDE DEF out, new, fl, gl
  <2>7. Tracks(new, gl)
    BY <2>1, <2>2, <2>3, <2>5, TracksSent, SMTT(30)
  <2> QED
    BY <2>7 DEF new, gl
<1> QED
  BY <1>1, <1>2, <1>3 DEF Moves

\* A result.
LEMMA ResultTracks ==
  ASSUME LineInv, ResultMove(Head(batch)), phase = "apply", Flowing', Tracks(Outstanding, flights)
  PROVE  Tracks(Outstanding', flights')
<1> DEFINE r == Head(batch)
           u == r.u
           out == Outstanding
           new == Outstanding'
           fl == flights
           gl == flights'
<1>1. /\ Channels /\ OrderInv /\ fl \in FlightMap /\ batch # <<>> /\ UNCHANGED <<running, results>>
      /\ Fails \/ Settles(r) \/ Follows(r)
  BY DEF LineInv, ResultMove, FlightInv
<1>2. r \in Jobs /\ Current(r, fl, segments) /\ u \in Utterances /\ Tracks(out, fl)
  BY <1>1, FirstIsCurrent DEF Jobs
<1> HIDE DEF r
<1>3. ASSUME batch' = Tail(batch) PROVE Pops
  BY <1>1, <1>3 DEF Pops
<1>4. ASSUME Pops, NEW hl, hl[u].finalized = fl[u].finalized, ~hl[u].inFlight,
             \A w \in Utterances : w # u => Flies(fl[w], hl[w])
      PROVE  Tracks(Popped, hl) /\ Popped \in Seq(Jobs)
  <2>1. out \in Seq(Jobs) /\ Nonempty(out) /\ r = First(out) /\ Popped = Rest(out) /\ Popped \in Seq(Jobs)
    BY <1>1, <1>4, PopLine DEF Nonempty, First, Rest, r
  <2> DEFINE rest == Popped
  <2>3. rest = Rest(out)
    BY <2>1
  <2> HIDE DEF rest, out, fl
  <2> QED
    BY <1>2, <1>4, <2>1, <2>3, TracksShown, SMTT(30) DEF rest, Current
<1>5. CASE Fails
  BY <1>5 DEF Fails, Flowing
<1>6. CASE Settles(r)
  <2>1. PICK g : Keeps(flights[r.u], g) /\ flights' = [flights EXCEPT ![r.u] = g]
    BY <1>6 DEF Settles
  <2>2. batch' = Tail(batch) /\ jobs' = jobs
    BY <1>6 DEF Settles, channel
  <2>3. /\ gl[u].finalized = fl[u].finalized /\ ~gl[u].inFlight
        /\ \A w \in Utterances : w # u => Flies(fl[w], gl[w])
    BY <1>1, <1>2, <2>1 DEF FlightMap, Flies, Keeps
  <2> QED
    BY <1>1, <1>3, <1>4, <2>2, <2>3, PopLine
<1>7. CASE Follows(r)
  <2>1. PICK f, g :
           /\ Keeps(flights[r.u], f)
           /\ \/ batch' = Tail(batch) /\ UNCHANGED <<phase, ending>> /\ \E job : PartialSent(r.u, f, g, job)
              \/ batch' = <<>> /\ Abort /\ Touched(r.u, f, g)
    BY <1>7 DEF Follows
  <2>3. PICK job : batch' = Tail(batch) /\ PartialSent(r.u, f, g, job)
    BY <2>1, AbortEnds
  <2>4. /\ flights' = [flights EXCEPT ![u] = g] /\ jobs' = Append(jobs, job) /\ job \in Jobs /\ job.u = u
        /\ ~job.final /\ ~f.finalized /\ ~f.inFlight /\ g.inFlight
    BY <2>3 DEF PartialSent, Becomes, Sent, Send
  <2> DEFINE hl == [flights EXCEPT ![u] = f]
             rest == Popped
  <2>5. /\ hl[u] = f /\ f.finalized = fl[u].finalized
        /\ \A w \in Utterances : w # u => Flies(fl[w], hl[w])
    BY <1>1, <1>2, <2>1 DEF FlightMap, Flies, Keeps
  <2> HIDE DEF hl
  <2>7. Tracks(rest, hl) /\ rest \in Seq(Jobs)
    BY <1>3, <1>4, <2>3, <2>4, <2>5
  <2>8. new = Plus(rest, job) /\ job \in Jobs
    BY <1>1, <1>3, <2>3, <2>4, PopLine DEF Plus
  <2>9. /\ ~gl[job.u].finalized => ~job.final /\ ~hl[job.u].finalized /\ ~hl[job.u].inFlight /\ gl[job.u].inFlight
        /\ \A w \in Utterances : w # job.u => Flies(hl[w], gl[w])
    BY <1>1, <1>2, <2>4, <2>5 DEF FlightMap, Flies
  <2> HIDE DEF rest, new, gl
  <2> QED
    BY <2>7, <2>8, <2>9, TracksSent, SMTT(30) DEF new, gl
<1> QED
  BY <1>1, <1>5, <1>6, <1>7

\* Every step keeps in_flight true while the session runs.
LEMMA FlyStep == ASSUME SessionInv, FlyInv, [Next]_vars PROVE FlyInv'
<1> SUFFICES ASSUME Flowing', worker' = "alive" PROVE Tracks(Outstanding', flights')
  BY DEF FlyInv
<1>0. LineInv /\ Channels /\ BatchInv /\ VadInv /\ BufferInv /\ FlightInv
  BY DEF SessionInv, LineInv
<1>1. ASSUME Flowing, worker = "alive" PROVE Tracks(Outstanding, flights)
  BY <1>1 DEF FlyInv
<1>2. ASSUME Flowing, UNCHANGED <<worker, flights>>, Outstanding' = Outstanding PROVE Tracks(Outstanding', flights')
  BY <1>1, <1>2
<1>3. ASSUME UNCHANGED <<phase, worker, flights>>, Outstanding' = Outstanding PROVE Tracks(Outstanding', flights')
  BY <1>2, <1>3 DEF Flowing
<1>4. CASE Start \/ Drained \/ Idle \/ UNCHANGED vars
  BY <1>2, <1>4, SameLine DEF Start, Drained, Idle, vars, Flowing, channel, thread
<1>5. CASE VadFails \/ Leave \/ FlushOpen \/ FinishReceive \/ FinishJoin \/ FinishFails \/ Close
  BY <1>0, <1>5, AbortEnds, FlushStep DEF VadFails, Leave, FinishReceive, FinishJoin, FinishFails,
     Close, Flowing, GoOn
<1>6. CASE Collect
  BY <1>0, <1>2, <1>6, CollectLine DEF Collect, BatchInv, Flowing
<1>7. CASE Take \/ Deliver
  BY <1>0, <1>3, <1>7, TakeLine, DeliverLine DEF Take, Deliver, main
<1>8. CASE Fail
  <2> DEFINE out == Outstanding
             new == Outstanding'
  <2>1. UNCHANGED <<phase, flights, worker>>
    BY <1>8 DEF Fail, main
  <2> HIDE DEF out, new
  <2> QED
    BY <1>0, <1>1, <1>8, <2>1, TracksSame, FailLine, OutLen, SMTT(30) DEF new, Flies, Flowing
<1>9. CASE Panic \/ Exit
  BY <1>9 DEF Panic, Exit
<1>10. ASSUME NEW b \in BOOLEAN, ProcessFrame(b) PROVE Tracks(Outstanding', flights')
  <2>2. UNCHANGED <<batch, results, running, worker>>
    BY <1>10 DEF ProcessFrame, thread
  <2> QED
    BY <1>0, <1>1, <1>10, <2>2, MoveTracks, FrameStep, SMTT(30) DEF Flowing
<1>11. ASSUME NEW b \in BOOLEAN, ApplyResult(b) \/ SettleResult(b) PROVE Tracks(Outstanding', flights')
  <2>1. ResultMove(Head(batch)) /\ phase \in {"apply", "settle"} /\ (phase = "settle" => phase' = "settle")
    BY <1>11, ResultSession
  <2>2. phase = "apply" /\ Flowing /\ worker = "alive"
    BY <1>11, <2>1 DEF Flowing, ApplyResult, SettleResult, thread
  <2> QED
    BY <1>0, <1>1, <2>1, <2>2, ResultTracks, SMTT(30)
<1> QED
  BY <1>4, <1>5, <1>6, <1>7, <1>8, <1>9, <1>10, <1>11, SMTT(30) DEF Next, Main, Worker

\* in_flight and the line agree, with the invariant of the session.
LEMMA FlyInvariance == Spec => []FlyInv
<1>1. Init => FlyInv
  BY SMTT(30) DEF Init, Outstanding, NoFlight, FlyInv, Tracks
<1>2. SessionInv /\ FlyInv /\ [Next]_vars => FlyInv'
  BY FlyStep
<1> QED
  BY <1>1, <1>2, SessionInvariance, PTL DEF Spec

-----------------------------------------------------------------------------
(* pending_jobs counts what the worker still owes                           *)

\* What was sent and not received.
Owed == Len(results) + (IF running = None THEN 0 ELSE 1) + Len(jobs)

\* pending_jobs, and where the worker may be in the phases of the session.
PendingInv ==
  /\ pending \in Nat /\ worker \in {"alive", "exited", "panicked"}
  /\ worker # "panicked" => pending = Owed
  /\ worker # "alive" => running = None /\ jobs = <<>>
  /\ worker = "exited" => phase \in {"finishing", "settle", "done"}
  /\ phase = "settle" => pending = 0 /\ worker = "exited"

\* What the main thread does to the channel.
Queues == UNCHANGED channel \/ (worker = "alive" /\ \E job \in Jobs : Send(job))

\* A frame or the flush sends at most one job, ...
LEMMA MovesQueue == Moves => Queues
BY SMTT(30) DEF Moves, Untouched, Touched, PartialSent, FinalSent, Sent, Accepts, Queues

\* ... and so does a result, which ...
LEMMA ResultQueues == ASSUME NEW r, ResultMove(r) PROVE Queues
BY SMTT(30) DEF ResultMove, Fails, Settles, Follows, Touched, PartialSent, Sent, Accepts, Queues

\* ... keeps the count.
LEMMA QueueCounts ==
  ASSUME Channels, PendingInv, Queues, UNCHANGED <<running, worker, results>>, BufferInv, BufferInv',
         phase \in {"finishing", "settle", "done"} => phase' \in {"finishing", "settle", "done"},
         phase' # "settle" \/ (phase = "settle" /\ UNCHANGED channel)
  PROVE  PendingInv'
<1>1. CASE UNCHANGED channel
  BY <1>1 DEF PendingInv, Owed, channel
<1>2. ASSUME worker = "alive", NEW job \in Jobs, Send(job), phase' # "settle" PROVE PendingInv'
  <2>1. jobs' = Append(jobs, job) /\ pending' = pending + 1
    BY <1>2 DEF Send
  <2>2. Len(jobs') = Len(jobs) + 1 /\ Len(jobs) \in Nat /\ Len(results) \in Nat
    BY <1>2, <2>1, SMTT(30) DEF Channels
  <2>4. pending' = Owed' /\ pending' \in Nat
    <3> DEFINE a == Len(results)
               c == IF running = None THEN 0 ELSE 1
    <3>1. Owed = a + c + Len(jobs) /\ Owed' = a + c + Len(jobs') /\ c \in Nat /\ a \in Nat
      BY <2>2 DEF Owed
    <3> HIDE DEF a, c
    <3> QED
      BY <1>2, <2>1, <2>2, <3>1, SMTT(30) DEF PendingInv
  <2> QED
    BY <1>2, <2>4 DEF PendingInv
<1>3. CASE ~UNCHANGED channel
  BY <1>2, <1>3 DEF Queues
<1> QED
  BY <1>1, <1>3

\* Every step keeps pending_jobs equal to what the worker owes.
LEMMA PendingStep == ASSUME SessionInv, PendingInv, [Next]_vars PROVE PendingInv'
<1>0. /\ LineInv /\ Channels /\ BatchInv /\ VadInv /\ BufferInv /\ FlightInv /\ SessionInv' /\ BufferInv'
      /\ Len(results) \in Nat /\ Len(jobs) \in Nat
  BY SessionStep, SMTT(30) DEF SessionInv, LineInv, Channels
<1>1. ASSUME Start \/ VadFails \/ Drained \/ Idle \/ Leave \/ FinishFails \/ Close \/ UNCHANGED vars PROVE PendingInv'
  <2>1. UNCHANGED <<channel, running, worker, results>> /\ (phase' # "settle" \/ phase = "settle")
        /\ (phase \in {"finishing", "settle", "done"} => phase' \in {"finishing", "settle", "done"})
    BY <1>1, AbortEnds DEF Start, VadFails, Drained, Idle, Leave, FinishFails, Close, vars, thread
  <2> QED
    BY <1>0, <2>1, QueueCounts DEF Queues
<1>2. ASSUME FinishJoin PROVE PendingInv'
  BY <1>2 DEF FinishJoin, channel, thread, PendingInv, Owed
<1>3. ASSUME Collect PROVE PendingInv'
  BY <1>0, <1>3, SMTT(30) DEF Collect, PendingInv, Owed
<1>4. ASSUME FinishReceive PROVE PendingInv'
  BY <1>0, <1>4, SMTT(30) DEF FinishReceive, Channels, PendingInv, Owed
<1>5. ASSUME Take PROVE PendingInv'
  BY <1>0, <1>5, NoneIsNone, SMTT(30) DEF Take, main, Channels, PendingInv, Owed
<1>6. ASSUME Deliver \/ Fail PROVE PendingInv'
  <2>1. /\ running # None /\ running' = None /\ UNCHANGED <<phase, pending, jobs, worker>>
        /\ results' = Append(results, running) \/ results' = Append(results, [running EXCEPT !.ok = FALSE])
    BY <1>6 DEF Deliver, Fail, main
  <2>2. Len(results') = Len(results) + 1
    BY <1>0, <2>1, SMTT(30) DEF Channels, Jobs
  <2> QED
    BY <1>0, <2>1, <2>2, SMTT(30) DEF PendingInv, Owed
<1>7. ASSUME Panic PROVE PendingInv'
  BY <1>7 DEF Panic, main, PendingInv
<1>8. ASSUME Exit PROVE PendingInv'
  BY <1>8 DEF Exit, main, PendingInv, Owed, Open
<1>9. ASSUME (\E b \in BOOLEAN : ProcessFrame(b)) \/ FlushOpen PROVE PendingInv'
  <2>3. UNCHANGED <<running, worker, results>>
    BY <1>9 DEF ProcessFrame, FlushOpen, thread
  <2> QED
    BY <1>0, <1>9, <2>3, MovesQueue, QueueCounts, AbortEnds, FrameStep, FlushStep, SMTT(30) DEF GoOn
<1>10. ASSUME NEW b \in BOOLEAN, ApplyResult(b) PROVE PendingInv'
  <2>1. ResultMove(Head(batch)) /\ phase = "apply"
    BY <1>0, <1>10, ApplyMove DEF LineInv
  <2>3. phase' # "settle"
    BY <2>1, AbortEnds DEF ResultMove, Fails, Settles, Follows
  <2> QED
    BY <1>0, <1>10, <2>1, <2>3, QueueCounts, ResultQueues, SMTT(30) DEF ApplyResult, thread
<1>11. ASSUME NEW b \in BOOLEAN, SettleResult(b) PROVE PendingInv'
  BY <1>0, <1>11, QueueCounts, SMTT(30) DEF SettleResult, thread, Queues
<1> QED
  BY <1>1, <1>2, <1>3, <1>4, <1>5, <1>6, <1>7, <1>8, <1>9, <1>10, <1>11, SMTT(30) DEF Next, Main, Worker

-----------------------------------------------------------------------------
(* Nothing accepted is lost                                                 *)

\* The utterances whose final is shown.
FinalSegments == {u \in Utterances : segments[u] # None /\ segments[u].finalized}

\* No result has failed and the worker has not died.
Whole == worker # "panicked" /\ ending \in {"none", "clean"}

\* ... so that the final of every accepted utterance is shown or out.
LossInv ==
  /\ Whole => \A u \in Utterances : accepted[u] # <<>> => u \in FinalSegments \/ Awaits(Outstanding, u)
  /\ Flowing => ending = "none"

\* Each final is counted once.
CountInv == completed = Cardinality(FinalSegments)

\* A final result adds its utterance to the finals, and only that.
LEMMA FinalsGrow ==
  ASSUME segments \in SegmentMap, NEW r \in Jobs, Current(r, flights, segments), Reveals(r)
  PROVE  /\ r.u \notin FinalSegments
         /\ FinalSegments' = IF r.final THEN FinalSegments \cup {r.u} ELSE FinalSegments
BY NoneIsNone, SMTT(30) DEF Jobs, Transcript!Segment, Segments, Reveals, SegmentMap, Current, FinalSegments

\* The final is where it was, ...
Kept == \A u \in Utterances : accepted[u] # <<>> => u \in FinalSegments \/ Awaits(Outstanding, u)

\* ... when nothing moves, ...
LEMMA KeptStill ==
  ASSUME Kept, UNCHANGED <<segments, accepted>>, Outstanding' = Outstanding
  PROVE  Kept'
BY DEF Kept, FinalSegments, Awaits

\* ... or moves with the line: a frame, ...
LEMMA MoveKept ==
  ASSUME LineInv, Kept, Moves, accepted \in [Utterances -> Seq(Nat)], UNCHANGED <<segments, batch, results, running>>
  PROVE  Kept'
<1>1. ASSUME UNCHANGED <<accepted, channel>> PROVE Kept'
  BY <1>1, KeptStill, SameLine DEF channel
<1>2. ASSUME NEW u \in Utterances, NEW g, NEW job,
             PartialSent(u, flights[u], g, job) \/ FinalSent(u, flights[u], g, job)
      PROVE  Kept'
  <2> DEFINE out == Outstanding
             new == Outstanding'
  <2>1. jobs' = Append(jobs, job) /\ job \in Jobs /\ job.u = u
    BY <1>2 DEF PartialSent, FinalSent, Sent, Send
  <2>2. out \in Seq(Jobs) /\ new = Plus(out, job)
    BY <2>1, SentStep DEF Plus, LineInv
  <2>3. ASSUME NEW w \in Utterances, accepted'[w] # <<>> PROVE accepted[w] # <<>> \/ (w = u /\ job.final)
    BY <1>2, <2>3 DEF PartialSent, FinalSent
  <2>5. \A w \in Utterances : accepted[w] # <<>> => w \in FinalSegments \/ Awaits(out, w)
    BY DEF Kept
  <2> HIDE DEF out, new
  <2> QED
    BY <2>1, <2>2, <2>3, <2>5, AwaitsPlus, SMTT(30) DEF Kept, new, FinalSegments
<1> QED
  BY <1>1, <1>2 DEF Moves, Untouched, Touched

\* ... or a result.
LEMMA ResultKept ==
  ASSUME SessionInv, Kept, ResultMove(Head(batch)), ending' \in {"none", "clean"}
  PROVE  Kept'
<1> DEFINE r == Head(batch)
           out == Outstanding
           new == Outstanding'
<1>1. /\ Channels /\ OrderInv /\ batch # <<>> /\ UNCHANGED <<running, results, accepted>>
      /\ Fails \/ Settles(r) \/ Follows(r)
  BY DEF SessionInv, LineInv, ResultMove
<1>2. r \in Jobs /\ Current(r, flights, segments) /\ segments \in SegmentMap
  BY <1>1, FirstIsCurrent DEF SessionInv, LineInv, FlightInv
<1> HIDE DEF r
<1>3. /\ batch' = Tail(batch) /\ (Reveals(r) \/ (Hides /\ ~r.final))
      /\ UNCHANGED jobs \/ \E job \in Jobs : jobs' = Append(jobs, job)
  BY <1>1, AbortEnds, SMTT(30) DEF Fails, Settles, channel, Follows, PartialSent, Sent, Send
<1>4. Pops
  BY <1>1, <1>3 DEF Pops
<1> DEFINE rest == Popped
<1>5. out \in Seq(Jobs) /\ Nonempty(out) /\ r = First(out) /\ rest = Rest(out) /\ rest \in Seq(Jobs)
  BY <1>1, <1>4, PopLine DEF Nonempty, First, Rest, r
<1>6. new = rest \/ \E job \in Jobs : new = Plus(rest, job)
  BY <1>1, <1>3, <1>4, PopLine DEF Plus
<1>8. \A u \in Utterances : accepted[u] # <<>> => u \in FinalSegments \/ Awaits(out, u)
  BY DEF Kept
<1> HIDE DEF out, new, rest
<1>9. ASSUME NEW u, Awaits(out, u), ~(u = r.u /\ r.final) PROVE Awaits(new, u)
  BY <1>5, <1>6, <1>9, AwaitsRest, AwaitsPlus, SMTT(30)
<1> QED
  BY <1>1, <1>2, <1>3, <1>8, <1>9, FinalsGrow, SMTT(30) DEF Kept, new, Hides, FinalSegments

\* No step loses the final of an accepted utterance.
LEMMA LossStep == ASSUME SessionInv, PendingInv, LossInv, [Next]_vars PROVE LossInv'
<1>0. /\ LineInv /\ Channels /\ BatchInv /\ VadInv /\ BufferInv /\ FlightInv /\ accepted \in [Utterances -> Seq(Nat)]
      /\ worker \in {"alive", "exited", "panicked"}
  BY DEF SessionInv, LineInv, BufferInv, PendingInv
<1>1. worker' # "panicked" => worker # "panicked"
  BY <1>0 DEF Next, Main, Worker, Start, VadFails, Collect, Drained, Idle, Leave, FlushOpen, FinishReceive, FinishJoin,
              FinishFails, Close, ProcessFrame, ApplyResult, SettleResult, Take, Deliver, Fail, Panic, Exit, main, vars,
              thread
<1>2. Flowing => ending = "none"
  BY DEF LossInv
<1>3. ASSUME worker # "panicked", ending \in {"none", "clean"} PROVE Kept
  BY <1>3 DEF LossInv, Whole, Kept
<1>4. ASSUME Flowing' => Flowing /\ ending' = ending, Whole' => Kept' PROVE LossInv'
  BY <1>2, <1>4 DEF LossInv, Whole, Kept
<1>5. ASSUME Start \/ Drained \/ Idle \/ VadFails \/ FinishJoin \/ FinishFails \/ Close \/ Leave \/ UNCHANGED vars
      PROVE  LossInv'
  <2>1. /\ Flowing' => Flowing /\ ending' = ending
        /\ ending' \in {"none", "clean"} => ending \in {"none", "clean"}
    BY <1>2, <1>5, AbortEnds, SMTT(30) DEF Start, Drained, Idle, VadFails, FinishJoin, FinishFails, Close, Leave, vars, Flowing
  <2>2. UNCHANGED <<segments, accepted, jobs, running, results>> /\ (batch' = batch \/ ending' = "broken")
    BY <1>5 DEF Start, Drained, Idle, VadFails, FinishJoin, FinishFails, Close, Leave, vars, channel, thread
  <2>3. ASSUME Whole' PROVE Kept'
    BY <1>1, <1>3, <2>1, <2>2, <2>3, KeptStill, SameLine, SMTT(30) DEF Whole
  <2> QED
    BY <1>4, <2>1, <2>3, SMTT(30)
<1>6. ASSUME Collect \/ FinishReceive \/ Take \/ Deliver \/ Exit PROVE LossInv'
  <2>2. Outstanding' = Outstanding
    BY <1>0, <1>6, CollectLine, ReceiveLine, SameLine, TakeLine, DeliverLine, SMTT(30) DEF Collect, BatchInv,
       FinishReceive, Exit, main
  <2> QED
    BY <1>1, <1>3, <1>4, <1>6, <2>2, KeptStill, SMTT(30) DEF Whole, Collect, FinishReceive, Take, Deliver,
       Exit, main, Flowing
<1>7. ASSUME Fail PROVE LossInv'
  BY <1>0, <1>1, <1>3, <1>4, <1>7, FailLine, OutLen, AwaitsCarried, SMTT(30) DEF Fail, main, Flowing, Whole,
     Kept, FinalSegments
<1>8. ASSUME Panic PROVE LossInv'
  BY <1>4, <1>8 DEF Panic, main, Whole, Flowing
<1>9. ASSUME (\E b \in BOOLEAN : ProcessFrame(b)) \/ FlushOpen PROVE LossInv'
  <2>1. /\ Moves /\ phase \in {"loop", "shutdown"}
        /\ (phase = "loop" /\ GoOn("collect")) \/ Abort \/ GoOn("finishing") \/ (phase' = "done" /\ ending' = "refused")
    BY <1>0, <1>9, FrameStep, FlushStep, SMTT(30)
  <2>2. /\ Flowing' => Flowing /\ ending' = ending
        /\ ending' \in {"none", "clean"} => ending' = ending
    BY <2>1, AbortEnds DEF GoOn, Flowing
  <2>3. UNCHANGED <<segments, batch, results, running>>
    BY <1>9 DEF ProcessFrame, FlushOpen, thread
  <2>4. ASSUME Whole' PROVE Kept'
    BY <1>0, <1>1, <1>3, <2>1, <2>2, <2>3, <2>4, MoveKept, SMTT(30) DEF Whole
  <2> QED
    BY <1>4, <2>2, <2>4
<1>10. ASSUME NEW b \in BOOLEAN, ApplyResult(b) \/ SettleResult(b) PROVE LossInv'
  <2>1. ResultMove(Head(batch)) /\ phase \in {"apply", "settle"} /\ (phase = "settle" => phase' = "settle")
    BY <1>10, ResultSession
  <2>2. /\ Flowing' => Flowing /\ ending' = ending
        /\ ending' \in {"none", "clean"} => ending' = ending
    BY <2>1, AbortEnds DEF ResultMove, Settles, Follows, Fails, Flowing
  <2>3. ASSUME Whole' PROVE Kept'
    BY <1>1, <1>3, <2>1, <2>2, <2>3, ResultKept, SMTT(30) DEF Whole
  <2> QED
    BY <1>4, <2>2, <2>3
<1> QED
  BY <1>5, <1>6, <1>7, <1>8, <1>9, <1>10, SMTT(30) DEF Next, Main, Worker

\* The partials of an utterance that are out, while the session runs, and what
\* is queued before its final.
LEMMA OneTracked ==
  ASSUME SessionInv, FlyInv, phase \in {"collect", "apply", "loop"}, worker = "alive", NEW u \in Utterances
  PROVE  LET P == {i \in DOMAIN Outstanding : Outstanding[i].u = u /\ ~Outstanding[i].final}
         IN  /\ ~flights[u].finalized => IF flights[u].inFlight THEN \E i : P = {i} ELSE P = {}
             /\ \A i, j \in DOMAIN Outstanding :
                  Outstanding[i].u = u /\ Outstanding[i].final /\ Outstanding[j].u = u => j <= i
<1> DEFINE out == Outstanding
<1>1. out \in Seq(Jobs) /\ Len(out) \in Nat /\ Ordered(out, flights, segments)
  BY OutLen DEF SessionInv, LineInv, OrderInv
<1>2. Tracks(out, flights)
  BY DEF FlyInv, Flowing
<1> HIDE DEF out
<1>3. DOMAIN out = 1 .. Len(out)
  BY <1>1, SMTT(30)
<1> DEFINE P == {i \in DOMAIN out : out[i].u = u /\ ~out[i].final}
<1>4. \A i \in 1 .. Len(out) : i \in P <=> Partial(out[i], u)
  BY <1>3 DEF Partial
<1>5. P \subseteq 1 .. Len(out)
  BY <1>3
<1> HIDE DEF P
<1>6. ASSUME ~flights[u].finalized PROVE IF flights[u].inFlight THEN \E i : P = {i} ELSE P = {}
  <2>1. /\ flights[u].inFlight => \E i \in 1 .. Len(out) : Partial(out[i], u)
        /\ \A i \in 1 .. Len(out) : Partial(out[i], u) =>
             flights[u].inFlight /\ \A k \in 1 .. Len(out) : Partial(out[k], u) => k = i
    BY <1>2, <1>6, SMTT(30) DEF Tracks
  <2>2. ASSUME flights[u].inFlight PROVE \E i : P = {i}
    <3>1. PICK i \in 1 .. Len(out) : Partial(out[i], u)
      BY <2>1, <2>2
    <3>2. P = {i}
      BY <1>4, <1>5, <2>1, <3>1
    <3> QED
      BY <3>2
  <2>3. ASSUME ~flights[u].inFlight PROVE P = {}
    BY <1>4, <1>5, <2>1, <2>3
  <2> QED
    BY <2>2, <2>3
<1>7. ASSUME NEW i \in DOMAIN out, NEW j \in DOMAIN out, out[i].u = u, out[i].final, out[j].u = u PROVE j <= i
  BY <1>1, <1>3, <1>7, SMTT(30) DEF Ordered, Before
<1> QED
  BY <1>6, <1>7 DEF out, P

\* A step shows one final more and counts it, or shows none.
LEMMA FinalsCounted ==
  ASSUME SessionInv, [Next]_vars
  PROVE  \/ FinalSegments' = FinalSegments /\ completed' = completed
         \/ \E u : u \notin FinalSegments /\ FinalSegments' = FinalSegments \cup {u} /\ completed' = completed + 1
<1>1. ASSUME UNCHANGED <<segments, completed>> PROVE FinalSegments' = FinalSegments /\ completed' = completed
  BY <1>1 DEF FinalSegments
<1>2. ASSUME NEW b \in BOOLEAN, ApplyResult(b) \/ SettleResult(b)
      PROVE  \/ FinalSegments' = FinalSegments /\ completed' = completed
             \/ \E u : u \notin FinalSegments /\ FinalSegments' = FinalSegments \cup {u} /\ completed' = completed + 1
  <2> DEFINE r == Head(batch)
  <2>1. ResultMove(r) /\ r \in Jobs /\ Current(r, flights, segments) /\ segments \in SegmentMap
    BY <1>2, ResultSession
  <2> HIDE DEF r
  <2>2. Reveals(r) \/ UNCHANGED <<segments, completed>>
    BY <2>1 DEF ResultMove, Fails, Settles, Follows, Hides
  <2>3. ASSUME Reveals(r)
        PROVE  /\ r.u \notin FinalSegments
               /\ FinalSegments' = IF r.final THEN FinalSegments \cup {r.u} ELSE FinalSegments
               /\ completed' = IF r.final THEN completed + 1 ELSE completed
    <3>1. completed' = IF r.final THEN completed + 1 ELSE completed
      BY <2>3 DEF Reveals
    <3> QED
      BY <2>1, <2>3, <3>1, FinalsGrow
  <2> QED
    BY <1>1, <2>2, <2>3
<1>3. ASSUME ~\E b \in BOOLEAN : ApplyResult(b) \/ SettleResult(b) PROVE UNCHANGED <<segments, completed>>
  BY <1>3 DEF Next, Main, Worker, Start, VadFails, Collect, Drained, Idle, Leave, FlushOpen, FinishReceive,
              FinishJoin, FinishFails, Close, ProcessFrame, Take, Deliver, Fail, Panic, Exit, main, vars
<1> QED
  BY <1>1, <1>2, <1>3

\* The counts: what is pending, what is completed, what is not lost.
DeliveryInv == PendingInv /\ CountInv /\ LossInv

\* A transcript is saved when the session is over.
SavedInv == (saved = "full" => phase = "done") /\ SavedTranscriptComplete

\* persist_history_if_requested saves in full what is complete, and nothing
\* changes after it.
LEMMA SaveStep == ASSUME SessionInv, DeliveryInv, SavedInv, [Next]_vars PROVE SavedInv'
<1>1. ASSUME phase = "done" PROVE UNCHANGED <<phase, saved, segments, accepted, completed>>
  <2>1. ASSUME NEW b \in BOOLEAN PROVE ~ProcessFrame(b) /\ ~ApplyResult(b) /\ ~SettleResult(b)
    BY <1>1, SMTT(30) DEF ProcessFrame, ApplyResult, SettleResult
  <2>2. Worker \/ UNCHANGED vars
    BY <1>1, <2>1 DEF Next, Main, Start, VadFails, Collect, Drained, Idle, Leave, FlushOpen, FinishReceive,
                           FinishJoin, FinishFails, Close
  <2> QED
    BY <2>2 DEF Worker, Take, Deliver, Fail, Panic, Exit, main, vars, outcome
<1>2. ASSUME UNCHANGED saved, phase = "done" PROVE SavedInv'
  BY <1>1, <1>2, SMTT(30) DEF SavedInv, SavedTranscriptComplete, AcceptedCount
<1>3. CASE saved' # "full"
  BY <1>3 DEF SavedInv, SavedTranscriptComplete
<1>4. CASE saved' = "full" /\ saved = "full"
  BY <1>2, <1>4, SMTT(30) DEF SavedInv
<1>5. CASE saved' = "full" /\ saved # "full"
  <2>1. Close
    <3>1. ASSUME FinishFails PROVE saved' \in {saved, "partial"}
      BY <3>1 DEF FinishFails, SavePartial
    <3>2. ASSUME Next, ~Close, ~FinishFails PROVE UNCHANGED saved
      BY <3>2 DEF Next, Main, Worker, Start, VadFails, Collect, Drained, Idle, Leave, FlushOpen, FinishReceive,
                  FinishJoin, ProcessFrame, ApplyResult, SettleResult, Take, Deliver, Fail, Panic, Exit, main, outcome
    <3> QED
      BY <1>5, <3>1, <3>2 DEF vars, outcome
  <2>2. /\ phase = "settle" /\ phase' = "done" /\ batch = <<>> /\ ending = "clean"
        /\ UNCHANGED <<segments, accepted, completed>>
    BY <1>5, <2>1, SMTT(30) DEF Close, SavePartial
  <2>3. Channels /\ FlightInv /\ PendingInv /\ CountInv /\ LossInv
    BY DEF SessionInv, LineInv, DeliveryInv
  <2>4. Len(results) \in Nat /\ Len(jobs) \in Nat
    BY <2>3, SMTT(30) DEF Channels
  <2> DEFINE A == {u \in Utterances : accepted[u] # <<>>}
  <2>8. \A u \in Utterances : accepted[u] # <<>> => u \in FinalSegments
    BY <2>2, <2>3, <2>4, SMTT(30) DEF LossInv, Whole, Awaits, Channels, Outstanding, Owed, PendingInv
  <2>9. FinalSegments = A
    BY <2>3, <2>8 DEF FlightInv, FinalSegments
  <2>10. completed = AcceptedCount
    BY <2>3, <2>9 DEF CountInv, AcceptedCount
  <2> QED
    BY <2>2, <2>8, <2>10, SMTT(30) DEF SavedInv, SavedTranscriptComplete, AcceptedCount, FinalSegments
<1> QED
  BY <1>3, <1>4, <1>5

-----------------------------------------------------------------------------
(* Counting                                                                 *)

INSTANCE FiniteSetTheorems

\* While the session runs, at most one partial of an utterance is out and in_flight
\* says so; nothing of an utterance is queued behind its final (queue_next_partial,
\* invalidate_partials_for_final).
THEOREM OnePartialInFlight == Spec => []OneInFlight
<1>1. ASSUME SessionInv, FlyInv PROVE OneInFlight
  <2> SUFFICES ASSUME phase \in {"collect", "apply", "loop"} /\ worker = "alive", NEW u \in Utterances
               PROVE  /\ ~flights[u].finalized =>
                           Cardinality({i \in DOMAIN Outstanding : Outstanding[i].u = u /\ ~Outstanding[i].final}) =
                             (IF flights[u].inFlight THEN 1 ELSE 0)
                      /\ \A i, j \in DOMAIN Outstanding :
                           Outstanding[i].u = u /\ Outstanding[i].final /\ Outstanding[j].u = u => j <= i
    BY DEF OneInFlight
  <2> DEFINE P == {i \in DOMAIN Outstanding : Outstanding[i].u = u /\ ~Outstanding[i].final}
  <2>1. /\ ~flights[u].finalized => IF flights[u].inFlight THEN \E i : P = {i} ELSE P = {}
        /\ \A i, j \in DOMAIN Outstanding :
             Outstanding[i].u = u /\ Outstanding[i].final /\ Outstanding[j].u = u => j <= i
    BY <1>1, OneTracked
  <2> HIDE DEF P
  <2>2. ~flights[u].finalized => Cardinality(P) = IF flights[u].inFlight THEN 1 ELSE 0
    BY <2>1, FS_EmptySet, FS_Singleton
  <2> QED
    BY <2>1, <2>2 DEF P
<1> QED
  BY <1>1, SessionInvariance, FlyInvariance, PTL

\* There are finitely many utterances.
LEMMA FiniteFinals == IsFiniteSet(Utterances) /\ IsFiniteSet(FinalSegments)
<1>2. IsFiniteSet(Utterances)
  BY FS_Interval, Positive, SMTT(30) DEF Utterances
<1> QED
  BY <1>2, FS_Subset DEF FinalSegments

\* completed_utterances counts each final once.
LEMMA CountStep == ASSUME SessionInv, CountInv, [Next]_vars PROVE CountInv'
BY FinalsCounted, FiniteFinals, FS_AddElement DEF CountInv

\* The counts hold in every state of the session.
LEMMA DeliveryInvariance == Spec => []DeliveryInv
<1>1. Init => DeliveryInv
  <2> SUFFICES ASSUME Init PROVE DeliveryInv
    OBVIOUS
  <2>1. FinalSegments = {} /\ completed = 0
    BY DEF Init, FinalSegments
  <2>2. CountInv
    BY <2>1, FS_EmptySet DEF CountInv
  <2>3. PendingInv /\ LossInv
    BY SMTT(30) DEF Init, PendingInv, Owed, LossInv
  <2> QED
    BY <2>2, <2>3 DEF DeliveryInv
<1>2. SessionInv /\ DeliveryInv /\ [Next]_vars => DeliveryInv'
  BY PendingStep, CountStep, LossStep DEF DeliveryInv
<1> QED
  BY <1>1, <1>2, SessionInvariance, PTL DEF Spec

\* A transcript saved in full has the final of every utterance accepted, each
\* counted once (shutdown, persist_history_if_requested).
THEOREM SavedTranscriptIsComplete == Spec => []SavedTranscriptComplete
<1>1. Init => SavedInv
  BY DEF Init, SavedInv, SavedTranscriptComplete
<1>2. SessionInv /\ DeliveryInv /\ SavedInv /\ [Next]_vars => SavedInv'
  BY SaveStep
<1>3. SavedInv => SavedTranscriptComplete
  BY DEF SavedInv
<1> QED
  BY <1>1, <1>2, <1>3, SessionInvariance, DeliveryInvariance, PTL DEF Spec

=============================================================================
