-------------------------- MODULE LiveStepProofs --------------------------
(***************************************************************************)
(* What one frame, one job on its way and one result do in LivePipeline:   *)
(* the lemmas about its operators and about the actions of the session,    *)
(* for every VAD configuration and every capacity of the channel.          *)
(***************************************************************************)
EXTENDS LivePipeline, TLAPS

\* Most leaves are first-order and left to Zenon; those with arithmetic cite SMT.
USE Zenon

\* The states of the VAD (VadState and its counters).
VadStates ==
  [state : {"WaitingForSpeech", "InSpeech", "Closed"}, next : Nat \ {0}, speech : Nat, silence : Nat,
   candidate : Nat \cup {None}, id : Nat \cup {None}, start : Nat \cup {None}, waiting : Nat \cup {None},
   once : BOOLEAN, timedOut : BOOLEAN]

-----------------------------------------------------------------------------
(* Numbers                                                                  *)

\* The constants that the VAD and the buffer compute with are numbers.
LEMMA Positive ==
  /\ FrameMs \in Nat \ {0} /\ SpeechStartMs \in Nat \ {0} /\ MaxUtteranceMs \in Nat
  /\ {PreRollMs, SlackMs} \subseteq Nat /\ Horizon \in Nat
BY VadConfigValid, LiveAssumption

\* How many times s fits in h.
LEMMA Divides ==
  ASSUME NEW k \in Nat, NEW s \in Nat \ {0}, NEW h \in Nat, k * s <= h
  PROVE  k <= h \div s
BY SMTT(30)

\* Longer runs of frames last longer.
LEMMA Monotone ==
  ASSUME NEW k \in Nat, NEW n \in Nat, k <= n, NEW s \in Nat
  PROVE  k * s <= n * s /\ k * s \in Nat /\ n * s \in Nat
BY SMTT(30)

-----------------------------------------------------------------------------
(* The VAD                                                                  *)

\* A frame opens an utterance at the candidate, ...
Opens(v, t, r) ==
  /\ v.state = "WaitingForSpeech" /\ v.speech + FrameMs >= SpeechStartMs
  /\ r.vad.state = "InSpeech" /\ r.vad.next = v.next + 1 /\ r.vad.id = v.next
  /\ r.vad.start = (IF v.speech = 0 THEN t ELSE v.candidate)
  /\ r.events = <<Boundary("SpeechStarted", v.next, None)>>

\* ... is waited through, ...
WaitsOn(v, t, r) ==
  /\ v.state = "WaitingForSpeech"
  /\ r.vad.state = "WaitingForSpeech" /\ r.vad.next = v.next
  /\ \/ r.vad.speech = 0
     \/ /\ r.vad.speech = v.speech + FrameMs /\ v.speech + FrameMs < SpeechStartMs
        /\ r.vad.candidate = (IF v.speech = 0 THEN t ELSE v.candidate)
  /\ r.events = <<>> \/ r.events = <<Boundary("NoSpeechTimeout", None, t + FrameMs)>>

\* ... closes the utterance, ...
Closes(v, t, r) ==
  /\ v.state = "InSpeech"
  /\ r.vad.state = "WaitingForSpeech" /\ r.vad.next = v.next /\ r.vad.speech = 0
  /\ \E type \in {"SpeechStopped", "MaxUtterance"} : r.events = <<Boundary(type, v.id, t + FrameMs)>>

\* ... or belongs to it.
SpeaksOn(v, t, r) ==
  /\ v.state = "InSpeech"
  /\ ~(t + FrameMs - v.start >= MaxUtteranceMs)
  /\ r.vad.state = "InSpeech" /\ r.vad.next = v.next /\ r.vad.id = v.id /\ r.vad.start = v.start
  /\ r.events = <<>>

Counted(w, c, n) == [w EXCEPT !.candidate = c, !.speech = n, !.silence = 0]

Opened(w, n, id, c) ==
  [w EXCEPT !.state = "InSpeech", !.next = n, !.id = id, !.start = c, !.once = TRUE, !.timedOut = FALSE]

\* Speech is counted while it is not long enough.
LEMMA SpeechCounted ==
  ASSUME NEW w \in VadStates, NEW c \in Nat \cup {None}, NEW n \in Nat
  PROVE  LET run == Counted(w, c, n) IN
         /\ run \in VadStates
         /\ run.state = w.state /\ run.next = w.next /\ run.speech = n /\ run.candidate = c
BY DEF VadStates, Counted

\* An utterance is opened.
LEMMA SpeechOpened ==
  ASSUME NEW w \in VadStates, NEW n \in Nat \ {0}, NEW id \in Nat, NEW c \in Nat \cup {None}
  PROVE  LET open == Opened(w, n, id, c) IN
         /\ open \in VadStates
         /\ open.state = "InSpeech" /\ open.next = n /\ open.id = id /\ open.start = c
BY DEF VadStates, Opened

\* process_decision_with_speech makes one of four moves.
LEMMA VadMoves ==
  ASSUME NEW v \in VadStates, NEW t \in Nat, NEW speech \in BOOLEAN, v.state # "Closed"
  PROVE  LET r == ProcessDecision(v, t, speech)
         IN /\ r.vad \in VadStates
            /\ Opens(v, t, r) \/ WaitsOn(v, t, r) \/ Closes(v, t, r) \/ SpeaksOn(v, t, r)
<1> DEFINE r == ProcessDecision(v, t, speech)
<1>0. FrameMs \in Nat /\ SpeechStartMs \in Nat
  BY VadConfigValid
<1>1. CASE v.state = "WaitingForSpeech"
  <2> DEFINE w == [v EXCEPT !.waiting = IF @ = None THEN t ELSE @]
  <2>1. r = IF speech THEN ConsumeWaitingSpeech(w, t) ELSE WaitOn(w, t)
    BY <1>1 DEF ProcessDecision, ProcessWaiting
  <2>2. /\ w \in VadStates /\ w.state = "WaitingForSpeech" /\ w.speech = v.speech /\ w.next = v.next
        /\ w.candidate = v.candidate
    BY <1>1 DEF VadStates
  <2> HIDE DEF w, r
  <2>3. CASE speech
    <3> DEFINE run == [w EXCEPT !.candidate = IF w.speech = 0 THEN t ELSE @,
                                !.speech = @ + FrameMs, !.silence = 0]
    <3>1. /\ run \in VadStates /\ run.state = "WaitingForSpeech" /\ run.next = v.next
          /\ run.speech = v.speech + FrameMs /\ run.candidate = IF v.speech = 0 THEN t ELSE v.candidate
      <4> DEFINE c == IF w.speech = 0 THEN t ELSE w.candidate
                 n == w.speech + FrameMs
      <4>1. c \in Nat \cup {None} /\ n \in Nat
        BY <1>0, <2>2, SMTT(30) DEF VadStates
      <4>2. run = Counted(w, c, n)
        BY DEF Counted
      <4> HIDE DEF c, n, run
      <4>3. /\ run \in VadStates /\ run.state = w.state /\ run.next = w.next
            /\ run.speech = n /\ run.candidate = c
        BY <2>2, <4>1, <4>2, SpeechCounted, SMTT(30)
      <4> QED
        BY <2>2, <4>3 DEF c, n
    <3>2. r = IF run.speech < SpeechStartMs THEN Outcome(run, <<>>)
              ELSE Outcome([run EXCEPT !.state = "InSpeech", !.next = @ + 1, !.id = w.next,
                                       !.start = run.candidate, !.once = TRUE, !.timedOut = FALSE],
                           <<Boundary("SpeechStarted", w.next, None)>>)
      BY <2>1, <2>3 DEF ConsumeWaitingSpeech
    <3> HIDE DEF run
    <3>3. CASE run.speech < SpeechStartMs
      BY <1>1, <3>1, <3>2, <3>3, SMTT(30) DEF Outcome, WaitsOn, r
    <3>4. CASE ~(run.speech < SpeechStartMs)
      <4>1. /\ r.vad = [run EXCEPT !.state = "InSpeech", !.next = @ + 1, !.id = w.next,
                                   !.start = run.candidate, !.once = TRUE, !.timedOut = FALSE]
            /\ r.events = <<Boundary("SpeechStarted", v.next, None)>>
        BY <2>2, <3>2, <3>4 DEF Outcome
      <4>2. /\ r.vad \in VadStates /\ r.vad.state = "InSpeech" /\ r.vad.next = v.next + 1 /\ r.vad.id = v.next
            /\ r.vad.start = run.candidate
        <5> DEFINE n == run.next + 1  i == w.next  c == run.candidate
        <5>1. n \in Nat \ {0} /\ i \in Nat /\ c \in Nat \cup {None} /\ run \in VadStates
          BY <2>2, <3>1, SMTT(30) DEF VadStates
        <5>2. r.vad = Opened(run, n, i, c)
          BY <4>1 DEF Opened
        <5> HIDE DEF n, i, c
        <5>3. /\ r.vad \in VadStates /\ r.vad.state = "InSpeech" /\ r.vad.next = n /\ r.vad.id = i
              /\ r.vad.start = c
          BY <5>1, <5>2, SpeechOpened, SMTT(30)
        <5> QED
          BY <2>2, <3>1, <5>3 DEF n, i, c
      <4> QED
        BY <1>0, <1>1, <3>1, <3>4, <4>1, <4>2, SMTT(30) DEF Opens, r, VadStates
    <3> QED
      BY <3>3, <3>4
  <2>4. CASE ~speech
    <3>1. r.vad \in VadStates /\ WaitsOn(v, t, r)
      BY <1>0, <1>1, <2>1, <2>2, <2>4 DEF WaitOn, Outcome, VadStates, WaitsOn
    <3> QED
      BY <3>1 DEF r
  <2> QED
    BY <2>3, <2>4
<1>2. CASE v.state = "InSpeech"
  <2> DEFINE heard == [v EXCEPT !.silence = IF speech THEN 0 ELSE @ + FrameMs]
  <2>1. r = IF ~speech /\ heard.silence >= SpeechStopMs
              THEN Outcome(ClearAfterBoundary(heard), <<Boundary("SpeechStopped", v.id, t + FrameMs)>>)
            ELSE IF t + FrameMs - v.start >= MaxUtteranceMs
              THEN Outcome(ClearAfterBoundary(heard), <<Boundary("MaxUtterance", v.id, t + FrameMs)>>)
            ELSE Outcome(heard, <<>>)
    BY <1>2 DEF ProcessDecision, ProcessInSpeech
  <2>2. /\ heard \in VadStates /\ heard.state = "InSpeech" /\ heard.next = v.next /\ heard.id = v.id
        /\ heard.start = v.start
    BY <1>0, <1>2, SMTT(30) DEF VadStates
  <2>3. /\ ClearAfterBoundary(heard) \in VadStates
        /\ ClearAfterBoundary(heard).state = "WaitingForSpeech" /\ ClearAfterBoundary(heard).next = v.next
        /\ ClearAfterBoundary(heard).speech = 0
    <3> HIDE DEF heard
    <3> QED
      BY <2>2 DEF VadStates, ClearAfterBoundary
  <2> HIDE DEF heard, r
  <2> QED
    BY <1>2, <2>1, <2>2, <2>3, SMTT(30) DEF r, Outcome, Closes, SpeaksOn
<1> QED
  BY <1>1, <1>2 DEF VadStates

-----------------------------------------------------------------------------
(* The buffer                                                               *)

\* ActiveUtterance and PcmUtteranceBuffer.
OpenUtterances == [frames : Seq(Nat), id : Nat]

Buffers == [active : OpenUtterances \cup {None}, overflow : BOOLEAN, preRoll : Seq(Nat)]

\* The frames that last PreRollMs, the last one not in full.
PreRollFrames == IF PreRollMs = 0 THEN 0 ELSE (PreRollMs - 1) \div FrameMs + 1

\* A multiple is below a bound as long as the factor is at most the quotient.
LEMMA Quotient ==
  ASSUME NEW f \in Nat \ {0}, NEW p \in Nat \ {0}, NEW k \in Nat
  PROVE  (p - 1) \div f \in Nat /\ (k * f < p <=> k <= (p - 1) \div f)
BY SMTT(30)

\* trim_pre_roll keeps the last PreRollFrames frames, or all there are.
LEMMA Trimmed ==
  ASSUME NEW frames \in Seq(Nat), frames # <<>>, PreRollMs # 0
  PROVE  LET n == IF Len(frames) <= PreRollFrames THEN Len(frames) ELSE PreRollFrames
             trimmed == Buffer!TrimPreRoll(frames)
         IN /\ trimmed \in Seq(Nat) /\ Len(trimmed) = n /\ n \in 1 .. Len(frames)
            /\ \A i \in 1 .. n : trimmed[i] = frames[Len(frames) - n + i]
<1>1. FrameMs \in Nat \ {0} /\ PreRollMs \in Nat \ {0}
  BY VadConfigValid, LiveAssumption
<1> DEFINE l == Len(frames)
           q == PreRollFrames
           n == IF l <= q THEN l ELSE q
           kept == {k \in 1 .. l : (k - 1) * FrameMs < PreRollMs}
           most == CHOOSE k \in kept : \A j \in kept : j <= k
<1>2. l \in Nat \ {0} /\ q \in Nat \ {0}
  BY <1>1, Quotient, SMTT(30) DEF PreRollFrames
<1>3. ASSUME NEW k \in 1 .. l PROVE k \in kept <=> k <= q
  BY <1>1, <1>3, Quotient, SMTT(30) DEF PreRollFrames
<1>4. kept \subseteq 1 .. l
  OBVIOUS
<1>5. Buffer!TrimPreRoll(frames) = SubSeq(frames, l - most + 1, l)
  BY DEF Buffer!TrimPreRoll
<1> HIDE DEF kept, l, q
<1>6. n \in 1 .. l /\ n \in kept /\ \A k \in kept : k <= n
  BY <1>2, <1>3, <1>4, SMTT(30)
<1>7. most \in kept /\ \A k \in kept : k <= most
  BY <1>6
<1>8. most = n
  <2> HIDE DEF n, most
  <2> QED
    BY <1>2, <1>4, <1>6, <1>7, SMTT(30)
<1> DEFINE m == l - n + 1
           trimmed == Buffer!TrimPreRoll(frames)
<1>9. /\ trimmed = SubSeq(frames, m, l) /\ m \in 1 .. l
      /\ \A i \in m .. l : frames[i] \in Nat
  <2>1. m \in 1 .. l
    BY <1>2, <1>6, SMTT(30)
  <2>3. trimmed = SubSeq(frames, m, l)
    <3> HIDE DEF n, most
    <3> QED
      BY <1>5, <1>8
  <2> HIDE DEF m
  <2> QED
    BY <1>2, <2>1, <2>3, SMTT(30) DEF l
<1>10. n = l - m + 1
  BY <1>2, <1>6, SMTT(30)
<1> HIDE DEF n, m
<1>11. /\ trimmed \in Seq(Nat) /\ Len(trimmed) = l - m + 1
       /\ \A i \in 1 .. l - m + 1 : trimmed[i] = frames[m + i - 1]
  BY <1>2, <1>9, SMTT(30)
<1>12. \A i \in 1 .. n : m + i - 1 = l - n + i
  BY <1>2, <1>6, <1>9, <1>10, SMTT(30)
<1> QED
  BY <1>6, <1>10, <1>11, <1>12 DEF l, q, n

\* A frame may overflow the buffer, ...
Overflows(b, p) ==
  /\ ~p.ok /\ p.completed = <<>>
  /\ p.buffer.active = b.active /\ p.buffer.preRoll = b.preRoll /\ p.buffer.overflow

\* ... go to the pre-roll, ...
Waits(b, t, p) ==
  /\ b.active = None /\ p.ok /\ p.completed = <<>>
  /\ p.buffer.active = None /\ p.buffer.overflow = b.overflow
  /\ p.buffer.preRoll = IF PreRollMs = 0 THEN <<>> ELSE Buffer!TrimPreRoll(Append(b.preRoll, t))

\* ... open an utterance, ...
Starts(b, t, id, p) ==
  /\ b.active = None /\ p.ok /\ p.completed = <<>>
  /\ p.buffer.active = Buffer!Active(id, Append(b.preRoll, t))
  /\ p.buffer.preRoll = <<>> /\ p.buffer.overflow = b.overflow

\* ... extend the open one, ...
Extends(b, t, p) ==
  /\ b.active # None /\ p.ok /\ p.completed = <<>>
  /\ p.buffer.active = Buffer!Active(b.active.id, Append(b.active.frames, t))
  /\ p.buffer.preRoll = b.preRoll /\ p.buffer.overflow = b.overflow

\* ... or complete it.
Completes(b, t, p) ==
  /\ b.active # None /\ p.ok
  /\ p.completed = <<Buffer!Active(b.active.id, Append(b.active.frames, t))>>
  /\ p.buffer.active = None /\ p.buffer.preRoll = b.preRoll /\ p.buffer.overflow = b.overflow

\* None is no job, no open utterance and no segment.
LEMMA NoneIsNone == None \notin Jobs /\ None \notin OpenUtterances /\ None \notin [finalized : BOOLEAN, revision : Nat]
BY NoneAssumption DEF OpenUtterances

\* push_pre_roll: nothing of this frame concerns an utterance.
LEMMA PushWaits ==
  ASSUME NEW b \in Buffers, NEW t \in Nat, b.active = None,
         NEW events, NEW e,
         events = <<>> \/ (events = <<e>> /\ e.type = "NoSpeechTimeout")
  PROVE  LET p == Buffer!PushFrame(b, t, events)
             frames == IF PreRollMs = 0 THEN <<>> ELSE Buffer!TrimPreRoll(Append(b.preRoll, t))
         IN /\ p.buffer \in Buffers
            /\ IF Buffer!Fits(Len(frames)) THEN Waits(b, t, p) ELSE Overflows(b, p)
<1> DEFINE p == Buffer!PushFrame(b, t, events)
           q == Buffer!PushPreRoll(b, t)
           frames == IF PreRollMs = 0 THEN <<>> ELSE Buffer!TrimPreRoll(Append(b.preRoll, t))
<1>1. frames \in Seq(Nat)
  <2>1. Append(b.preRoll, t) \in Seq(Nat) /\ Append(b.preRoll, t) # <<>>
    BY SMTT(30) DEF Buffers
  <2> DEFINE s == Append(b.preRoll, t)
  <2> HIDE DEF s
  <2>2. CASE PreRollMs # 0
    <3>1. Buffer!TrimPreRoll(s) \in Seq(Nat)
      BY <2>1, <2>2, Trimmed DEF s
    <3> QED
      BY <2>2, <3>1 DEF s
  <2> QED
    BY <2>2, SMTT(30)
<1>2. q = IF Buffer!Fits(Len(frames)) THEN Buffer!Pushed([b EXCEPT !.preRoll = frames], TRUE, <<>>)
          ELSE Buffer!Pushed([b EXCEPT !.overflow = TRUE], FALSE, <<>>)
  BY DEF Buffer!PushPreRoll
<1>3. Buffer!Ingest(b, t, events) = q
  BY SMTT(30) DEF Buffer!Ingest
<1> HIDE DEF frames, q
<1>4. /\ q.buffer \in Buffers
      /\ IF Buffer!Fits(Len(frames)) THEN Waits(b, t, q) ELSE Overflows(b, q)
  BY <1>1, <1>2 DEF Waits, Overflows, Buffer!Pushed, Buffers, frames
<1> QED
  BY <1>3, <1>4 DEF frames, Buffer!PushFrame, Waits, Overflows

\* start_active_from_pre_roll.
LEMMA PushStarts ==
  ASSUME NEW b \in Buffers, NEW t \in Nat, b.active = None,
         NEW events, NEW e, NEW id \in Nat, events = <<e>>, e.type = "SpeechStarted", e.id = id
  PROVE  LET p == Buffer!PushFrame(b, t, events)
         IN /\ p.buffer \in Buffers
            /\ IF Buffer!Fits(Len(b.preRoll) + 1) THEN Starts(b, t, id, p) ELSE Overflows(b, p)
<1> DEFINE p == Buffer!PushFrame(b, t, events)
           q == Buffer!StartActive(b, t, id)
           frames == Append(b.preRoll, t)
<1>1. frames \in Seq(Nat) /\ Len(frames) = Len(b.preRoll) + 1
  BY SMTT(30) DEF Buffers
<1>2. q = IF Buffer!Fits(Len(frames))
          THEN Buffer!Pushed([b EXCEPT !.preRoll = <<>>, !.active = Buffer!Active(id, frames)], TRUE, <<>>)
          ELSE Buffer!Pushed([b EXCEPT !.overflow = TRUE], FALSE, <<>>)
  BY DEF Buffer!StartActive
<1>3. Buffer!Ingest(b, t, events) = q
  BY SMTT(30) DEF Buffer!Ingest
<1> HIDE DEF frames, q
<1>4. /\ q.buffer \in Buffers
      /\ IF Buffer!Fits(Len(frames)) THEN Starts(b, t, id, q) ELSE Overflows(b, q)
  <2> DEFINE open == Buffer!Active(id, frames)
  <2>0. open \in OpenUtterances
    BY <1>1 DEF OpenUtterances, Buffer!Active
  <2> HIDE DEF open
  <2>2. CASE Buffer!Fits(Len(frames))
    <3>1. q.buffer = [b EXCEPT !.preRoll = <<>>, !.active = open] /\ q.ok /\ q.completed = <<>>
      BY <1>2, <2>2 DEF Buffer!Pushed, open
    <3>3. q.buffer = [active |-> open, overflow |-> b.overflow, preRoll |-> <<>>]
      BY <3>1 DEF Buffers
    <3>4. q.buffer \in Buffers
      BY <2>0, <3>3, SMTT(30) DEF Buffers
    <3> QED
      BY <2>2, <3>1, <3>4 DEF Starts, open, frames, Buffers
  <2>3. CASE ~Buffer!Fits(Len(frames))
    BY <1>2, <2>3 DEF Overflows, Buffer!Pushed, Buffers
  <2> QED
    BY <2>2, <2>3
<1> QED
  BY <1>1, <1>3, <1>4, SMTT(30) DEF Buffer!PushFrame

\* push_active; a boundary of the open utterance finishes it.
LEMMA PushSpeaks ==
  ASSUME NEW b \in Buffers, NEW t \in Nat, b.active # None,
         NEW events, NEW e,
         events = <<>> \/ (events = <<e>> /\ e.type \in {"SpeechStopped", "MaxUtterance"} /\ e.id = b.active.id)
  PROVE  LET p == Buffer!PushFrame(b, t, events)
         IN /\ p.buffer \in Buffers
            /\ IF ~Buffer!Fits(Len(b.active.frames) + 1) THEN Overflows(b, p)
               ELSE IF events = <<>> THEN Extends(b, t, p) ELSE Completes(b, t, p)
<1> DEFINE p == Buffer!PushFrame(b, t, events)
           q == Buffer!PushActive(b, t)
           frames == Append(b.active.frames, t)
           open == Buffer!Active(b.active.id, frames)
<1>0. b.active \in OpenUtterances
  BY DEF Buffers
<1>1. /\ frames \in Seq(Nat) /\ Len(frames) = Len(b.active.frames) + 1
      /\ [b.active EXCEPT !.frames = frames] = open /\ open \in OpenUtterances
      /\ open # None /\ open.id = b.active.id
  <2>1. b.active.frames \in Seq(Nat) /\ b.active.id \in Nat
    BY <1>0 DEF OpenUtterances
  <2>2. frames \in Seq(Nat) /\ Len(frames) = Len(b.active.frames) + 1
    BY <2>1, SMTT(30)
  <2> HIDE DEF frames
  <2>4. open \in OpenUtterances /\ open.id = b.active.id
    BY <2>1, <2>2 DEF OpenUtterances, Buffer!Active
  <2> QED
    BY <1>0, <2>2, <2>4, NoneIsNone, SMTT(30) DEF OpenUtterances, Buffer!Active
<1>2. q = IF Buffer!Fits(Len(frames)) THEN Buffer!Pushed([b EXCEPT !.active = open], TRUE, <<>>)
          ELSE Buffer!Pushed([b EXCEPT !.overflow = TRUE], FALSE, <<>>)
  <2>1. [b EXCEPT !.active.frames = frames] = [b EXCEPT !.active = [b.active EXCEPT !.frames = frames]]
    OBVIOUS
  <2> QED
    BY <1>1, <2>1 DEF Buffer!PushActive
<1>3. Buffer!Ingest(b, t, events) = q
  BY DEF Buffer!Ingest
<1> HIDE DEF frames, q, open
<1>4. /\ q.buffer \in Buffers
      /\ IF Buffer!Fits(Len(frames))
         THEN /\ q.ok /\ q.completed = <<>> /\ q.buffer.active = open
              /\ q.buffer.preRoll = b.preRoll /\ q.buffer.overflow = b.overflow
         ELSE Overflows(b, q)
  BY <1>1, <1>2 DEF Overflows, Buffer!Pushed, Buffers
<1>5. CASE ~Buffer!Fits(Len(frames))
  BY <1>1, <1>3, <1>4, <1>5 DEF Buffer!PushFrame, Overflows
<1>6. CASE Buffer!Fits(Len(frames)) /\ events = <<>>
  BY <1>1, <1>3, <1>4, <1>6, SMTT(30) DEF Buffer!PushFrame, Extends, open, frames
<1>7. CASE Buffer!Fits(Len(frames)) /\ events # <<>>
  <2>2. /\ p.ok /\ p.completed = <<open>> /\ p.buffer = [q.buffer EXCEPT !.active = None]
    BY <1>1, <1>3, <1>4, <1>7, SMTT(30) DEF Buffer!Finish, Buffer!Pushed, Buffer!PushFrame
  <2>3. p.buffer \in Buffers /\ p.buffer.active = None /\ p.buffer.preRoll = b.preRoll
        /\ p.buffer.overflow = b.overflow
    BY <1>4, <1>7, <2>2 DEF Buffers
  <2> QED
    BY <1>1, <1>7, <2>2, <2>3 DEF Completes, open, frames
<1> QED
  BY <1>5, <1>6, <1>7

-----------------------------------------------------------------------------
(* The frames                                                               *)

Flowing == phase \in {"new", "collect", "apply", "loop"}

\* Every utterance took SpeechStartMs of audio to open.
InTime(v, t) ==
  /\ t <= Horizon
  /\ (v.next - 1) * SpeechStartMs + (IF v.state = "WaitingForSpeech" THEN v.speech ELSE 0) <= t

VadInv == vad \in VadStates /\ now \in Nat /\ InTime(vad, now)

\* The buffer has the utterance open that the VAD has; the accepted ones came
\* before it.
BufferInv ==
  /\ phase \in {"new", "collect", "apply", "loop", "shutdown", "finishing", "settle", "done"}
  /\ buffer \in Buffers
  /\ Flowing => /\ vad.state # "Closed" /\ (vad.state = "InSpeech" <=> buffer.active # None)
                /\ buffer.active # None => vad.id = buffer.active.id
  /\ buffer.active # None => buffer.active.frames # <<>> /\ buffer.active.id \in 1 .. vad.next - 1
  /\ accepted \in [Utterances -> Seq(Nat)]
  /\ \A u \in Utterances : accepted[u] # <<>> => u < vad.next /\ (buffer.active # None => u < buffer.active.id)

Untouched == UNCHANGED <<flights, accepted, channel>>

\* What does not fit, when a frame overflows the buffer.
Overfull(r) ==
  \/ /\ WaitsOn(vad, now, r) /\ buffer.active = None
     /\ LET frames == IF PreRollMs = 0 THEN <<>> ELSE Buffer!TrimPreRoll(Append(buffer.preRoll, now))
        IN ~Buffer!Fits(Len(frames))
  \/ Opens(vad, now, r) /\ buffer.active = None /\ ~Buffer!Fits(Len(buffer.preRoll) + 1)
  \/ /\ SpeaksOn(vad, now, r) \/ Closes(vad, now, r)
     /\ buffer.active # None /\ ~Buffer!Fits(Len(buffer.active.frames) + 1)

\* The moves of the VAD and the buffer at a frame go together.
FrameMove(r, p) ==
  /\ vad' = r.vad /\ vad' \in VadStates /\ buffer' = p.buffer /\ buffer' \in Buffers
  /\ now' = now + FrameMs /\ now' <= Horizon
  /\ \/ Overfull(r) /\ Overflows(buffer, p) /\ Abort /\ Untouched
     \/ WaitsOn(vad, now, r) /\ Waits(buffer, now, p) /\ GoOn("collect") /\ Untouched
     \/ /\ Opens(vad, now, r) /\ Starts(buffer, now, vad.next, p)
        /\ MaybeQueuePartial(vad.next, now', "collect") /\ UNCHANGED accepted
     \/ /\ SpeaksOn(vad, now, r) /\ Extends(buffer, now, p)
        /\ MaybeQueuePartial(buffer.active.id, now', "collect") /\ UNCHANGED accepted
     \/ /\ Closes(vad, now, r) /\ Completes(buffer, now, p)
        /\ QueueUtterance(Buffer!Active(buffer.active.id, Append(buffer.active.frames, now)), now', "collect", Abort)

\* process_frame: the VAD moves, the buffer with it, and nothing else does before
\* the utterance, or the snapshot, is queued.
LEMMA FrameMoves ==
  ASSUME VadInv, BufferInv, NEW speech \in BOOLEAN, ProcessFrame(speech)
  PROVE  /\ phase = "loop"
         /\ \E r, p : FrameMove(r, p)
<1> DEFINE r == ProcessDecision(vad, now, speech)
           p == Buffer!PushFrame(buffer, now, r.events)
<1>1. /\ vad' = r.vad /\ buffer' = p.buffer /\ now' = now + FrameMs /\ now' <= Horizon /\ phase = "loop"
      /\ IF ~p.ok THEN Abort /\ UNCHANGED <<flights, accepted, channel>>
         ELSE IF p.completed # <<>>
         THEN QueueUtterance(Head(p.completed), now', "collect", Abort)
         ELSE /\ UNCHANGED accepted
              /\ IF p.buffer.active = None
                 THEN GoOn("collect") /\ UNCHANGED <<flights, channel>>
                 ELSE MaybeQueuePartial(p.buffer.active.id, now', "collect")
  BY DEF ProcessFrame
<1>2. vad \in VadStates /\ now \in Nat /\ buffer \in Buffers /\ vad.state # "Closed"
      /\ (vad.state = "InSpeech" <=> buffer.active # None) /\ (buffer.active # None => vad.id = buffer.active.id)
  BY <1>1 DEF VadInv, BufferInv, Flowing
<1>3. r.vad \in VadStates /\ (Opens(vad, now, r) \/ WaitsOn(vad, now, r) \/ Closes(vad, now, r) \/ SpeaksOn(vad, now, r))
  BY <1>2, VadMoves
<1> DEFINE events == r.events
<1>p. p = Buffer!PushFrame(buffer, now, events)
  OBVIOUS
<1>e. events = r.events
  OBVIOUS
<1> HIDE DEF r, p, events
<1> SUFFICES FrameMove(r, p)
  BY <1>1
<1>4. CASE WaitsOn(vad, now, r)
  <2> DEFINE e == Boundary("NoSpeechTimeout", None, now + FrameMs)
  <2>1. buffer.active = None /\ (events = <<>> \/ (events = <<e>> /\ e.type = "NoSpeechTimeout"))
    BY <1>2, <1>4, <1>e DEF WaitsOn, Boundary
  <2> HIDE DEF e
  <2> QED
    BY <1>p, <1>1, <1>2, <1>3, <1>4, <2>1, PushWaits, SMTT(30) DEF FrameMove, Waits, Overflows, Overfull,
       Untouched
<1>5. CASE Opens(vad, now, r)
  <2> DEFINE e == Boundary("SpeechStarted", vad.next, None)
             id == vad.next
  <2>1. buffer.active = None /\ events = <<e>> /\ e.type = "SpeechStarted" /\ e.id = id /\ id \in Nat
    BY <1>2, <1>5, <1>e DEF Opens, Boundary, VadStates
  <2> HIDE DEF e, id
  <2>2. /\ p.buffer \in Buffers
        /\ IF Buffer!Fits(Len(buffer.preRoll) + 1) THEN Starts(buffer, now, id, p) ELSE Overflows(buffer, p)
    BY <1>2, <1>p, <2>1, PushStarts
  <2>3. CASE Overflows(buffer, p) /\ ~Buffer!Fits(Len(buffer.preRoll) + 1)
    BY <1>1, <1>3, <1>5, <2>1, <2>2, <2>3 DEF FrameMove, Overflows, Overfull, Untouched
  <2>4. CASE Starts(buffer, now, id, p)
    <3>1. p.ok /\ p.completed = <<>> /\ p.buffer.active = Buffer!Active(id, Append(buffer.preRoll, now))
      BY <2>4 DEF Starts
    <3>2. p.buffer.active # None /\ p.buffer.active.id = id
      <4>2. p.buffer.active \in OpenUtterances
        BY <1>2, <2>1, <3>1, SMTT(30) DEF OpenUtterances, Buffer!Active, Buffers
      <4> QED
        BY <3>1, <4>2, NoneIsNone, SMTT(30) DEF Buffer!Active
    <3> QED
      BY <1>1, <1>3, <1>5, <2>2, <2>4, <3>1, <3>2 DEF FrameMove, id
  <2> QED
    BY <2>2, <2>3, <2>4
<1>6. CASE SpeaksOn(vad, now, r) \/ Closes(vad, now, r)
  <2>1. /\ buffer.active # None
        /\ \/ SpeaksOn(vad, now, r) /\ events = <<>>
           \/ /\ Closes(vad, now, r) /\ events # <<>>
              /\ \E e : events = <<e>> /\ e.type \in {"SpeechStopped", "MaxUtterance"} /\ e.id = buffer.active.id
    <3>1. CASE SpeaksOn(vad, now, r)
      BY <1>2, <1>e, <3>1 DEF SpeaksOn
    <3>2. CASE Closes(vad, now, r)
      BY <1>e, <1>2, <3>2, SMTT(30) DEF Closes, Boundary
    <3> QED
      BY <1>6, <3>1, <3>2
  <2>2. PICK e : events = <<>> \/ (events = <<e>> /\ e.type \in {"SpeechStopped", "MaxUtterance"} /\ e.id = buffer.active.id)
    BY <2>1
  <2>3. /\ p.buffer \in Buffers
        /\ IF ~Buffer!Fits(Len(buffer.active.frames) + 1) THEN Overflows(buffer, p)
           ELSE IF events = <<>> THEN Extends(buffer, now, p) ELSE Completes(buffer, now, p)
    BY <1>2, <1>p, <2>1, <2>2, PushSpeaks
  <2>4. CASE Overflows(buffer, p) /\ ~Buffer!Fits(Len(buffer.active.frames) + 1)
    BY <1>1, <1>3, <1>6, <2>1, <2>3, <2>4 DEF FrameMove, Overflows, Overfull, Untouched
  <2> DEFINE open == Buffer!Active(buffer.active.id, Append(buffer.active.frames, now))
  <2>5. open # None /\ open.id = buffer.active.id
    <3>2. open \in OpenUtterances
      BY <1>2, <2>1, SMTT(30) DEF OpenUtterances, Buffer!Active, Buffers
    <3> QED
      BY <3>2, NoneIsNone DEF Buffer!Active
  <2>6. CASE SpeaksOn(vad, now, r) /\ Extends(buffer, now, p)
    BY <1>1, <1>3, <2>3, <2>5, <2>6 DEF FrameMove, Extends
  <2>7. CASE Closes(vad, now, r) /\ Completes(buffer, now, p)
    BY <1>1, <1>3, <2>3, <2>7, SMTT(30) DEF FrameMove, Completes
  <2> QED
    BY <2>1, <2>3, <2>4, <2>6, <2>7
<1> QED
  BY <1>3, <1>4, <1>5, <1>6

-----------------------------------------------------------------------------
(* The line of jobs and results                                             *)

\* What is out: results taken, results delivered, the running job, the queue.
Line(b, r, x, j) == b \o r \o (IF x = None THEN <<>> ELSE <<x>>) \o j

\* Names that keep the provers from looking inside a sequence.
Cat(s, t) == s \o t

Unit(x) == <<x>>

Nonempty(s) == s # <<>>

First(s) == Head(s)

Rest(s) == Tail(s)

Slot(x) == IF x = None THEN <<>> ELSE Unit(x)

\* Lines are put together in any order, ...
LEMMA Associative ==
  \A s, t, u \in Seq(Jobs) : Cat(Cat(s, t), u) = Cat(s, Cat(t, u)) /\ Cat(s, t) \in Seq(Jobs)
BY SMTT(30) DEF Cat

\* ... with nothing between them, ...
LEMMA Neutral == <<>> \in Seq(Jobs) /\ \A s \in Seq(Jobs) : Cat(s, <<>>) = s /\ Cat(<<>>, s) = s
BY SMTT(30) DEF Cat

\* ... and keep their places.
LEMMA CatAt ==
  ASSUME NEW s \in Seq(Jobs), NEW t \in Seq(Jobs)
  PROVE  /\ Len(Cat(s, t)) = Len(s) + Len(t)
         /\ \A i \in 1 .. Len(s) : Cat(s, t)[i] = s[i]
         /\ \A i \in 1 .. Len(t) : Cat(s, t)[Len(s) + i] = t[i]
BY SMTT(30) DEF Cat

\* The next job and the ones behind it.
LEMMA HeadTail ==
  ASSUME NEW s \in Seq(Jobs), s # <<>>
  PROVE  /\ Head(s) \in Jobs /\ Unit(Head(s)) \in Seq(Jobs) /\ Tail(s) \in Seq(Jobs)
         /\ s = Cat(Unit(Head(s)), Tail(s)) /\ Len(Tail(s)) = Len(s) - 1
BY SMTT(30) DEF Cat, Unit

\* A job in front of the others is the next.
LEMMA Cons ==
  ASSUME NEW x \in Jobs, NEW s \in Seq(Jobs)
  PROVE  LET w == Cat(Unit(x), s)
         IN w \in Seq(Jobs) /\ w # <<>> /\ Head(w) = x /\ Tail(w) = s /\ Unit(x) \in Seq(Jobs)
BY SMTT(30) DEF Cat, Unit

\* The parts of the line.
LEMMA LineParts ==
  ASSUME NEW b \in Seq(Jobs), NEW r \in Seq(Jobs), NEW x \in Jobs \cup {None}, NEW j \in Seq(Jobs)
  PROVE  /\ Slot(x) \in Seq(Jobs) /\ Line(b, r, x, j) \in Seq(Jobs)
         /\ Line(b, r, x, j) = Cat(Cat(Cat(b, r), Slot(x)), j)
         /\ Line(b, r, x, j) = Cat(b, Cat(r, Cat(Slot(x), j)))
<1>1. Slot(x) \in Seq(Jobs)
  BY SMTT(30) DEF Slot, Unit
<1>2. Line(b, r, x, j) = Cat(Cat(Cat(b, r), Slot(x)), j)
  BY DEF Line, Slot, Cat, Unit
<1> QED
  BY <1>1, <1>2, Associative, SMTT(30)

\* The worker's hands are empty or hold one job.
LEMMA SlotOf == Slot(None) = <<>> /\ \A x \in Jobs : Slot(x) = Unit(x) /\ Unit(x) \in Seq(Jobs)
BY NoneIsNone, SMTT(30) DEF Slot, Unit

\* A job sent is behind the others.
LEMMA AppendIsCat ==
  ASSUME NEW s \in Seq(Jobs), NEW x \in Jobs
  PROVE  Append(s, x) = Cat(s, Unit(x)) /\ Append(s, x) \in Seq(Jobs) /\ Unit(x) \in Seq(Jobs)
BY SMTT(30) DEF Cat, Unit

\* A job changes its place and not its turn: taken by the worker, ...
LEMMA LineTake ==
  ASSUME NEW b \in Seq(Jobs), NEW r \in Seq(Jobs), NEW j \in Seq(Jobs), j # <<>>
  PROVE  Line(b, r, Head(j), Tail(j)) = Line(b, r, None, j)
<1> DEFINE k == Tail(j)
           x == Head(j)
<1>1. x \in Jobs /\ k \in Seq(Jobs) /\ j = Cat(Unit(x), k)
  BY HeadTail
<1> HIDE DEF k, x
<1>2. Line(b, r, x, k) = Cat(b, Cat(r, Cat(Unit(x), k)))
  BY <1>1, LineParts, SlotOf, SMTT(30)
<1> QED
  BY <1>1, <1>2, Neutral, LineParts, SlotOf, SMTT(30) DEF k, x

\* ... delivered, ...
LEMMA LineDeliver ==
  ASSUME NEW b \in Seq(Jobs), NEW r \in Seq(Jobs), NEW x \in Jobs, NEW j \in Seq(Jobs)
  PROVE  Line(b, Append(r, x), None, j) = Line(b, r, x, j)
<1> DEFINE s == Append(r, x)
<1>1. s = Cat(r, Unit(x)) /\ s \in Seq(Jobs) /\ Unit(x) \in Seq(Jobs)
  BY AppendIsCat
<1> HIDE DEF s
<1> QED
  BY <1>1, Neutral, LineParts, SlotOf, Associative, SMTT(30) DEF s

\* ... collected, ...
LEMMA LineCollect ==
  ASSUME NEW r \in Seq(Jobs), NEW x \in Jobs \cup {None}, NEW j \in Seq(Jobs)
  PROVE  Line(r, <<>>, x, j) = Line(<<>>, r, x, j)
<1> DEFINE e == <<>>
<1>1. e \in Seq(Jobs) /\ Cat(r, e) = r /\ Cat(e, r) = r
  BY Neutral
<1> HIDE DEF e
<1>2. Line(r, e, x, j) = Cat(Cat(Cat(r, e), Slot(x)), j)
  BY <1>1, LineParts, SMTT(30)
<1>3. Line(e, r, x, j) = Cat(Cat(Cat(e, r), Slot(x)), j)
  BY <1>1, LineParts, SMTT(30)
<1> QED
  BY <1>1, <1>2, <1>3 DEF e

\* ... or received one by one.
LEMMA LineReceive ==
  ASSUME NEW b \in Seq(Jobs), NEW r \in Seq(Jobs), r # <<>>, NEW x \in Jobs \cup {None}, NEW j \in Seq(Jobs)
  PROVE  Line(Append(b, Head(r)), Tail(r), x, j) = Line(b, r, x, j)
<1> DEFINE h == Head(r)
           t == Tail(r)
           c == Append(b, h)
<1>1. h \in Jobs /\ t \in Seq(Jobs) /\ r = Cat(Unit(h), t)
  BY HeadTail
<1> HIDE DEF h, t
<1>2. c = Cat(b, Unit(h)) /\ c \in Seq(Jobs) /\ Unit(h) \in Seq(Jobs)
  BY <1>1, AppendIsCat
<1> HIDE DEF c
<1>3. Line(c, t, x, j) = Cat(Cat(Cat(c, t), Slot(x)), j)
  BY <1>1, <1>2, LineParts, SMTT(30)
<1>5. Cat(c, t) = Cat(b, r)
  BY <1>1, <1>2, Associative, SMTT(30)
<1> QED
  BY <1>3, <1>5, LineParts, SMTT(30) DEF c, h, t

\* The first of the line is the first result taken; applying it leaves the rest.
LEMMA LineApply ==
  ASSUME NEW b \in Seq(Jobs), Nonempty(b), NEW r \in Seq(Jobs), NEW x \in Jobs \cup {None}, NEW j \in Seq(Jobs)
  PROVE  /\ Nonempty(Line(b, r, x, j)) /\ First(Line(b, r, x, j)) = First(b)
         /\ Line(Rest(b), r, x, j) = Rest(Line(b, r, x, j))
<1> DEFINE h == Head(b)
           t == Tail(b)
           rest == Cat(r, Cat(Slot(x), j))
           new == Line(t, r, x, j)
<1>1. h \in Jobs /\ t \in Seq(Jobs) /\ b = Cat(Unit(h), t) /\ Unit(h) \in Seq(Jobs)
  BY HeadTail DEF Nonempty
<1>2. rest \in Seq(Jobs)
  BY LineParts, Associative
<1> HIDE DEF h, t
<1>3. new = Cat(t, rest) /\ new \in Seq(Jobs)
  BY <1>1, LineParts, SMTT(30)
<1>4. Line(b, r, x, j) = Cat(b, rest)
  BY LineParts, SMTT(30)
<1> HIDE DEF rest, new
<1>6. LET w == Cat(Unit(h), new) IN w # <<>> /\ Head(w) = h /\ Tail(w) = new
  BY <1>1, <1>3, Cons
<1>7. Line(b, r, x, j) = Cat(Unit(h), new)
  BY <1>1, <1>2, <1>3, <1>4, Associative, SMTT(30)
<1> QED
  BY <1>6, <1>7 DEF new, h, t, Nonempty, First, Rest

\* A job is sent to the end of the line.
Plus(s, y) == Append(s, y)

\* A job sent is the last of the line (Sender::send).
LEMMA LineSend ==
  ASSUME NEW b \in Seq(Jobs), NEW r \in Seq(Jobs), NEW x \in Jobs \cup {None}, NEW j \in Seq(Jobs), NEW y \in Jobs
  PROVE  Line(b, r, x, Plus(j, y)) = Plus(Line(b, r, x, j), y)
<1> DEFINE k == Append(j, y)
           s == Cat(Cat(b, r), Slot(x))
           out == Line(b, r, x, j)
<1>1. k = Cat(j, Unit(y)) /\ k \in Seq(Jobs) /\ Unit(y) \in Seq(Jobs)
  BY AppendIsCat
<1>2. s \in Seq(Jobs)
  BY LineParts, Associative
<1>3. out = Cat(s, j) /\ out \in Seq(Jobs)
  BY LineParts, SMTT(30)
<1> HIDE DEF k
<1>4. Line(b, r, x, k) = Cat(s, k)
  BY <1>1, LineParts, SMTT(30)
<1> HIDE DEF s, out
<1>5. Append(out, y) = Cat(out, Unit(y))
  BY <1>3, AppendIsCat
<1> QED
  BY <1>1, <1>2, <1>3, <1>4, <1>5, Associative, SMTT(30) DEF k, out, Plus

\* Results may be lost from the front or the back of the line, and a failed one
\* is still the result of its job.
Alike(x, y) == x.u = y.u /\ x.final = y.final /\ x.generation = y.generation /\ x.revision = y.revision

Carries(out, new, d) ==
  /\ d \in Nat /\ Len(new) + d <= Len(out)
  /\ \A i \in 1 .. Len(new) : Alike(new[i], out[d + i])

\* The rest of the results taken is dropped with the loop that applies them.
LEMMA LineDrop ==
  ASSUME NEW b \in Seq(Jobs), NEW r \in Seq(Jobs), NEW x \in Jobs \cup {None}, NEW j \in Seq(Jobs)
  PROVE  Carries(Line(b, r, x, j), Line(<<>>, r, x, j), Len(b))
<1> DEFINE e == <<>>
           rest == Cat(r, Cat(Slot(x), j))
<1>1. e \in Seq(Jobs) /\ rest \in Seq(Jobs) /\ Cat(e, rest) = rest
  BY Neutral, LineParts, Associative, SMTT(30)
<1> HIDE DEF e
<1>2. Line(b, r, x, j) = Cat(b, rest)
  BY LineParts, SMTT(30)
<1>3. Line(e, r, x, j) = Cat(e, rest)
  BY <1>1, LineParts, SMTT(30)
<1> HIDE DEF rest
<1>4. /\ Len(Cat(b, rest)) = Len(b) + Len(rest)
      /\ \A i \in 1 .. Len(rest) : Cat(b, rest)[Len(b) + i] = rest[i]
  BY <1>1, CatAt
<1> QED
  BY <1>1, <1>2, <1>3, <1>4, SMTT(30) DEF e, Carries, Alike

\* A worker that panics loses the running job and the queue.
LEMMA LinePanic ==
  ASSUME NEW b \in Seq(Jobs), NEW r \in Seq(Jobs), NEW x \in Jobs \cup {None}, NEW j \in Seq(Jobs)
  PROVE  Carries(Line(b, r, x, j), Line(b, r, None, <<>>), 0)
<1> DEFINE e == <<>>
           s == Cat(b, r)
           t == Cat(Slot(x), j)
<1>0. e \in Seq(Jobs) /\ Slot(None) = e
  BY Neutral, SlotOf
<1> HIDE DEF e
<1>1. s \in Seq(Jobs) /\ t \in Seq(Jobs) /\ Slot(x) \in Seq(Jobs)
  BY LineParts, Associative
<1>2. Line(b, r, x, j) = Cat(Cat(s, Slot(x)), j)
  BY LineParts, SMTT(30)
<1>3. Line(b, r, None, e) = Cat(Cat(s, e), e)
  BY <1>0, LineParts, SMTT(30)
<1> HIDE DEF s
<1>4. Cat(Cat(s, Slot(x)), j) = Cat(s, t)
  BY <1>1, Associative, SMTT(30)
<1> HIDE DEF t
<1>6. Len(Cat(s, t)) = Len(s) + Len(t) /\ \A i \in 1 .. Len(s) : Cat(s, t)[i] = s[i]
  BY <1>1, CatAt
<1> QED
  BY <1>1, <1>2, <1>3, <1>4, <1>6, Neutral, SMTT(30) DEF e, Carries, Alike

\* A failed transcription is still a result, in its turn.
LEMMA LineFail ==
  ASSUME NEW b \in Seq(Jobs), NEW r \in Seq(Jobs), NEW x \in Jobs, NEW y \in Jobs, Alike(y, x), NEW j \in Seq(Jobs)
  PROVE  /\ Carries(Line(b, r, x, j), Line(b, Append(r, y), None, j), 0)
         /\ Len(Line(b, r, x, j)) = Len(Line(b, Append(r, y), None, j))
<1> DEFINE s == Cat(b, r)
           v == Cat(s, Unit(x))
           w == Cat(s, Unit(y))
           old == Cat(v, j)
           new == Cat(w, j)
<1>1. Unit(x) \in Seq(Jobs) /\ Unit(y) \in Seq(Jobs) /\ Slot(x) = Unit(x) /\ Slot(y) = Unit(y)
  BY SlotOf
<1>2. s \in Seq(Jobs) /\ v \in Seq(Jobs) /\ w \in Seq(Jobs)
  BY <1>1, Associative
<1>3. Line(b, r, x, j) = old
  BY <1>1, LineParts, SMTT(30)
<1>4. Line(b, Append(r, y), None, j) = new
  BY <1>1, LineParts, LineDeliver, SMTT(30)
<1> HIDE DEF s
<1>5. /\ Len(v) = Len(s) + 1 /\ Len(w) = Len(s) + 1 /\ v[Len(s) + 1] = x /\ w[Len(s) + 1] = y
      /\ \A i \in 1 .. Len(s) : v[i] = s[i] /\ w[i] = s[i]
  <2>1. Len(Unit(x)) = 1 /\ Unit(x)[1] = x /\ Len(Unit(y)) = 1 /\ Unit(y)[1] = y
    BY DEF Unit
  <2>2. /\ Len(v) = Len(s) + Len(Unit(x)) /\ \A i \in 1 .. Len(s) : v[i] = s[i]
        /\ \A i \in 1 .. Len(Unit(x)) : v[Len(s) + i] = Unit(x)[i]
    BY <1>1, <1>2, CatAt
  <2>3. /\ Len(w) = Len(s) + Len(Unit(y)) /\ \A i \in 1 .. Len(s) : w[i] = s[i]
        /\ \A i \in 1 .. Len(Unit(y)) : w[Len(s) + i] = Unit(y)[i]
    BY <1>1, <1>2, CatAt
  <2> QED
    BY <2>1, <2>2, <2>3, SMTT(30)
<1>6. Len(s) \in Nat /\ Len(j) \in Nat
  BY <1>2, SMTT(30)
<1> HIDE DEF v, w
<1>7. /\ Len(old) = Len(v) + Len(j) /\ \A i \in 1 .. Len(v) : old[i] = v[i]
      /\ \A i \in 1 .. Len(j) : old[Len(v) + i] = j[i]
  BY <1>2, CatAt
<1>8. /\ Len(new) = Len(w) + Len(j) /\ \A i \in 1 .. Len(w) : new[i] = w[i]
      /\ \A i \in 1 .. Len(j) : new[Len(w) + i] = j[i]
  BY <1>2, CatAt
<1> HIDE DEF old, new
<1>9. ASSUME NEW i \in 1 .. Len(new) PROVE Alike(new[i], old[0 + i])
  <2>1. CASE i <= Len(s)
    BY <1>5, <1>6, <1>7, <1>8, <1>9, <2>1, SMTT(30) DEF Alike
  <2>2. CASE i = Len(s) + 1
    BY <1>5, <1>6, <1>7, <1>8, <2>2, SMTT(30)
  <2>3. CASE i > Len(s) + 1
    <3> DEFINE k == i - Len(v)
    <3>1. k \in 1 .. Len(j) /\ i = Len(v) + k /\ i = Len(w) + k
      BY <1>5, <1>6, <1>8, <1>9, <2>3, SMTT(30)
    <3> HIDE DEF k
    <3> QED
      BY <1>7, <1>8, <3>1, SMTT(30) DEF Alike
  <2> QED
    BY <1>6, <1>9, <2>1, <2>2, <2>3, SMTT(30)
<1> QED
  BY <1>3, <1>4, <1>5, <1>6, <1>7, <1>8, <1>9, SMTT(30) DEF Carries

-----------------------------------------------------------------------------
(* The order of the line                                                    *)

\* PartialState, with the final's mark.
Flights ==
  [emitted : Nat, finalized : BOOLEAN, generation : 0 .. 1, inFlight : BOOLEAN, pending : Nat \cup {None},
   revision : Nat, shown : BOOLEAN]

\* What is shown of an utterance.
Segments == [finalized : BOOLEAN, revision : Nat]

FlightMap == [Utterances -> Flights]

SegmentMap == [Utterances -> Segments \cup {None}]

\* What is out is newer than what is shown, is of the flight's revisions, and
\* the final of an utterance is its last.
Current(job, fl, seg) ==
  /\ job.generation = 0 /\ job.revision <= fl[job.u].revision
  /\ job.final => fl[job.u].finalized
  /\ seg[job.u] # None => ~seg[job.u].finalized /\ seg[job.u].revision < job.revision

Before(x, y) == x.u = y.u => x.revision < y.revision /\ ~x.final

\* Results are newer than what is shown, and each newer than the ones before it.
Ordered(out, fl, seg) ==
  /\ \A i \in 1 .. Len(out) : Current(out[i], fl, seg)
  /\ \A i, k \in 1 .. Len(out) : i < k => Before(out[i], out[k])

\* The flights move on.
Ahead(fl, gl) == \A u \in Utterances : fl[u].revision <= gl[u].revision /\ (fl[u].finalized => gl[u].finalized)

\* A line that has lost jobs, or fails some, is still in order.
LEMMA OrderCarried ==
  ASSUME NEW out \in Seq(Jobs), NEW new \in Seq(Jobs), NEW d, Carries(out, new, d),
         NEW fl \in FlightMap, NEW gl \in FlightMap, Ahead(fl, gl), NEW seg \in SegmentMap, Ordered(out, fl, seg)
  PROVE  Ordered(new, gl, seg)
<1>1. d \in Nat /\ Len(new) \in Nat /\ Len(out) \in Nat /\ Len(new) + d <= Len(out)
  BY SMTT(30) DEF Carries
<1>2. ASSUME NEW i \in 1 .. Len(new)
      PROVE  d + i \in 1 .. Len(out) /\ Alike(new[i], out[d + i]) /\ out[d + i] \in Jobs
  BY <1>1, <1>2, SMTT(30) DEF Carries
<1>3. ASSUME NEW i \in 1 .. Len(new) PROVE Current(new[i], gl, seg)
  <2> DEFINE x == new[i]
             y == out[d + i]
  <2>1. Current(y, fl, seg) /\ Alike(x, y) /\ y \in Jobs
    BY <1>2, <1>3 DEF Ordered
  <2> HIDE DEF x, y
  <2>2. y.u \in Utterances /\ y.revision \in Nat
    BY <2>1 DEF Jobs
  <2> QED
    BY <2>1, <2>2, SMTT(30) DEF x, Current, Alike, Ahead, FlightMap, Flights
<1>4. ASSUME NEW i \in 1 .. Len(new), NEW k \in 1 .. Len(new), i < k PROVE Before(new[i], new[k])
  <2>2. Before(out[d + i], out[d + k])
    BY <1>1, <1>2, <1>4, SMTT(30) DEF Ordered
  <2> QED
    BY <1>2, <2>2 DEF Before, Alike
<1> QED
  BY <1>3, <1>4 DEF Ordered

\* Nothing is lost of a line that stays.
LEMMA Reflexive == ASSUME NEW out \in Seq(Jobs) PROVE Carries(out, out, 0)
BY SMTT(30) DEF Carries, Alike

\* A new job of an utterance without a final goes behind the others.
LEMMA OrderSent ==
  ASSUME NEW out \in Seq(Jobs), NEW job \in Jobs, NEW new, new = Append(out, job),
         NEW fl \in FlightMap, NEW gl \in FlightMap, Ahead(fl, gl), NEW seg \in SegmentMap, Ordered(out, fl, seg),
         job.generation = 0, job.revision = fl[job.u].revision + 1, job.revision <= gl[job.u].revision,
         job.final => gl[job.u].finalized, ~fl[job.u].finalized,
         seg[job.u] # None => ~seg[job.u].finalized /\ seg[job.u].revision <= fl[job.u].revision
  PROVE  new \in Seq(Jobs) /\ Ordered(new, gl, seg)
<1>1. /\ new \in Seq(Jobs) /\ Len(new) = Len(out) + 1 /\ new[Len(out) + 1] = job /\ Len(out) \in Nat
      /\ \A i \in 1 .. Len(out) : new[i] = out[i]
  BY SMTT(30)
<1>2. Ordered(out, gl, seg)
  BY OrderCarried, Reflexive
<1>3. job.u \in Utterances /\ fl[job.u].revision \in Nat
  BY DEF Jobs, FlightMap, Flights
<1>5. ASSUME NEW i \in 1 .. Len(out) PROVE Current(out[i], gl, seg) /\ Before(out[i], job)
  <2> DEFINE x == out[i]
  <2>1. x \in Jobs /\ Current(x, gl, seg) /\ Current(x, fl, seg)
    BY <1>2, <1>5, SMTT(30) DEF Ordered
  <2> HIDE DEF x
  <2>2. ASSUME x.u = job.u PROVE x.revision < job.revision /\ ~x.final
    <3>2. x.revision \in Nat
      BY <2>1 DEF Jobs
    <3> QED
      BY <1>3, <2>1, <2>2, <3>2, SMTT(30) DEF Current
  <2> QED
    BY <2>1, <2>2 DEF x, Before
<1>6. ASSUME NEW i \in 1 .. Len(new) PROVE Current(new[i], gl, seg)
  BY <1>1, <1>3, <1>5, <1>6, SMTT(30) DEF Current, SegmentMap, Segments
<1>7. ASSUME NEW i \in 1 .. Len(new), NEW k \in 1 .. Len(new), i < k PROVE Before(new[i], new[k])
  <2>1. i \in 1 .. Len(out) /\ (k \in 1 .. Len(out) \/ k = Len(out) + 1)
    BY <1>1, <1>7, SMTT(30)
  <2>2. CASE k \in 1 .. Len(out)
    <3>1. Before(out[i], out[k])
      BY <1>2, <1>7, <2>1, <2>2 DEF Ordered
    <3> QED
      BY <1>1, <2>1, <2>2, <3>1
  <2>3. CASE k = Len(out) + 1
    BY <1>1, <1>5, <2>1, <2>3
  <2> QED
    BY <2>1, <2>2, <2>3
<1> QED
  BY <1>1, <1>6, <1>7 DEF Ordered

\* The first of the line is shown; the rest is newer, and there is none after a final.
LEMMA OrderShown ==
  ASSUME NEW out \in Seq(Jobs), out # <<>>, NEW fl \in FlightMap,
         NEW seg \in SegmentMap, NEW sog \in SegmentMap, Ordered(out, fl, seg),
         \A u \in Utterances : sog[u] # seg[u] =>
           u = Head(out).u /\ sog[u].revision = Head(out).revision /\ sog[u].finalized = Head(out).final
  PROVE  Tail(out) \in Seq(Jobs) /\ Ordered(Tail(out), fl, sog)
<1> DEFINE rest == Tail(out)
           h == Head(out)
<1>1. /\ rest \in Seq(Jobs) /\ Len(out) \in Nat \ {0} /\ Len(rest) = Len(out) - 1
      /\ \A i \in 1 .. Len(rest) : rest[i] = out[i + 1]
      /\ h = out[1] /\ h \in Jobs
  BY SMTT(30)
<1> HIDE DEF rest, h
<1>3. ASSUME NEW i \in 1 .. Len(rest)
      PROVE  i + 1 \in 1 .. Len(out) /\ rest[i] = out[i + 1] /\ rest[i] \in Jobs
  BY <1>1, <1>3, SMTT(30)
<1>4. ASSUME NEW i \in 1 .. Len(rest) PROVE Current(rest[i], fl, sog)
  <2> DEFINE x == rest[i]
  <2>1. x \in Jobs /\ Current(x, fl, seg)
    BY <1>3, <1>4 DEF Ordered
  <2>2. Before(h, x)
    BY <1>1, <1>3, <1>4, SMTT(30) DEF Ordered
  <2> HIDE DEF x
  <2>4. ASSUME sog[x.u] = seg[x.u] PROVE Current(x, fl, sog)
    BY <2>1, <2>4 DEF Current
  <2>5. ASSUME sog[x.u] # seg[x.u] PROVE Current(x, fl, sog)
    BY <2>1, <2>2, <2>5 DEF Current, Before, h, Jobs
  <2> QED
    BY <2>4, <2>5 DEF x
<1>5. ASSUME NEW i \in 1 .. Len(rest), NEW k \in 1 .. Len(rest), i < k PROVE Before(rest[i], rest[k])
  BY <1>3, <1>5, SMTT(30) DEF Ordered
<1> QED
  BY <1>1, <1>4, <1>5 DEF rest, Ordered

-----------------------------------------------------------------------------
(* One partial at a time                                                    *)

\* in_flight says of every utterance without a final whether its partial is out.
Partial(job, u) == job.u = u /\ ~job.final

Tracks(out, fl) ==
  \A u \in Utterances : ~fl[u].finalized =>
    /\ fl[u].inFlight => \E i \in 1 .. Len(out) : Partial(out[i], u)
    /\ \A i \in 1 .. Len(out) : Partial(out[i], u) =>
         fl[u].inFlight /\ \A k \in 1 .. Len(out) : Partial(out[k], u) => k = i

\* The flight flies as before.
Flies(f, g) == g.finalized = f.finalized /\ g.inFlight = f.inFlight

\* in_flight stays true when no partial comes or goes, ...
LEMMA TracksSame ==
  ASSUME NEW out, NEW new, Len(out) \in Nat, Carries(out, new, 0), Len(new) = Len(out), NEW fl, NEW gl, Tracks(out, fl),
         \A u \in Utterances : Flies(fl[u], gl[u])
  PROVE  Tracks(new, gl)
BY SMTT(30) DEF Carries, Alike, Partial, Tracks, Flies

\* ... when a job is sent: a partial of an utterance without one, or a final, ...
LEMMA TracksSent ==
  ASSUME NEW out \in Seq(Jobs), NEW job \in Jobs, NEW new, new = Plus(out, job), NEW fl, NEW gl, Tracks(out, fl),
         \A u \in Utterances : u # job.u => Flies(fl[u], gl[u]),
         ~gl[job.u].finalized => ~job.final /\ ~fl[job.u].finalized /\ ~fl[job.u].inFlight /\ gl[job.u].inFlight
  PROVE  Tracks(new, gl)
<1> DEFINE n == Len(out)
<1>1. n \in Nat /\ Len(new) = n + 1 /\ new[n + 1] = job /\ \A i \in 1 .. n : new[i] = out[i]
  BY SMTT(30) DEF Plus
<1> HIDE DEF n
<1>2. ASSUME NEW u \in Utterances, u # job.u, ~gl[u].finalized
      PROVE  /\ gl[u].inFlight => \E i \in 1 .. Len(new) : Partial(new[i], u)
             /\ \A i \in 1 .. Len(new) : Partial(new[i], u) =>
                  gl[u].inFlight /\ \A k \in 1 .. Len(new) : Partial(new[k], u) => k = i
  BY <1>1, <1>2, SMTT(30) DEF Tracks, Flies, n, Partial
<1>3. ASSUME ~gl[job.u].finalized
      PROVE  /\ \E i \in 1 .. Len(new) : Partial(new[i], job.u)
             /\ \A i \in 1 .. Len(new) : Partial(new[i], job.u) =>
                  gl[job.u].inFlight /\ \A k \in 1 .. Len(new) : Partial(new[k], job.u) => k = i
  <2>1. job.u \in Utterances /\ ~job.final /\ ~fl[job.u].finalized /\ ~fl[job.u].inFlight /\ gl[job.u].inFlight
    BY <1>3 DEF Jobs
  <2> QED
    BY <1>1, <2>1, SMTT(30) DEF Partial, Tracks, n
<1> QED
  BY <1>2, <1>3, SMTT(30) DEF Tracks

\* ... and when the first result is applied.
LEMMA TracksShown ==
  ASSUME NEW out \in Seq(Jobs), Nonempty(out), NEW r, r = First(out), NEW new, new = Rest(out), NEW fl, NEW gl,
         Tracks(out, fl), \A u \in Utterances : u # r.u => Flies(fl[u], gl[u]),
         r.final => fl[r.u].finalized, gl[r.u].finalized = fl[r.u].finalized, ~gl[r.u].inFlight
  PROVE  Tracks(new, gl)
<1> DEFINE n == Len(out)
<1>1. n \in Nat \ {0} /\ Len(new) = n - 1 /\ out[1] = r /\ \A i \in 1 .. Len(new) : new[i] = out[i + 1]
  BY SMTT(30) DEF First, Rest, Nonempty
<1> HIDE DEF n
<1>2. ASSUME NEW u \in Utterances, u # r.u, ~gl[u].finalized
      PROVE  /\ gl[u].inFlight => \E i \in 1 .. Len(new) : Partial(new[i], u)
             /\ \A i \in 1 .. Len(new) : Partial(new[i], u) =>
                  gl[u].inFlight /\ \A k \in 1 .. Len(new) : Partial(new[k], u) => k = i
  <2>1. /\ ~fl[u].finalized /\ gl[u].inFlight = fl[u].inFlight
        /\ fl[u].inFlight => \E i \in 1 .. n : Partial(out[i], u)
        /\ \A i \in 1 .. n : Partial(out[i], u) =>
             fl[u].inFlight /\ \A k \in 1 .. n : Partial(out[k], u) => k = i
    BY <1>2 DEF Tracks, Flies, n
  <2>2. ASSUME NEW i \in 1 .. n, Partial(out[i], u) PROVE i - 1 \in 1 .. Len(new) /\ Partial(new[i - 1], u)
    BY <1>1, <1>2, <2>2, SMTT(30) DEF Partial
  <2>3. ASSUME NEW i \in 1 .. Len(new), Partial(new[i], u) PROVE i + 1 \in 1 .. n /\ Partial(out[i + 1], u)
    BY <1>1, <2>3, SMTT(30)
  <2>4. ASSUME NEW i \in 1 .. Len(new), Partial(new[i], u), NEW k \in 1 .. Len(new), Partial(new[k], u)
        PROVE  k = i
    BY <2>1, <2>3, <2>4, SMTT(30)
  <2>5. ASSUME NEW i \in 1 .. Len(new), Partial(new[i], u) PROVE gl[u].inFlight
    BY <2>1, <2>3, <2>5
  <2> QED
    BY <2>1, <2>2, <2>4, <2>5
<1>3. ASSUME r.u \in Utterances, ~gl[r.u].finalized
      PROVE  \A i \in 1 .. Len(new) : ~Partial(new[i], r.u)
  <2>2. \A k \in 1 .. n : Partial(out[k], r.u) => k = 1
    BY <1>1, <1>3, SMTT(30) DEF Tracks, n, Partial
  <2>3. ASSUME NEW i \in 1 .. Len(new) PROVE ~Partial(new[i], r.u)
    BY <1>1, <2>2, <2>3, SMTT(30)
  <2> QED
    BY <2>3
<1> QED
  BY <1>2, <1>3, SMTT(30) DEF Tracks

\* The final of u is out.
Awaits(out, u) == \E i \in 1 .. Len(out) : out[i].u = u /\ out[i].final

\* A final sent is awaited, ...
LEMMA AwaitsPlus ==
  ASSUME NEW out \in Seq(Jobs), NEW job \in Jobs
  PROVE  /\ job.final => Awaits(Plus(out, job), job.u)
         /\ \A u : Awaits(out, u) => Awaits(Plus(out, job), u)
BY SMTT(30) DEF Plus, Awaits

\* ... still is when another result is applied, ...
LEMMA AwaitsRest ==
  ASSUME NEW out \in Seq(Jobs), Nonempty(out), NEW u, Awaits(out, u), First(out).u # u \/ ~First(out).final
  PROVE  Awaits(Rest(out), u)
<1> DEFINE n == Len(out)
           new == Rest(out)
           r == First(out)
<1>1. n \in Nat \ {0} /\ Len(new) = n - 1 /\ out[1] = r /\ \A i \in 1 .. Len(new) : new[i] = out[i + 1]
  BY SMTT(30) DEF First, Rest, Nonempty
<1> HIDE DEF n, new, r
<1>2. PICK i \in 1 .. n : out[i].u = u /\ out[i].final
  BY DEF Awaits, n
<1>4. i - 1 \in 1 .. Len(new) /\ (i - 1) + 1 = i
  BY <1>1, <1>2, SMTT(30) DEF r
<1>5. new[i - 1] = out[i]
  BY <1>1, <1>4
<1> QED
  BY <1>2, <1>4, <1>5 DEF new, Awaits

\* ... and when a transcription fails.
LEMMA AwaitsCarried ==
  ASSUME NEW out, NEW new, Len(out) \in Nat, Carries(out, new, 0), Len(new) = Len(out), NEW u, Awaits(out, u)
  PROVE  Awaits(new, u)
BY SMTT(30) DEF Awaits, Carries, Alike

\* The first result is the first one dropped.
LEMMA DroppedMore ==
  ASSUME NEW out \in Seq(Jobs), out # <<>>, NEW new \in Seq(Jobs), NEW d \in Nat \ {0}, Carries(out, new, d)
  PROVE  Carries(Tail(out), new, d - 1)
BY SMTT(30) DEF Carries

-----------------------------------------------------------------------------
(* The flights                                                              *)

\* A flight is final once its utterance is accepted; what is shown is not newer.
FlightInv ==
  /\ flights \in FlightMap /\ segments \in SegmentMap
  /\ \A u \in Utterances :
       /\ flights[u].generation = IF flights[u].finalized THEN 1 ELSE 0
       /\ flights[u].finalized <=> accepted[u] # <<>>
       /\ segments[u] # None => /\ segments[u].revision <= flights[u].revision
                                /\ segments[u].finalized => flights[u].finalized

\* What is out is in order.
OrderInv == Ordered(Outstanding, flights, segments)

\* The flight of u becomes g.
Becomes(u, f, g) ==
  /\ g \in Flights /\ flights' = [flights EXCEPT ![u] = g]
  /\ f.revision <= g.revision

\* ... and nothing is sent, ...
Touched(u, f, g) ==
  /\ Becomes(u, f, g) /\ UNCHANGED <<accepted, channel>>
  /\ g.finalized = f.finalized /\ g.generation = f.generation /\ g.inFlight = f.inFlight

\* A job of u is sent, with the next revision, ...
Sent(u, f, job) ==
  /\ Accepts /\ Send(job) /\ ~f.finalized
  /\ job \in Jobs /\ job.u = u /\ job.generation = f.generation /\ job.revision = f.revision + 1

\* ... or a partial is, ...
PartialSent(u, f, g, job) ==
  /\ Becomes(u, f, g) /\ UNCHANGED accepted
  /\ Sent(u, f, job) /\ ~job.final
  /\ g.finalized = f.finalized /\ g.generation = f.generation /\ g.revision = f.revision + 1
  /\ ~f.inFlight /\ g.inFlight

\* ... or the final.
FinalSent(u, f, g, job) ==
  /\ Becomes(u, f, g)
  /\ \E frames \in Seq(Nat) \ {<<>>} : accepted' = [accepted EXCEPT ![u] = frames]
  /\ Sent(u, f, job) /\ job.final
  /\ g.finalized /\ g.generation = 1 /\ g.revision = f.revision + 1

\* The flight after a partial is sent, and after the final is.
Left(f, at, n) == [f EXCEPT !.pending = None, !.inFlight = TRUE, !.emitted = at, !.revision = n]

Landed(f, n) == [f EXCEPT !.finalized = TRUE, !.pending = None, !.inFlight = FALSE, !.generation = n]

\* The flight of a partial sent.
LEMMA Leaves ==
  ASSUME NEW f \in Flights, NEW at \in Nat, NEW n \in Nat
  PROVE  LET g == Left(f, at, n) IN
         g \in Flights /\ g.finalized = f.finalized /\ g.generation = f.generation /\ g.revision = n /\ g.inFlight
BY DEF Flights, Left

\* invalidate_partials_for_final: the flight of the final.
LEMMA Lands ==
  ASSUME NEW f \in Flights, NEW n \in 0 .. 1
  PROVE  LET g == Landed(f, n) IN
         g \in Flights /\ g.finalized /\ g.generation = n /\ g.revision = f.revision /\ ~g.inFlight
BY DEF Flights, Landed

\* queue_next_partial.
LEMMA NextPartial ==
  ASSUME NEW u \in Utterances, NEW f \in Flights, NEW at \in Nat, NEW next, QueueNextPartial(u, f, at, next),
         UNCHANGED accepted
  PROVE  \E g : \/ GoOn(next) /\ Touched(u, f, g) /\ g = f
                \/ Abort /\ Touched(u, f, g) /\ ~f.finalized
                \/ GoOn(next) /\ \E job : PartialSent(u, f, g, job)
<1>1. CASE f.pending = None \/ f.finalized \/ f.inFlight
  <2>1. Flight(u, f) /\ GoOn(next) /\ UNCHANGED channel
    BY <1>1 DEF QueueNextPartial
  <2>2. Touched(u, f, f)
    BY <2>1, SMTT(30) DEF Touched, Becomes, Flight, Flights
  <2> QED
    BY <2>1, <2>2
<1>2. CASE ~(f.pending = None \/ f.finalized \/ f.inFlight)
  <2> DEFINE sent == [f EXCEPT !.pending = None, !.inFlight = TRUE, !.emitted = at, !.revision = @ + 1]
             back == [sent EXCEPT !.pending = f.pending, !.inFlight = FALSE]
             job == Job(u, f, FALSE, f.pending)
  <2>1. \/ Accepts /\ Flight(u, sent) /\ Send(job) /\ GoOn(next)
        \/ Refuses /\ Flight(u, back) /\ Abort /\ UNCHANGED channel
    BY <1>2 DEF QueueNextPartial
  <2>2. /\ sent \in Flights /\ sent.finalized = f.finalized /\ sent.generation = f.generation
        /\ sent.revision = f.revision + 1 /\ sent.inFlight
    <3> DEFINE n == f.revision + 1
    <3>1. n \in Nat /\ sent = Left(f, at, n)
      BY SMTT(30) DEF Flights, Left
    <3> HIDE DEF n, sent
    <3>2. /\ sent \in Flights /\ sent.finalized = f.finalized /\ sent.generation = f.generation
          /\ sent.revision = n /\ sent.inFlight
      BY <3>1, Leaves
    <3> QED
      BY <3>2 DEF n
  <2>3. /\ back \in Flights /\ back.finalized = f.finalized /\ back.generation = f.generation
        /\ back.revision = f.revision + 1 /\ ~back.inFlight
    <3>1. f.pending \in Nat \cup {None}
      BY DEF Flights
    <3> HIDE DEF sent
    <3> QED
      BY <2>2, <3>1 DEF Flights
  <2>4. /\ job \in Jobs /\ job.u = u /\ job.generation = f.generation /\ job.revision = f.revision + 1
        /\ ~job.final
    BY <1>2, SMTT(30) DEF Jobs, Job, Flights
  <2>5. f.revision \in Nat
    BY DEF Flights
  <2> HIDE DEF sent, back, job
  <2>6. CASE Accepts /\ Flight(u, sent) /\ Send(job) /\ GoOn(next)
    <3>1. PartialSent(u, f, sent, job)
      BY <1>2, <2>2, <2>4, <2>5, <2>6, SMTT(30) DEF PartialSent, Becomes, Sent, Flight
    <3> QED
      BY <2>6, <3>1
  <2>7. CASE Refuses /\ Flight(u, back) /\ Abort /\ UNCHANGED channel
    <3>1. Touched(u, f, back)
      BY <1>2, <2>3, <2>5, <2>7, SMTT(30) DEF Touched, Becomes, Flight, Flights
    <3> QED
      BY <1>2, <2>7, <3>1
  <2> QED
    BY <2>1, <2>6, <2>7
<1> QED
  BY <1>1, <1>2

\* maybe_queue_partial_snapshot.
LEMMA MaybePartial ==
  ASSUME flights \in FlightMap, NEW u \in Utterances, NEW end \in Nat, NEW next,
         MaybeQueuePartial(u, end, next), UNCHANGED accepted
  PROVE  \/ GoOn(next) /\ Untouched
         \/ \E g : \/ GoOn(next) /\ Touched(u, flights[u], g)
                   \/ Abort /\ Touched(u, flights[u], g)
                   \/ GoOn(next) /\ \E job : PartialSent(u, flights[u], g, job)
BY NextPartial, SMTT(30) DEF FlightMap, Flights, Untouched, Touched, Becomes, PartialSent, Sent,
   MaybeQueuePartial

\* queue_utterance, for an utterance whose final was not queued before.
LEMMA FinalQueued ==
  ASSUME FlightInv, NEW c, c.id \in Utterances, c.frames \in Seq(Nat) \ {<<>>}, accepted[c.id] = <<>>,
         NEW end \in Nat
  PROVE  LET f == flights[c.id]
             bumped == [f EXCEPT !.revision = @ + 1]
         IN /\ Accepts /\ Flight(c.id, Invalidate(bumped)) /\ Send(Job(c.id, f, TRUE, end))
               /\ accepted' = [accepted EXCEPT ![c.id] = c.frames]
               => \E g, job : FinalSent(c.id, f, g, job)
            /\ Flight(c.id, bumped) /\ UNCHANGED <<accepted, channel>> => \E g : Touched(c.id, f, g)
<1> DEFINE u == c.id
           f == flights[u]
           bumped == [f EXCEPT !.revision = @ + 1]
           final == Invalidate(bumped)
           job == Job(u, f, TRUE, end)
<1>1. f \in Flights /\ ~f.finalized /\ f.generation = 0 /\ f.revision \in Nat
  BY DEF FlightInv, FlightMap, Flights
<1> HIDE DEF f
<1>3. /\ bumped \in Flights /\ bumped.finalized = f.finalized /\ bumped.generation = f.generation
      /\ bumped.inFlight = f.inFlight /\ bumped.revision = f.revision + 1
  BY <1>1, SMTT(30) DEF Flights
<1>4. job \in Jobs /\ job.u = u /\ job.generation = f.generation /\ job.revision = f.revision + 1 /\ job.final
  BY <1>1, SMTT(30) DEF Jobs, Job
<1> HIDE DEF bumped, job
<1>5. final \in Flights /\ final.finalized /\ final.generation = 1 /\ final.revision = f.revision + 1
  <2> DEFINE n == bumped.generation + 1
  <2>1. n \in 0 .. 1 /\ n = 1
    BY <1>1, <1>3, SMTT(30)
  <2>2. final = Landed(bumped, n)
    BY DEF Invalidate, Landed
  <2> HIDE DEF n, final
  <2> QED
    BY <1>3, <2>1, <2>2, Lands
<1> HIDE DEF final
<1>7. ASSUME Accepts, Flight(u, final), Send(job), accepted' = [accepted EXCEPT ![u] = c.frames]
      PROVE  FinalSent(u, f, final, job)
  <2>1. Becomes(u, f, final)
    BY <1>1, <1>5, <1>7, SMTT(30) DEF Becomes, Flight
  <2>2. Sent(u, f, job)
    BY <1>1, <1>4, <1>7 DEF Sent
  <2>3. \E frames \in Seq(Nat) \ {<<>>} : accepted' = [accepted EXCEPT ![u] = frames]
    BY <1>7
  <2> QED
    BY <1>4, <1>5, <2>1, <2>2, <2>3 DEF FinalSent
<1>8. ASSUME Flight(u, bumped), UNCHANGED <<accepted, channel>>
      PROVE  Touched(u, f, bumped)
  BY <1>1, <1>3, <1>8, SMTT(30) DEF Touched, Becomes, Flight
<1> QED
  BY <1>7, <1>8 DEF f, final, bumped, job

\* Utterances is large enough.
LEMMA OpenedInTime ==
  ASSUME NEW v \in VadStates, NEW t \in Nat, InTime(v, t), NEW id \in 1 .. v.next - 1
  PROVE  id \in Utterances
<1> DEFINE n == v.next - 1
           x == IF v.state = "WaitingForSpeech" THEN v.speech ELSE 0
<1>1. n \in Nat /\ x \in Nat /\ id \in Nat \ {0} /\ id <= n /\ t <= Horizon
  BY SMTT(30) DEF InTime, VadStates
<1>2. n * SpeechStartMs + x <= t
  BY DEF InTime
<1> HIDE DEF n, x
<1> DEFINE w == id * SpeechStartMs
           z == n * SpeechStartMs
<1> HIDE DEF w, z
<1> QED
  BY <1>1, <1>2, Positive, Divides, Monotone, SMTT(30) DEF Utterances, w

\* A frame keeps the VAD in time, and utterances are numbered upward.
LEMMA VadStep ==
  ASSUME VadInv, NEW r, NEW p, FrameMove(r, p)
  PROVE  VadInv' /\ vad'.next >= vad.next /\ vad.next \in Nat /\ vad'.next \in Nat
<1>0. /\ vad' = r.vad /\ r.vad \in VadStates /\ now' = now + FrameMs /\ now' <= Horizon
      /\ Opens(vad, now, r) \/ WaitsOn(vad, now, r) \/ Closes(vad, now, r) \/ SpeaksOn(vad, now, r)
  BY DEF FrameMove, Overfull
<1> DEFINE n == vad.next - 1
           z == n * SpeechStartMs
<1>1. vad \in VadStates /\ now \in Nat /\ n \in Nat /\ now' \in Nat /\ vad.speech \in Nat /\ r.vad.speech \in Nat
      /\ vad.next \in Nat
  BY <1>0, Positive, SMTT(30) DEF VadInv, VadStates
<1>2. z \in Nat /\ z <= now /\ (vad.state = "WaitingForSpeech" => z + vad.speech <= now)
  BY <1>1, Positive, SMTT(30) DEF VadInv, InTime
<1> DEFINE m == r.vad.next - 1
           y == m * SpeechStartMs
<1>3. CASE Opens(vad, now, r)
  BY <1>0, <1>1, <1>2, <1>3, Positive, SMTT(30) DEF Opens, VadInv, InTime, y
<1>4. CASE ~Opens(vad, now, r)
  <2>1. m = n /\ r.vad.next = vad.next
    BY <1>0, <1>1, <1>4 DEF WaitsOn, Closes, SpeaksOn
  <2>2. y = z
    BY <2>1
  <2>3. r.vad.state = "WaitingForSpeech" => r.vad.speech = 0 \/ (vad.state = "WaitingForSpeech" /\ r.vad.speech = vad.speech + FrameMs)
    BY <1>0, <1>4 DEF WaitsOn, Closes, SpeaksOn
  <2> HIDE DEF y, z
  <2> QED
    BY <1>0, <1>1, <1>2, <2>1, <2>2, <2>3, Positive, SMTT(30) DEF VadInv, InTime, y
<1> QED
  BY <1>3, <1>4

\* The first error leaves the loop.
LEMMA AbortEnds == Abort => phase' \in {"shutdown", "done"} /\ ~Flowing' /\ ending' \in {"broken", "returned"}
BY DEF Abort, Flowing

\* The handlers of a frame and of the flush, as the flights see them.
Moves ==
  \/ Untouched
  \/ \E u \in Utterances : \E g : \/ Touched(u, flights[u], g)
                                  \/ \E job : PartialSent(u, flights[u], g, job) \/ FinalSent(u, flights[u], g, job)

\* process_frame.
LEMMA FrameStep ==
  ASSUME VadInv, BufferInv, FlightInv, NEW speech \in BOOLEAN, ProcessFrame(speech)
  PROVE  VadInv' /\ BufferInv' /\ Moves /\ phase = "loop" /\ (GoOn("collect") \/ Abort)
<1>0. phase = "loop"
  BY FrameMoves
<1>1. PICK r, p : FrameMove(r, p)
  BY FrameMoves
<1>2. VadInv' /\ vad'.next >= vad.next /\ vad.next \in Nat /\ vad'.next \in Nat
  BY <1>1, VadStep
<1>3. /\ buffer \in Buffers /\ buffer' \in Buffers /\ buffer' = p.buffer /\ vad' = r.vad /\ vad' \in VadStates
      /\ now \in Nat /\ now' \in Nat
  BY <1>1, <1>2 DEF FrameMove, BufferInv, VadInv
<1>4. /\ vad.state = "InSpeech" <=> buffer.active # None
      /\ buffer.active # None => vad.id = buffer.active.id
      /\ buffer.active # None => buffer.active.frames # <<>> /\ buffer.active.id \in 1 .. vad.next - 1
      /\ accepted \in [Utterances -> Seq(Nat)]
      /\ \A u \in Utterances : accepted[u] # <<>> => u < vad.next /\ (buffer.active # None => u < buffer.active.id)
  BY <1>0 DEF BufferInv, Flowing
<1>5. GoOn("collect") => phase' = "collect" /\ Flowing'
  BY DEF GoOn, Flowing
<1>6. CASE Overfull(r) /\ Overflows(buffer, p) /\ Abort /\ Untouched
  BY <1>0, <1>2, <1>3, <1>4, <1>6, AbortEnds, SMTT(30) DEF Overflows, Untouched, Utterances, BufferInv, Moves
<1>7. CASE WaitsOn(vad, now, r) /\ Waits(buffer, now, p) /\ GoOn("collect") /\ Untouched
  BY <1>0, <1>2, <1>3, <1>4, <1>5, <1>7 DEF Waits, WaitsOn, Untouched, Utterances, BufferInv, Moves
<1>8. ASSUME NEW id \in 1 .. vad'.next - 1, NEW frames \in Seq(Nat), frames # <<>>,
             buffer'.active = Buffer!Active(id, frames), vad'.state = "InSpeech", vad'.id = id,
             \A u \in Utterances : accepted[u] # <<>> => u < id,
             MaybeQueuePartial(id, now', "collect"), UNCHANGED accepted
      PROVE  BufferInv' /\ Moves /\ (GoOn("collect") \/ Abort)
  <2>1. id \in Utterances
    BY <1>2, <1>8, OpenedInTime DEF VadInv
  <2>3. flights \in FlightMap
    BY DEF FlightInv
  <2>4. \/ GoOn("collect") /\ Untouched
        \/ \E g : \/ GoOn("collect") /\ Touched(id, flights[id], g)
                  \/ Abort /\ Touched(id, flights[id], g)
                  \/ GoOn("collect") /\ \E job : PartialSent(id, flights[id], g, job)
    BY <1>3, <1>8, <2>1, <2>3, MaybePartial
  <2>5. Moves /\ (GoOn("collect") \/ Abort)
    BY <2>1, <2>4 DEF Moves
  <2>7. phase' \in {"collect", "shutdown", "done"}
    BY <1>5, <2>5, AbortEnds
  <2> QED
    BY <1>2, <1>3, <1>4, <1>8, <2>5, <2>7, NoneIsNone, SMTT(30) DEF BufferInv, OpenUtterances, Buffer!Active,
       Utterances
<1>9. CASE Opens(vad, now, r) /\ Starts(buffer, now, vad.next, p)
           /\ MaybeQueuePartial(vad.next, now', "collect") /\ UNCHANGED accepted
  <2> DEFINE frames == Append(buffer.preRoll, now)
             id == vad.next
  <2>1. frames \in Seq(Nat) /\ frames # <<>>
    <3>1. buffer.preRoll \in Seq(Nat)
      BY <1>3 DEF Buffers
    <3> QED
      BY <1>3, <3>1, SMTT(30)
  <2>2. buffer'.active = Buffer!Active(id, frames) /\ vad'.state = "InSpeech" /\ vad'.id = id /\ vad'.next = vad.next + 1
    BY <1>3, <1>9 DEF Starts, Opens
  <2>3. id \in 1 .. vad'.next - 1
    BY <1>2, <2>2, SMTT(30) DEF VadInv, VadStates
  <2>4. \A u \in Utterances : accepted[u] # <<>> => u < id
    BY <1>4
  <2>5. MaybeQueuePartial(id, now', "collect")
    BY <1>9
  <2> HIDE DEF frames, id
  <2> QED
    <3>1. BufferInv' /\ Moves /\ (GoOn("collect") \/ Abort)
      BY <1>8, <1>9, <2>1, <2>2, <2>3, <2>4, <2>5
    <3> QED
      BY <1>0, <1>2, <3>1
<1>10. CASE SpeaksOn(vad, now, r) /\ Extends(buffer, now, p)
            /\ MaybeQueuePartial(buffer.active.id, now', "collect") /\ UNCHANGED accepted
  <2> DEFINE frames == Append(buffer.active.frames, now)
             id == buffer.active.id
  <2>1. buffer.active # None /\ buffer.active \in OpenUtterances
    BY <1>3, <1>10 DEF Extends, Buffers
  <2>2. frames \in Seq(Nat) /\ frames # <<>>
    BY <1>3, <2>1, SMTT(30) DEF OpenUtterances
  <2>3. buffer'.active = Buffer!Active(id, frames) /\ vad'.state = "InSpeech" /\ vad'.id = id /\ vad'.next = vad.next
    BY <1>3, <1>4, <1>10, <2>1 DEF Extends, SpeaksOn
  <2>4. id \in 1 .. vad'.next - 1 /\ \A u \in Utterances : accepted[u] # <<>> => u < id
    BY <1>4, <2>1, <2>3
  <2>5. MaybeQueuePartial(id, now', "collect")
    BY <1>10
  <2> HIDE DEF frames, id
  <2> QED
    BY <1>0, <1>2, <1>8, <1>10, <2>2, <2>3, <2>4, <2>5
<1>11. CASE /\ Closes(vad, now, r) /\ Completes(buffer, now, p)
            /\ QueueUtterance(Buffer!Active(buffer.active.id, Append(buffer.active.frames, now)), now', "collect", Abort)
  <2> DEFINE c == Buffer!Active(buffer.active.id, Append(buffer.active.frames, now))
             id == buffer.active.id
  <2>1. buffer.active # None /\ buffer.active \in OpenUtterances
    BY <1>3, <1>11 DEF Completes, Buffers
  <2>2. c.frames \in Seq(Nat) \ {<<>>} /\ c.id = id
    <3>2. Append(buffer.active.frames, now) \in Seq(Nat) \ {<<>>}
      BY <1>3, <2>1, SMTT(30) DEF OpenUtterances
    <3> QED
      BY <3>2 DEF Buffer!Active
  <2>3. id \in Utterances /\ accepted[id] = <<>> /\ id < vad.next
    BY <1>2, <1>4, <2>1, OpenedInTime, SMTT(30) DEF VadInv
  <2>4. QueueUtterance(c, now', "collect", Abort)
    BY <1>11
  <2>5. buffer'.active = None /\ vad'.state = "WaitingForSpeech" /\ vad'.next = vad.next
    BY <1>3, <1>11 DEF Completes, Closes
  <2> HIDE DEF c, id
  <2> DEFINE f == flights[c.id]
             bumped == [f EXCEPT !.revision = @ + 1]
  <2>6. \/ GoOn("collect") /\ UNCHANGED <<flights, accepted, channel>>
        \/ /\ Accepts /\ Flight(c.id, Invalidate(bumped)) /\ Send(Job(c.id, f, TRUE, now'))
           /\ accepted' = [accepted EXCEPT ![c.id] = c.frames] /\ GoOn("collect")
        \/ Flight(c.id, bumped) /\ Abort /\ UNCHANGED <<accepted, channel>>
    BY <2>4 DEF QueueUtterance
  <2>7. Moves /\ (GoOn("collect") \/ Abort)
    BY <1>3, <2>2, <2>3, <2>6, FinalQueued DEF Moves, Untouched
  <2>8. accepted' = accepted \/ accepted' = [accepted EXCEPT ![id] = c.frames]
    BY <2>2, <2>6
  <2>9. accepted' \in [Utterances -> Seq(Nat)] /\ \A u \in Utterances : accepted'[u] # <<>> => u < vad'.next
    BY <1>4, <2>2, <2>3, <2>5, <2>8
  <2> QED
    BY <1>0, <1>2, <1>3, <1>5, <2>5, <2>7, <2>9, AbortEnds, SMTT(30) DEF BufferInv
<1> QED
  BY <1>1, <1>6, <1>7, <1>9, <1>10, <1>11 DEF FrameMove

\* shutdown's flush.
LEMMA FlushStep ==
  ASSUME VadInv, BufferInv, FlightInv, FlushOpen
  PROVE  /\ VadInv' /\ BufferInv' /\ Moves /\ phase = "shutdown" /\ buffer'.active = None
         /\ buffer'.overflow = buffer.overflow
         /\ GoOn("finishing") \/ (phase' = "done" /\ ending' = "refused")
<1> DEFINE p == Buffer!Flush(buffer)
<1>1. /\ phase = "shutdown" /\ buffer' = p.buffer /\ UNCHANGED <<now, vad>>
      /\ IF p.completed = <<>> THEN GoOn("finishing") /\ UNCHANGED <<flights, accepted, channel>>
         ELSE QueueUtterance(Head(p.completed), now, "finishing", phase' = "done" /\ ending' = "refused")
  BY DEF FlushOpen
<1>2. VadInv'
  BY <1>1 DEF VadInv
<1>3. /\ buffer \in Buffers /\ accepted \in [Utterances -> Seq(Nat)] /\ now \in Nat /\ vad \in VadStates
      /\ \A u \in Utterances : accepted[u] # <<>> => u < vad.next /\ (buffer.active # None => u < buffer.active.id)
      /\ buffer.active # None => buffer.active.frames # <<>> /\ buffer.active.id \in 1 .. vad.next - 1
  BY DEF BufferInv, VadInv
<1>4. CASE buffer.active = None
  BY <1>1, <1>2, <1>3, <1>4, SMTT(30) DEF Buffer!Flush, Buffer!Pushed, BufferInv, Flowing, GoOn, Moves,
     Untouched
<1>5. CASE buffer.active # None
  <2> DEFINE c == buffer.active
             id == c.id
  <2>2. buffer' = [buffer EXCEPT !.active = None] /\ p.completed = <<c>>
    BY <1>1, <1>5 DEF Buffer!Pushed, Buffer!Flush, Buffer!Finish
  <2>3. QueueUtterance(c, now, "finishing", phase' = "done" /\ ending' = "refused")
    BY <1>1, <2>2, SMTT(30)
  <2>4. buffer' \in Buffers /\ buffer'.active = None /\ buffer'.overflow = buffer.overflow
    BY <1>3, <2>2 DEF Buffers
  <2>5. c.frames \in Seq(Nat) \ {<<>>}
    BY <1>3, <1>5 DEF Buffers, OpenUtterances
  <2>6. id \in Utterances /\ accepted[id] = <<>> /\ id < vad.next
    BY <1>3, <1>5, OpenedInTime, SMTT(30) DEF VadInv, VadStates
  <2> DEFINE f == flights[c.id]
             bumped == [f EXCEPT !.revision = @ + 1]
  <2>7. \/ GoOn("finishing") /\ UNCHANGED <<flights, accepted, channel>>
        \/ /\ Accepts /\ Flight(c.id, Invalidate(bumped)) /\ Send(Job(c.id, f, TRUE, now))
           /\ accepted' = [accepted EXCEPT ![c.id] = c.frames] /\ GoOn("finishing")
        \/ Flight(c.id, bumped) /\ phase' = "done" /\ ending' = "refused" /\ UNCHANGED <<accepted, channel>>
    BY <2>3 DEF QueueUtterance
  <2>8. GoOn("finishing") \/ (phase' = "done" /\ ending' = "refused")
    BY <2>7
  <2>9. accepted' \in [Utterances -> Seq(Nat)] /\ \A u \in Utterances : accepted'[u] # <<>> => u < vad'.next
    <3>1. accepted' = accepted \/ accepted' = [accepted EXCEPT ![id] = c.frames]
      BY <2>7
    <3> HIDE DEF id, c
    <3> QED
      BY <1>1, <1>3, <2>5, <2>6, <3>1
  <2> HIDE DEF c, id
  <2>10. Moves
    BY <1>3, <2>5, <2>6, <2>7, FinalQueued DEF Moves, Untouched, id
  <2> QED
    BY <1>1, <1>2, <2>4, <2>8, <2>9, <2>10 DEF BufferInv, Flowing, GoOn
<1> QED
  BY <1>4, <1>5

\* The steps that leave the audio alone.
LEMMA AudioFrame ==
  ASSUME VadInv, BufferInv, UNCHANGED <<audio, accepted>>,
         phase' \in {"new", "collect", "apply", "loop", "shutdown", "finishing", "settle", "done"},
         Flowing' => Flowing
  PROVE  VadInv' /\ BufferInv'
BY DEF audio, VadInv, BufferInv

\* The session is closed.
LEMMA AudioClosed ==
  ASSUME VadInv, BufferInv, vad' = VadClose(vad), UNCHANGED <<now, buffer, accepted>>, phase' = "done"
  PROVE  VadInv' /\ BufferInv'
<1>1. vad' \in VadStates /\ vad'.next = vad.next /\ vad'.state = "Closed"
  BY DEF VadInv, VadStates, VadClose
<1> QED
  BY <1>1, Positive, SMTT(30) DEF VadInv, VadStates, InTime, BufferInv, Flowing

-----------------------------------------------------------------------------
(* A result is applied                                                      *)

\* A result came back: nothing but in_flight, the snapshot and what was shown changes.
Keeps(f, g) ==
  /\ g \in Flights /\ ~g.inFlight
  /\ g.finalized = f.finalized /\ g.generation = f.generation /\ g.revision = f.revision

\* The result is shown, a final is counted, ...
Reveals(r) ==
  /\ segments' = [segments EXCEPT ![r.u] = Transcript!Segment(r.revision, r.final)]
  /\ completed' = IF r.final THEN completed + 1 ELSE completed

\* ... or nothing is.
Hides == UNCHANGED <<segments, completed>>

\* A failed result drops the rest, ...
Fails ==
  /\ batch' = <<>> /\ ending' \in {"broken", "returned"} /\ UNCHANGED <<flights, segments, completed, channel>>
  /\ phase' \in {phase, "shutdown", "done"} /\ (phase = "apply" => phase' # "apply")

\* ... a result ends its flight and is shown, or is stale or suppressed, ...
Settles(r) ==
  /\ batch' = Tail(batch) /\ UNCHANGED <<phase, ending, channel>>
  /\ \E g : Keeps(flights[r.u], g) /\ flights' = [flights EXCEPT ![r.u] = g]
  /\ \/ Reveals(r) /\ (flights[r.u].finalized => r.final)
     \/ Hides /\ ~r.final

\* ... and the next partial may follow it.
Follows(r) ==
  /\ ~r.final /\ ~flights[r.u].finalized /\ (Reveals(r) \/ Hides)
  /\ \E f, g :
       /\ Keeps(flights[r.u], f)
       /\ \/ batch' = Tail(batch) /\ UNCHANGED <<phase, ending>> /\ \E job : PartialSent(r.u, f, g, job)
          \/ batch' = <<>> /\ Abort /\ Touched(r.u, f, g)

\* apply_transcription_result, as the flights and the line see it.
ResultMove(r) ==
  /\ batch # <<>> /\ r = Head(batch) /\ UNCHANGED <<accepted, running, results>>
  /\ Fails \/ Settles(r) \/ Follows(r)

\* What is out, before and after a step.
LEMMA OutIsLine ==
  /\ Outstanding = Line(batch, results, running, jobs)
  /\ Outstanding' = Line(batch', results', running', jobs')
BY DEF Outstanding, Line

\* Jobs, results, the batch and the running job are jobs.
Channels ==
  jobs \in Seq(Jobs) /\ results \in Seq(Jobs) /\ batch \in Seq(Jobs) /\ running \in Jobs \cup {None}

\* The first result is of an utterance whose segment it is newer than.
LEMMA FirstIsCurrent ==
  ASSUME Channels, OrderInv, batch # <<>>
  PROVE  /\ Outstanding \in Seq(Jobs) /\ Outstanding # <<>> /\ Head(Outstanding) = Head(batch)
         /\ Head(batch) \in Jobs /\ Current(Head(batch), flights, segments)
<1> DEFINE out == Outstanding
<1>1. out \in Seq(Jobs) /\ out # <<>> /\ Head(out) = Head(batch)
  <2> DEFINE line == Line(batch, results, running, jobs)
  <2>1. out = line
    BY OutIsLine
  <2>2. line \in Seq(Jobs)
    BY LineParts DEF Channels
  <2>3. line # <<>> /\ Head(line) = Head(batch)
    <3>2. Nonempty(line) /\ First(line) = First(batch)
      BY LineApply, SMTT(30) DEF Channels, Nonempty
    <3> QED
      BY <3>2 DEF Nonempty, First
  <2> HIDE DEF line, out
  <2> QED
    BY <2>1, <2>2, <2>3
<1> HIDE DEF out
<1> QED
  BY <1>1, SMTT(30) DEF out, OrderInv, Ordered

\* apply: what is current is never ignored.
LEMMA ShowsCurrent ==
  ASSUME NEW r \in Jobs, Current(r, flights, segments), segments \in SegmentMap,
         NEW suppressed \in BOOLEAN, Show(r, suppressed)
  PROVE  IF suppressed THEN Hides ELSE Reveals(r)
<1> DEFINE s == segments[r.u]
           a == Transcript!Apply(s, r.revision, r.final, FALSE)
<1>1. r.u \in Utterances /\ r.revision \in Nat /\ r.final \in BOOLEAN
  BY DEF Jobs
<1>2. s \in Segments \cup {None} /\ (s # None => ~s.finalized /\ s.revision < r.revision /\ s.revision \in Nat)
  BY <1>1 DEF SegmentMap, Segments, Current
<1>3. a.segment = Transcript!Segment(r.revision, r.final) /\ a.event # "Ignored"
  <2> HIDE DEF s
  <2>1. CASE s = None
    BY <2>1 DEF Transcript!Apply, Transcript!Applied
  <2>2. CASE s # None
    <3>1. ~Transcript!OutOfOrder(s, r.revision, r.final)
      BY <1>1, <1>2, <2>2, SMTT(30) DEF Transcript!OutOfOrder
    <3> QED
      BY <1>2, <2>2, <3>1 DEF Transcript!Apply, Transcript!Applied
  <2> QED
    BY <2>1, <2>2
<1>4. CASE suppressed
  BY <1>4 DEF Show, Hides
<1>5. CASE ~suppressed
  BY <1>3, <1>5 DEF Show, Reveals
<1> QED
  BY <1>4, <1>5

\* The flight of a result that came back.
LEMMA FlightBack ==
  ASSUME NEW f \in Flights
  PROVE  LET back == [f EXCEPT !.inFlight = FALSE]
         IN /\ Keeps(f, back) /\ Keeps(f, [back EXCEPT !.shown = TRUE])
            /\ Keeps(f, [back EXCEPT !.pending = None])
BY DEF Flights, Keeps

\* apply_transcription_result, with the channel open.
LEMMA ApplyMove ==
  ASSUME FlightInv, Channels, OrderInv, NEW suppressed \in BOOLEAN, ApplyResult(suppressed)
  PROVE  ResultMove(Head(batch)) /\ phase = "apply"
<1> DEFINE r == Head(batch)
           f == flights[r.u]
           back == [f EXCEPT !.inFlight = FALSE]
           shown == [back EXCEPT !.shown = TRUE]
<1>1. /\ phase = "apply" /\ batch # <<>> /\ UNCHANGED <<accepted, running, results>>
      /\ suppressed => r.ok /\ ~r.final /\ flights[r.u].shown
      /\ IF ~r.ok
         THEN Abort /\ batch' = <<>> /\ UNCHANGED <<flights, segments, completed, channel>>
         ELSE IF r.final
         THEN /\ Flight(r.u, IF back.finalized THEN [back EXCEPT !.pending = None] ELSE Invalidate(back))
              /\ Show(r, FALSE) /\ GoOn("apply") /\ batch' = Tail(batch) /\ UNCHANGED channel
         ELSE IF Stale(r)
         THEN /\ ~suppressed
              /\ Flight(r.u, back) /\ GoOn("apply") /\ batch' = Tail(batch)
              /\ UNCHANGED <<segments, completed, channel>>
         ELSE /\ QueueNextPartial(r.u, shown, r.end, "apply")
              /\ Show(r, suppressed)
              /\ batch' = IF phase' = "apply" THEN Tail(batch) ELSE <<>>
  BY DEF ApplyResult, thread
<1>2. r \in Jobs /\ Current(r, flights, segments)
  BY <1>1, FirstIsCurrent
<1>3. /\ r.u \in Utterances /\ r.end \in Nat /\ r.final \in BOOLEAN /\ r.generation = 0
      /\ f \in Flights /\ segments \in SegmentMap /\ f.generation = (IF f.finalized THEN 1 ELSE 0)
      /\ r.final => f.finalized
  BY <1>2 DEF Jobs, Current, FlightInv, FlightMap
<1>4. Keeps(f, back) /\ Keeps(f, shown) /\ Keeps(f, [back EXCEPT !.pending = None])
  BY <1>3, FlightBack
<1> DEFINE landed == [back EXCEPT !.pending = None]
<1> HIDE DEF r, f
<1>5. Stale(r) <=> f.finalized
  BY <1>3 DEF Stale, f
<1>6. CASE ~r.ok
  BY <1>1, <1>6, AbortEnds DEF Fails, ResultMove, r
<1>7. CASE r.ok /\ r.final
  <2>1. /\ Flight(r.u, landed) /\ Show(r, FALSE) /\ GoOn("apply") /\ batch' = Tail(batch) /\ UNCHANGED channel
    BY <1>1, <1>3, <1>4, <1>7 DEF Keeps
  <2> HIDE DEF back, landed
  <2>2. Reveals(r)
    BY <1>2, <1>3, <2>1, ShowsCurrent
  <2>3. Settles(r)
    BY <1>1, <1>4, <1>7, <2>1, <2>2 DEF Settles, Flight, GoOn, f, landed
  <2> QED
    BY <1>1, <2>3 DEF ResultMove, r
<1>8. CASE r.ok /\ ~r.final /\ f.finalized
  BY <1>1, <1>4, <1>5, <1>8 DEF Settles, Flight, GoOn, Hides, f, ResultMove, r
<1>9. CASE r.ok /\ ~r.final /\ ~f.finalized
  <2>1. /\ QueueNextPartial(r.u, shown, r.end, "apply") /\ Show(r, suppressed)
        /\ batch' = IF phase' = "apply" THEN Tail(batch) ELSE <<>>
    BY <1>1, <1>5, <1>9
  <2> HIDE DEF back, shown
  <2>2. shown \in Flights /\ Keeps(f, shown)
    BY <1>4 DEF Keeps
  <2>3. PICK g : \/ GoOn("apply") /\ Touched(r.u, shown, g) /\ g = shown
                 \/ Abort /\ Touched(r.u, shown, g) /\ ~shown.finalized
                 \/ GoOn("apply") /\ \E job : PartialSent(r.u, shown, g, job)
    BY <1>1, <1>3, <2>1, <2>2, NextPartial
  <2>4. Reveals(r) \/ Hides
    BY <1>2, <1>3, <2>1, ShowsCurrent
  <2>5. CASE GoOn("apply") /\ Touched(r.u, shown, g) /\ g = shown
    <3>1. phase' = phase /\ ending' = ending /\ batch' = Tail(batch)
      BY <1>1, <2>1, <2>5 DEF GoOn
    <3>2. flights' = [flights EXCEPT ![r.u] = g] /\ UNCHANGED channel
      BY <2>5 DEF Touched, Becomes
    <3>3. Keeps(f, g)
      BY <2>2, <2>5
    <3>4. Settles(r)
      BY <1>9, <2>4, <3>1, <3>2, <3>3 DEF Settles, f
    <3> QED
      BY <1>1, <3>4 DEF ResultMove, r
  <2>6. CASE Abort /\ Touched(r.u, shown, g)
    BY <1>1, <1>9, <2>1, <2>2, <2>4, <2>6, AbortEnds, SMTT(30) DEF Follows, f, ResultMove, r
  <2>7. CASE GoOn("apply") /\ \E job : PartialSent(r.u, shown, g, job)
    <3>1. phase' = phase /\ ending' = ending /\ batch' = Tail(batch)
      BY <1>1, <2>1, <2>7 DEF GoOn
    <3>2. Follows(r)
      BY <1>9, <2>2, <2>4, <2>7, <3>1 DEF Follows, f
    <3> QED
      BY <1>1, <3>2 DEF ResultMove, r
  <2> QED
    BY <2>3, <2>5, <2>6, <2>7
<1> QED
  BY <1>1, <1>6, <1>7, <1>8, <1>9 DEF r

\* apply_transcription_result, for the results that finish returned.
LEMMA SettleMove ==
  ASSUME FlightInv, Channels, OrderInv, NEW suppressed \in BOOLEAN, SettleResult(suppressed)
  PROVE  ResultMove(Head(batch)) /\ phase = "settle" /\ phase' = "settle"
<1> DEFINE r == Head(batch)
           f == flights[r.u]
           back == [f EXCEPT !.inFlight = FALSE]
           shown == [back EXCEPT !.shown = TRUE]
           landed == [back EXCEPT !.pending = None]
<1>1. /\ phase = "settle" /\ batch # <<>> /\ UNCHANGED <<phase, accepted, running, results, channel>>
      /\ IF ~r.ok
         THEN ending' = "broken" /\ batch' = <<>> /\ UNCHANGED <<flights, segments, completed>>
         ELSE /\ UNCHANGED ending /\ batch' = Tail(batch)
              /\ IF r.final
                 THEN /\ Flight(r.u, IF back.finalized THEN landed ELSE Invalidate(back))
                      /\ Show(r, FALSE)
                 ELSE IF Stale(r) THEN Flight(r.u, back) /\ UNCHANGED <<segments, completed>>
                 ELSE Flight(r.u, shown) /\ Show(r, suppressed)
  BY DEF SettleResult, thread
<1>2. r \in Jobs /\ Current(r, flights, segments)
  BY <1>1, FirstIsCurrent
<1>3. /\ r.u \in Utterances /\ r.final \in BOOLEAN /\ r.generation = 0
      /\ f \in Flights /\ segments \in SegmentMap /\ f.generation = (IF f.finalized THEN 1 ELSE 0)
      /\ r.final => f.finalized
  BY <1>2 DEF Jobs, Current, FlightInv, FlightMap
<1>4. Keeps(f, back) /\ Keeps(f, shown) /\ Keeps(f, landed)
  BY <1>3, FlightBack
<1> HIDE DEF r, f
<1>5. Stale(r) <=> f.finalized
  BY <1>3 DEF Stale, f
<1>6. CASE ~r.ok
  BY <1>1, <1>6 DEF Fails, ResultMove, r
<1>7. CASE r.ok
  <2>1. \/ r.final /\ Flight(r.u, landed) /\ Show(r, FALSE)
        \/ ~r.final /\ f.finalized /\ Flight(r.u, back) /\ Hides
        \/ ~r.final /\ ~f.finalized /\ Flight(r.u, shown) /\ Show(r, suppressed)
    BY <1>1, <1>3, <1>4, <1>5, <1>7 DEF Keeps, Hides
  <2>2. batch' = Tail(batch) /\ UNCHANGED <<phase, ending, channel>>
    BY <1>1, <1>7
  <2> HIDE DEF back, shown, landed
  <2>3. ASSUME NEW b \in BOOLEAN, Show(r, b) PROVE IF b THEN Hides ELSE Reveals(r)
    BY <1>2, <1>3, <2>3, ShowsCurrent
  <2>4. /\ \E g : Keeps(f, g) /\ flights' = [flights EXCEPT ![r.u] = g]
        /\ \/ Reveals(r) /\ (f.finalized => r.final)
           \/ Hides /\ ~r.final
    BY <1>4, <2>1, <2>3 DEF Flight
  <2>5. Settles(r)
    BY <2>2, <2>4 DEF Settles, f
  <2> QED
    BY <1>1, <2>5 DEF ResultMove, r
<1> QED
  BY <1>1, <1>6, <1>7 DEF r

=============================================================================
