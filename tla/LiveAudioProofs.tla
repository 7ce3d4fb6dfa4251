-------------------------- MODULE LiveAudioProofs --------------------------
(***************************************************************************)
(* The audio of LivePipeline: the buffer has room for it and keeps what is *)
(* spoken, for every VAD configuration and every length of audio.          *)
(***************************************************************************)
EXTENDS LiveStepProofs, TLAPS

\* Most leaves are first-order and left to Zenon; those with arithmetic cite SMT.
USE Zenon

-----------------------------------------------------------------------------
(* The room in the buffer                                                   *)

\* A frame fits in the longest utterance, or the defaults make up for it.
Roomy ==
  \/ FrameMs <= MaxUtteranceMs
  \/ PreRollMs + 3 * FrameMs <= DefaultMaxFrames * FrameMs /\ 3 * FrameMs <= SlackMs

\* One frame more.
LEMMA OneMore == ASSUME NEW k \in Int, NEW f \in Nat PROVE (k + 1) * f = k * f + f /\ k * f \in Int
BY SMTT(30)

\* The pre-roll's last frame is not in full.
LEMMA PreRollLasts ==
  /\ PreRollFrames \in Nat
  /\ \A k \in Nat : k * FrameMs < PreRollMs => k + 1 <= PreRollFrames
  /\ PreRollFrames * FrameMs <= PreRollMs + FrameMs
  /\ PreRollMs > 0 => PreRollFrames * FrameMs < PreRollMs + FrameMs
  /\ PreRollMs = 0 => PreRollFrames = 0
BY Positive, Quotient, OneMore, SMTT(30) DEF PreRollFrames

\* A count fits when its milliseconds do, and either the frames derived from
\* the VAD's limits or the default ones are as many.
LEMMA FitsWhen ==
  ASSUME NEW c \in Nat, c * FrameMs <= LiveMaxMs, c <= FramesNeeded \/ c <= DefaultMaxFrames
  PROVE  Buffer!Fits(c)
BY Positive, LiveAssumption, SMTT(30) DEF FramesNeeded, Buffer!Fits, LiveMaxFrames

\* Two frames more than the frames that fit in the limits are derived.
LEMMA Derived ==
  ASSUME NEW k \in Nat, k * FrameMs <= MaxUtteranceMs + PreRollMs
  PROVE  k + 2 <= FramesNeeded /\ FramesNeeded \in Int
<1> DEFINE h == MaxUtteranceMs + PreRollMs
           d == h \div FrameMs
<1>1. h \in Nat
  BY Positive, SMTT(30)
<1>2. k * FrameMs <= h
  OBVIOUS
<1> HIDE DEF h
<1>3. k <= h \div FrameMs
  BY <1>1, <1>2, Divides, Positive
<1> HIDE DEF d
<1> QED
  BY <1>1, <1>3, Positive, SMTT(30) DEF d, FramesNeeded, h

\* What is already less fits.
LEMMA FitsLess == ASSUME NEW c \in Nat, NEW d \in Nat, c <= d, Buffer!Fits(d) PROVE Buffer!Fits(c)
BY Monotone, Positive, LiveAssumption, SMTT(30) DEF FramesNeeded, LiveMaxFrames, LiveMaxMs, Buffer!Fits

\* The pre-roll and two frames fit, ...
LEMMA RoomAtFirst == ASSUME Roomy PROVE Buffer!Fits(PreRollFrames + 2)
BY Positive, PreRollLasts, LiveAssumption, Derived, FitsWhen, SMTT(30) DEF LiveMaxMs, Roomy

\* ... and so do the pre-roll, the speech within the limit and one frame.
LEMMA RoomLater ==
  ASSUME NEW m \in Nat, m * FrameMs < MaxUtteranceMs
  PROVE  Buffer!Fits(m + PreRollFrames + 1)
<1> DEFINE q == PreRollFrames
           f == FrameMs
           c == m + q + 1
<1>1. /\ q \in Nat /\ f \in Nat \ {0} /\ q * f \in Int /\ q * f <= PreRollMs + f
      /\ {MaxUtteranceMs, PreRollMs, SlackMs} \subseteq Nat /\ 2 * f <= SlackMs
  BY Positive, PreRollLasts, LiveAssumption, SMTT(30)
<1>2. c \in Nat /\ c * f = m * f + q * f + f /\ m * f \in Nat
  BY <1>1, SMTT(30)
<1>4. c <= FramesNeeded
  BY <1>1, <1>2, Derived, SMTT(30)
<1> QED
  BY <1>1, <1>2, <1>4, FitsWhen, SMTT(30) DEF LiveMaxMs

-----------------------------------------------------------------------------
(* The frames held                                                          *)

\* Frames without a gap that reach up to t.
Recent(frames, t) == \A i \in 1 .. Len(frames) : frames[i] = t - (Len(frames) - i + 1) * FrameMs

\* The pre-roll covers the speech that opens an utterance.
Wide == PreRollMs + FrameMs >= SpeechStartMs

\* The length of k frames.
Ms(k) == k * FrameMs

\* The length of a run of frames grows with it.
LEMMA Lengths ==
  /\ \A k \in Nat : Ms(k) \in Nat /\ (Ms(k) = 0 <=> k = 0)
  /\ \A k, n \in Nat : n = k + 1 => Ms(n) = Ms(k) + FrameMs
  /\ \A k, n \in Nat : k <= n => Ms(k) <= Ms(n)
BY Positive, SMTT(30) DEF Ms

\* While nobody speaks: k frames of speech in a row, all of them among the n
\* of the pre-roll if it is wide enough.
Heard(v, n, t) ==
  \E k \in Nat : /\ v.speech = Ms(k)
                 /\ k > 0 => v.candidate = t - Ms(k)
                 /\ Wide => k <= n

Listens(v, b, t) ==
  /\ Recent(b.preRoll, t) /\ Len(b.preRoll) <= PreRollFrames
  /\ v.speech < SpeechStartMs /\ Heard(v, Len(b.preRoll), t)

\* While someone speaks: m frames since the start, all of them among the n
\* held if the pre-roll was wide enough, and at most a pre-roll less than n.
Spoken(v, n, t) ==
  \E m \in Nat \ {0} : /\ v.start = t - Ms(m)
                       /\ Wide => m <= n
                       /\ n <= m + PreRollFrames
                       /\ Ms(m) < MaxUtteranceMs \/ n <= PreRollFrames + 1

Speaks(v, b, t) ==
  /\ Recent(b.active.frames, t) /\ b.preRoll = <<>>
  /\ v.state = "InSpeech" /\ v.id = b.active.id
  /\ Spoken(v, Len(b.active.frames), t)

\* Frames reach up to t with the one that ends there.
LEMMA RecentMore ==
  ASSUME NEW s \in Seq(Nat), NEW t \in Nat, Recent(s, t)
  PROVE  Recent(Append(s, t), t + FrameMs)
<1> DEFINE w == Append(s, t)
           l == Len(s)
<1>1. l \in Nat /\ Len(w) = l + 1 /\ w[l + 1] = t /\ \A i \in 1 .. l : w[i] = s[i]
  BY SMTT(30)
<1>2. \A i \in 1 .. l : s[i] = t - (l - i + 1) * FrameMs
  BY DEF Recent
<1> HIDE DEF w, l
<1>3. ASSUME NEW i \in 1 .. Len(w) PROVE w[i] = (t + FrameMs) - (Len(w) - i + 1) * FrameMs
  <2> DEFINE k == l - i + 1
             j == Len(w) - i + 1
  <2> SUFFICES w[i] = (t + FrameMs) - j * FrameMs
    OBVIOUS
  <2>2. CASE i = l + 1
    BY <1>1, <2>2, Positive, SMTT(30)
  <2>3. CASE i # l + 1
    BY <1>1, <1>2, <1>3, <2>3, OneMore, Positive, SMTT(30)
  <2> QED
    BY <2>2, <2>3
<1> QED
  BY <1>3 DEF w, Recent

\* The end of such frames is such.
LEMMA RecentLess ==
  ASSUME NEW s \in Seq(Nat), NEW t \in Nat, Recent(s, t), NEW r \in Seq(Nat), Len(r) <= Len(s),
         \A i \in 1 .. Len(r) : r[i] = s[Len(s) - Len(r) + i]
  PROVE  Recent(r, t)
BY SMTT(30) DEF Recent

\* push_pre_roll and trim_pre_roll keep the pre-roll up to date.
LEMMA PreRollMore ==
  ASSUME NEW s \in Seq(Nat), NEW t \in Nat, Recent(s, t), Len(s) <= PreRollFrames
  PROVE  LET frames == IF PreRollMs = 0 THEN <<>> ELSE Buffer!TrimPreRoll(Append(s, t))
         IN /\ frames \in Seq(Nat) /\ Recent(frames, t + FrameMs)
            /\ Len(frames) <= PreRollFrames /\ Len(frames) <= Len(s) + 1
            /\ Len(frames) = PreRollFrames \/ Len(frames) = Len(s) + 1
<1> DEFINE frames == IF PreRollMs = 0 THEN <<>> ELSE Buffer!TrimPreRoll(Append(s, t))
<1>0. PreRollFrames \in Nat /\ (PreRollMs = 0 => PreRollFrames = 0)
  BY PreRollLasts
<1>1. CASE PreRollMs = 0
  BY <1>0, <1>1, SMTT(30) DEF Recent, frames
<1>2. CASE PreRollMs # 0
  <2> DEFINE w == Append(s, t)
             r == Buffer!TrimPreRoll(w)
             n == IF Len(w) <= PreRollFrames THEN Len(w) ELSE PreRollFrames
             u == t + FrameMs
  <2>1. w \in Seq(Nat) /\ w # <<>> /\ Len(w) = Len(s) + 1
    BY SMTT(30)
  <2>2. Recent(w, u)
    BY RecentMore
  <2>u. u \in Nat
    BY Positive, SMTT(30)
  <2> HIDE DEF w, u
  <2>3. /\ r \in Seq(Nat) /\ Len(r) = n /\ n \in 1 .. Len(w)
        /\ \A i \in 1 .. n : r[i] = w[Len(w) - n + i]
    BY <1>2, <2>1, Trimmed
  <2>4. Len(r) <= Len(w) /\ \A i \in 1 .. Len(r) : r[i] = w[Len(w) - Len(r) + i]
    BY <2>1, <2>3, SMTT(30)
  <2>5. frames = r
    BY <1>2 DEF w
  <2>6. Len(r) <= PreRollFrames /\ Len(r) <= Len(s) + 1 /\ (Len(r) = PreRollFrames \/ Len(r) = Len(s) + 1)
    BY <1>0, <2>1, <2>3, SMTT(30)
  <2> HIDE DEF r, n, frames
  <2>7. Recent(r, u)
    BY <2>1, <2>2, <2>3, <2>4, <2>u, RecentLess
  <2> QED
    BY <2>3, <2>5, <2>6, <2>7 DEF frames, u
<1> QED
  BY <1>1, <1>2

\* A frame nobody speaks in, or not long enough.
LEMMA ListensOn ==
  ASSUME NEW v \in VadStates, NEW b \in Buffers, NEW t \in Nat, NEW r, NEW p,
         Listens(v, b, t), WaitsOn(v, t, r), Waits(b, t, p)
  PROVE  Listens(r.vad, p.buffer, t + FrameMs) /\ Len(p.buffer.preRoll) <= Len(b.preRoll) + 1
<1> DEFINE s == b.preRoll
           frames == p.buffer.preRoll
           f == FrameMs
<1>1. s \in Seq(Nat) /\ Recent(s, t) /\ Len(s) <= PreRollFrames /\ Len(s) \in Nat
  BY SMTT(30) DEF Buffers, Listens
<1>3. /\ frames \in Seq(Nat) /\ Recent(frames, t + f)
      /\ Len(frames) <= PreRollFrames /\ Len(frames) <= Len(s) + 1
      /\ Len(frames) = PreRollFrames \/ Len(frames) = Len(s) + 1
  BY <1>1, PreRollMore DEF Waits
<1> HIDE DEF frames
<1>4. PICK k \in Nat : /\ v.speech = Ms(k)
                       /\ k > 0 => v.candidate = t - Ms(k)
                       /\ Wide => k <= Len(s)
  BY DEF Listens, Heard
<1>p. f \in Nat \ {0} /\ SpeechStartMs \in Nat \ {0} /\ PreRollMs \in Nat /\ Len(frames) \in Nat
  BY <1>3, Positive, SMTT(30)
<1>5. CASE r.vad.speech = 0
  <2>2. r.vad.speech < SpeechStartMs /\ Heard(r.vad, Len(frames), t + f)
    BY <1>p, <1>5, Lengths, SMTT(30) DEF Heard
  <2> QED
    BY <1>3, <2>2 DEF Listens, frames
<1>6. CASE /\ r.vad.speech = v.speech + f /\ v.speech + f < SpeechStartMs
           /\ r.vad.candidate = (IF v.speech = 0 THEN t ELSE v.candidate)
  <2> DEFINE n == k + 1
  <2>0. n \in Nat /\ n = k + 1
    BY <1>4, SMTT(30)
  <2> HIDE DEF n
  <2>1. Ms(n) = Ms(k) + f /\ Ms(k) \in Nat
    BY <1>4, <1>p, <2>0, Lengths
  <2>2. (k = 0 => v.speech = 0) /\ (k # 0 => v.speech # 0)
    BY <1>4, Lengths
  <2>3. r.vad.candidate = t - Ms(k)
    <3>1. CASE k = 0
      BY <1>6, <1>p, <2>1, <2>2, <3>1, Lengths, SMTT(30)
    <3>2. CASE k # 0
      BY <1>4, <1>6, <2>2, <3>2, SMTT(30)
    <3> QED
      BY <3>1, <3>2
  <2>4. Wide => n <= Len(frames)
    <3>1. CASE Len(frames) = Len(s) + 1
      BY <1>1, <1>4, <2>0, <3>1, SMTT(30)
    <3>2. CASE Len(frames) = PreRollFrames
      BY <1>p, <1>4, <1>6, <2>0, <2>1, <3>2, PreRollLasts, SMTT(30) DEF Wide, Ms
    <3> QED
      BY <1>3, <3>1, <3>2
  <2> HIDE DEF s
  <2> QED
    BY <1>p, <1>3, <1>4, <1>6, <2>0, <2>1, <2>3, <2>4, SMTT(30) DEF Listens, frames, s, Heard
<1> QED
  BY <1>3, <1>5, <1>6 DEF WaitsOn, frames

\* The frame that opens an utterance.
LEMMA SpeaksUp ==
  ASSUME NEW v \in VadStates, NEW b \in Buffers, NEW t \in Nat, NEW r, NEW p,
         Listens(v, b, t), Opens(v, t, r), Starts(b, t, v.next, p)
  PROVE  /\ Speaks(r.vad, p.buffer, t + FrameMs)
         /\ p.buffer.active.frames = Append(b.preRoll, t)
<1> DEFINE s == b.preRoll
           frames == p.buffer.active.frames
           f == FrameMs
<1>1. s \in Seq(Nat) /\ Recent(s, t) /\ Len(s) <= PreRollFrames /\ Len(s) \in Nat
  BY SMTT(30) DEF Buffers, Listens
<1>2. frames = Append(s, t) /\ p.buffer.preRoll = <<>> /\ p.buffer.active.id = v.next
  BY SMTT(30) DEF Starts, Buffer!Active
<1>3. Len(frames) = Len(s) + 1 /\ Recent(frames, t + f)
  BY <1>1, <1>2, RecentMore, SMTT(30)
<1>4. PICK k \in Nat : /\ v.speech = Ms(k)
                       /\ k > 0 => v.candidate = t - Ms(k)
                       /\ Wide => k <= Len(s)
  BY DEF Listens, Heard
<1>p. f \in Nat \ {0} /\ PreRollFrames \in Nat
  BY Positive, PreRollLasts
<1> HIDE DEF frames
<1> DEFINE n == k + 1
<1>0. n \in Nat \ {0} /\ n = k + 1
  BY <1>4, SMTT(30)
<1> HIDE DEF n
<1>5. n \in Nat \ {0} /\ Ms(n) = Ms(k) + f /\ Ms(k) \in Nat
  BY <1>0, <1>4, <1>p, Lengths
<1>6. (k = 0 => v.speech = 0) /\ (k # 0 => v.speech # 0)
  BY <1>4, Lengths
<1>7. r.vad.start = t - Ms(k)
  <2>1. CASE k = 0
    BY <1>p, <1>6, <2>1, Lengths, SMTT(30) DEF Opens
  <2>2. CASE k # 0
    BY <1>4, <1>6, <2>2, SMTT(30) DEF Opens
  <2> QED
    BY <2>1, <2>2
<1> HIDE DEF s
<1>10. Spoken(r.vad, Len(frames), t + f)
  BY <1>p, <1>0, <1>1, <1>3, <1>4, <1>5, <1>7, SMTT(30) DEF Spoken
<1> QED
  BY <1>2, <1>3, <1>10 DEF Speaks, frames, s, Opens

\* A frame of the open utterance.
LEMMA SpeaksMore ==
  ASSUME NEW v \in VadStates, NEW b \in Buffers, NEW t \in Nat, NEW r, NEW p, b.active # None,
         Speaks(v, b, t), SpeaksOn(v, t, r), Extends(b, t, p)
  PROVE  /\ Speaks(r.vad, p.buffer, t + FrameMs)
         /\ p.buffer.active.frames = Append(b.active.frames, t)
<1> DEFINE s == b.active.frames
           frames == p.buffer.active.frames
           f == FrameMs
<1>1. s \in Seq(Nat) /\ Recent(s, t) /\ Len(s) \in Nat
  BY SMTT(30) DEF Buffers, OpenUtterances, Speaks
<1>2. frames = Append(s, t) /\ p.buffer.preRoll = <<>> /\ p.buffer.active.id = b.active.id
  BY SMTT(30) DEF Extends, Buffer!Active, Speaks
<1>3. Len(frames) = Len(s) + 1 /\ Recent(frames, t + f)
  BY <1>1, <1>2, RecentMore, SMTT(30)
<1>4. PICK k \in Nat \ {0} : /\ v.start = t - Ms(k)
                             /\ Wide => k <= Len(s)
                             /\ Len(s) <= k + PreRollFrames
  BY DEF Speaks, Spoken
<1>p. f \in Nat \ {0} /\ PreRollFrames \in Nat /\ MaxUtteranceMs \in Nat
  BY Positive, PreRollLasts
<1> HIDE DEF frames
<1> DEFINE n == k + 1
<1>0. n \in Nat \ {0} /\ n = k + 1
  BY <1>4, SMTT(30)
<1> HIDE DEF n
<1>5. n \in Nat \ {0} /\ Ms(n) = Ms(k) + f /\ Ms(k) \in Nat
  BY <1>0, <1>4, <1>p, Lengths
<1>7. r.vad.start = (t + f) - Ms(n) /\ Ms(n) < MaxUtteranceMs
  BY <1>p, <1>4, <1>5, SMTT(30) DEF SpeaksOn
<1>8. (Wide => n <= Len(frames)) /\ Len(frames) <= n + PreRollFrames
  BY <1>0, <1>1, <1>3, <1>4, <1>p, SMTT(30)
<1> HIDE DEF s
<1> QED
  BY <1>2, <1>3, <1>5, <1>7, <1>8 DEF Speaks, frames, s, SpeaksOn, Spoken

\* The next frame fits.
LEMMA SpeaksFits ==
  ASSUME Roomy, NEW v \in VadStates, NEW b \in Buffers, NEW t \in Nat, b.active # None, Speaks(v, b, t)
  PROVE  Buffer!Fits(Len(b.active.frames) + 1)
<1> DEFINE n == Len(b.active.frames)
           q == PreRollFrames
<1>1. n \in Nat /\ q \in Nat
  BY PreRollLasts, SMTT(30) DEF Buffers, OpenUtterances
<1>2. PICK m \in Nat : n <= m + q /\ (m * FrameMs < MaxUtteranceMs \/ n <= q + 1)
  BY DEF Speaks, Spoken, Ms
<1> HIDE DEF n, q
<1>3. CASE m * FrameMs < MaxUtteranceMs
  <2>1. Buffer!Fits(m + q + 1)
    BY <1>3, RoomLater DEF q
  <2>2. n + 1 <= m + q + 1 /\ {n + 1, m + q + 1} \subseteq Nat
    BY <1>1, <1>2, SMTT(30)
  <2> QED
    BY <2>1, <2>2, FitsLess DEF n
<1>4. CASE n <= q + 1
  <2>1. n + 1 <= q + 2 /\ {n + 1, q + 2} \subseteq Nat
    BY <1>1, <1>4, SMTT(30)
  <2> QED
    BY <2>1, RoomAtFirst, FitsLess DEF n, q
<1> QED
  BY <1>2, <1>3, <1>4

\* No frame overflows the buffer while nobody speaks.
LEMMA ListensFits ==
  ASSUME Roomy, NEW v \in VadStates, NEW b \in Buffers, NEW t \in Nat, Listens(v, b, t)
  PROVE  /\ Buffer!Fits(Len(b.preRoll) + 1)
         /\ LET frames == IF PreRollMs = 0 THEN <<>> ELSE Buffer!TrimPreRoll(Append(b.preRoll, t))
            IN Buffer!Fits(Len(frames))
BY PreRollLasts, RoomAtFirst, PreRollMore, FitsLess, SMTT(30) DEF Buffers, Listens

\* Where the frames begin and end.
LEMMA RecentEnds ==
  ASSUME NEW s \in Seq(Nat), s # <<>>, NEW t \in Nat, Recent(s, t)
  PROVE  s[1] = t - Ms(Len(s)) /\ s[Len(s)] = t - FrameMs /\ Consecutive(s)
<1> DEFINE l == Len(s)
<1>1. l \in Nat \ {0} /\ FrameMs \in Nat
  BY Positive, SMTT(30)
<1>2. \A i \in 1 .. l : s[i] = t - (l - i + 1) * FrameMs
  BY DEF Recent
<1> HIDE DEF l
<1>5. ASSUME NEW i \in 1 .. l - 1 PROVE s[i + 1] = s[i] + FrameMs
  BY <1>1, <1>2, <1>5, OneMore, SMTT(30)
<1> QED
  BY <1>1, <1>2, <1>5, SMTT(30) DEF Consecutive, l, Ms

-----------------------------------------------------------------------------
(* The audio of the utterances                                              *)

\* The last frame.
Latest(s) == s[Len(s)]

\* The utterances accepted do not overlap, ...
InTurn(acc) ==
  \A u, w \in Utterances : u < w /\ acc[u] # <<>> /\ acc[w] # <<>> => Latest(acc[u]) < acc[w][1]

\* ... and were over before the last n frames up to t.
Over(acc, n, t) == \A u \in Utterances : acc[u] # <<>> => Latest(acc[u]) + Ms(n) < t

\* The audio held.
Held(b) == IF b.active = None THEN b.preRoll ELSE b.active.frames

AudioInv ==
  /\ ~buffer.overflow
  /\ Flowing /\ buffer.active = None => Listens(vad, buffer, now)
  /\ buffer.active # None => phase \notin {"finishing", "settle"} /\ Speaks(vad, buffer, now)
  /\ InTurn(accepted)
  /\ Flowing \/ buffer.active # None => Over(accepted, Len(Held(buffer)), now)

\* One more utterance that begins after the others.
LEMMA InTurnMore ==
  ASSUME NEW acc \in [Utterances -> Seq(Nat)], InTurn(acc), NEW id, NEW s,
         \A u \in Utterances : acc[u] # <<>> => u < id /\ Latest(acc[u]) < s[1]
  PROVE  InTurn([acc EXCEPT ![id] = s])
BY Positive, SMTT(30) DEF Utterances, InTurn

\* Time goes on, a frame at a time, ...
LEMMA OverOn ==
  ASSUME NEW acc \in [Utterances -> Seq(Nat)], NEW n \in Nat, NEW m \in Nat, m <= n + 1, NEW t \in Nat,
         Over(acc, n, t)
  PROVE  Over(acc, m, t + FrameMs)
<1> DEFINE k == n + 1
<1>0. k \in Nat /\ k = n + 1 /\ m <= k
  BY SMTT(30)
<1> HIDE DEF k
<1>1. Ms(m) <= Ms(n) + FrameMs /\ {Ms(m), Ms(n), FrameMs} \subseteq Nat
  <2>1. Ms(k) = Ms(n) + FrameMs /\ Ms(m) <= Ms(k)
    BY <1>0, Lengths
  <2> QED
    BY <2>1, Lengths, Positive, SMTT(30)
<1>2. ASSUME NEW u \in Utterances, acc[u] # <<>> PROVE Latest(acc[u]) + Ms(m) < t + FrameMs
  BY <1>1, <1>2, SMTT(30) DEF Latest, Over
<1> QED
  BY <1>2 DEF Over

\* ... and one more utterance is over.
LEMMA OverMore ==
  ASSUME NEW acc \in [Utterances -> Seq(Nat)], NEW n \in Nat, NEW t \in Nat, Over(acc, n, t),
         NEW id, NEW s, NEW e \in Nat, t <= e, Latest(s) < e, Latest(s) \in Nat
  PROVE  Over([acc EXCEPT ![id] = s], 0, e) /\ Over(acc, 0, e)
<1> DEFINE new == [acc EXCEPT ![id] = s]
<1>1. Ms(n) \in Nat /\ Ms(0) = 0
  BY Lengths
<1>2. ASSUME NEW u \in Utterances, acc[u] # <<>> PROVE Latest(acc[u]) + Ms(0) < e
  BY <1>1, <1>2, SMTT(30) DEF Latest, Over
<1>3. ASSUME NEW u \in Utterances, new[u] # <<>> PROVE Latest(new[u]) + Ms(0) < e
  BY <1>1, <1>2, <1>3, SMTT(30)
<1> HIDE DEF new
<1> QED
  BY <1>2, <1>3 DEF new, Over

\* What the session does with an open utterance's snapshot leaves the audio.
LEMMA SnapshotGoesOn ==
  ASSUME NEW u, NEW end, MaybeQueuePartial(u, end, "collect")
  PROVE  phase' \in {"collect", "shutdown", "done"}
BY DEF MaybeQueuePartial, QueueNextPartial, GoOn, Abort

\* queue_utterance takes the audio or drops it.
LEMMA FinalTaken ==
  ASSUME NEW c, NEW end, NEW next, NEW Refused, QueueUtterance(c, end, next, Refused)
  PROVE  accepted' = accepted \/ accepted' = [accepted EXCEPT ![c.id] = c.frames]
BY DEF QueueUtterance

\* Nothing of the audio changes.
LEMMA AudioStays ==
  ASSUME AudioInv, UNCHANGED <<buffer, now, accepted>>, Flowing' => Flowing, buffer.active # None \/ Flowing' => vad' = vad,
         buffer.active # None => phase' \notin {"finishing", "settle"}
  PROVE  AudioInv'
BY DEF AudioInv

\* The frames held, and where they begin.
LEMMA OpenHeld ==
  ASSUME VadInv, BufferInv, AudioInv, buffer.active # None
  PROVE  LET s == buffer.active.frames IN
         /\ s \in Seq(Nat) /\ s # <<>> /\ Len(s) \in Nat /\ Held(buffer) = s
         /\ s[1] = now - Ms(Len(s)) /\ Latest(s) = now - FrameMs /\ Consecutive(s)
         /\ Over(accepted, Len(s), now)
         /\ \A u \in Utterances : accepted[u] # <<>> => u < buffer.active.id /\ Latest(accepted[u]) < s[1]
<1> DEFINE s == buffer.active.frames
<1>1. s \in Seq(Nat) /\ s # <<>> /\ Len(s) \in Nat /\ Held(buffer) = s /\ now \in Nat
  BY SMTT(30) DEF BufferInv, VadInv, Buffers, OpenUtterances, Held
<1>2. Recent(s, now) /\ Over(accepted, Len(s), now)
  BY <1>1 DEF AudioInv, Speaks
<1> HIDE DEF s
<1>3. s[1] = now - Ms(Len(s)) /\ Latest(s) = now - FrameMs /\ Consecutive(s)
  BY <1>1, <1>2, RecentEnds DEF Latest
<1>4. ASSUME NEW u \in Utterances, accepted[u] # <<>> PROVE u < buffer.active.id /\ Latest(accepted[u]) < s[1]
  <2>4. Ms(Len(s)) \in Nat
    BY <1>1, Lengths
  <2> QED
    BY <1>1, <1>2, <1>3, <1>4, <2>4, SMTT(30) DEF Latest, BufferInv, Over
<1> QED
  BY <1>1, <1>2, <1>3, <1>4 DEF s

\* process_frame.
LEMMA AudioFrames ==
  ASSUME Roomy, VadInv, BufferInv, AudioInv, NEW speech \in BOOLEAN, ProcessFrame(speech)
  PROVE  AudioInv'
<1>1. PICK r, p : FrameMove(r, p)
  BY FrameMoves
<1>2. /\ phase = "loop" /\ Flowing /\ vad \in VadStates /\ buffer \in Buffers /\ now \in Nat
      /\ accepted \in [Utterances -> Seq(Nat)]
  BY FrameMoves DEF Flowing, VadInv, BufferInv
<1>3. /\ vad' = r.vad /\ buffer' = p.buffer /\ now' = now + FrameMs /\ vad' \in VadStates /\ buffer' \in Buffers
      /\ now' \in Nat
  BY <1>1, <1>2, Positive, SMTT(30) DEF FrameMove
<1>4. InTurn(accepted) /\ Over(accepted, Len(Held(buffer)), now) /\ ~buffer.overflow
  BY <1>2 DEF AudioInv
<1>5. CASE buffer.active = None
  <2>1. Listens(vad, buffer, now) /\ Held(buffer) = buffer.preRoll /\ Len(buffer.preRoll) \in Nat
    BY <1>2, <1>5, SMTT(30) DEF AudioInv, Held, Buffers
  <2>3. ASSUME WaitsOn(vad, now, r), Waits(buffer, now, p), GoOn("collect"), Untouched PROVE AudioInv'
    <3>1. Listens(vad', buffer', now') /\ Len(buffer'.preRoll) <= Len(buffer.preRoll) + 1
      BY <1>2, <1>3, <2>1, <2>3, ListensOn
    <3>2. buffer'.active = None /\ ~buffer'.overflow /\ accepted' = accepted
      BY <1>3, <1>4, <2>3 DEF Waits, Untouched
    <3>3. Held(buffer') = buffer'.preRoll /\ Len(buffer'.preRoll) \in Nat
      BY <1>3, <3>2, SMTT(30) DEF Held, Buffers
    <3> QED
      BY <1>2, <1>3, <1>4, <2>1, <3>1, <3>2, <3>3, OverOn DEF AudioInv
  <2>4. ASSUME Opens(vad, now, r), Starts(buffer, now, vad.next, p), MaybeQueuePartial(vad.next, now', "collect"), UNCHANGED accepted
        PROVE  AudioInv'
    <3> DEFINE s == buffer'.active.frames
    <3>1. Speaks(vad', buffer', now') /\ s = Append(buffer.preRoll, now)
      BY <1>2, <1>3, <2>1, <2>4, SpeaksUp, SMTT(30)
    <3>3. buffer'.active # None
      <4>3. buffer'.active \in OpenUtterances
        BY <1>2, <1>3, <2>4, SMTT(30) DEF OpenUtterances, Buffer!Active, Starts, Buffers, VadStates
      <4> QED
        BY <4>3, NoneIsNone
    <3>4. Held(buffer') = s /\ Len(s) = Len(buffer.preRoll) + 1 /\ Len(s) \in Nat
      BY <1>2, <3>1, <3>3, SMTT(30) DEF Held, Buffers
    <3>5. Over(accepted, Len(s), now')
      BY <1>2, <1>3, <1>4, <2>1, <3>4, OverOn, SMTT(30)
    <3> HIDE DEF s
    <3> QED
      BY <1>3, <1>4, <2>4, <3>1, <3>3, <3>4, <3>5, SnapshotGoesOn DEF AudioInv, Starts
  <2> QED
    BY <1>1, <1>2, <1>5, <2>1, <2>3, <2>4, ListensFits DEF FrameMove, Extends, Completes, Overfull
<1>6. CASE buffer.active # None
  <2>1. Speaks(vad, buffer, now)
    BY <1>6 DEF AudioInv
  <2> DEFINE s == buffer.active.frames
  <2>2. /\ s \in Seq(Nat) /\ s # <<>> /\ Len(s) \in Nat
        /\ Over(accepted, Len(s), now)
        /\ \A u \in Utterances : accepted[u] # <<>> => u < buffer.active.id /\ Latest(accepted[u]) < s[1]
    BY <1>6, OpenHeld
  <2>3. ~Overfull(r)
    BY <1>2, <1>6, <2>1, SpeaksFits DEF Overfull
  <2>4. ASSUME SpeaksOn(vad, now, r), Extends(buffer, now, p), MaybeQueuePartial(buffer.active.id, now', "collect"), UNCHANGED accepted
        PROVE  AudioInv'
    <3> DEFINE w == buffer'.active.frames
    <3>1. Speaks(vad', buffer', now') /\ w = Append(s, now)
      BY <1>2, <1>3, <1>6, <2>1, <2>4, SpeaksMore, SMTT(30)
    <3>3. buffer'.active # None
      <4>3. buffer'.active \in OpenUtterances
        BY <1>2, <1>3, <1>6, <2>2, <2>4, SMTT(30) DEF OpenUtterances, Buffer!Active, Extends, Buffers
      <4> QED
        BY <4>3, NoneIsNone
    <3>4. Held(buffer') = w /\ Len(w) = Len(s) + 1 /\ Len(w) \in Nat
      BY <1>2, <2>2, <3>1, <3>3, SMTT(30) DEF Held
    <3>5. Over(accepted, Len(w), now')
      BY <1>2, <1>3, <2>2, <3>4, OverOn, SMTT(30)
    <3> HIDE DEF w
    <3> QED
      BY <1>3, <1>4, <2>4, <3>1, <3>3, <3>4, <3>5, SnapshotGoesOn DEF AudioInv, Extends
  <2>5. ASSUME Closes(vad, now, r), Completes(buffer, now, p),
               QueueUtterance(Buffer!Active(buffer.active.id, Append(buffer.active.frames, now)), now', "collect", Abort)
        PROVE  AudioInv'
    <3> DEFINE w == Append(s, now)
    <3>1. w \in Seq(Nat) /\ w[1] = s[1] /\ Latest(w) = now
      BY <1>2, <2>2, SMTT(30) DEF Latest
    <3>2. /\ buffer'.active = None /\ ~buffer'.overflow /\ buffer'.preRoll = <<>>
          /\ vad'.speech = 0
      BY <1>3, <1>4, <2>1, <2>5 DEF Completes, Closes, Speaks
    <3>4. accepted' = accepted \/ accepted' = [accepted EXCEPT ![buffer.active.id] = w]
      BY <2>5, FinalTaken, SMTT(30) DEF Buffer!Active
    <3> HIDE DEF w, s
    <3>5. InTurn(accepted')
      <4>1. \A u \in Utterances : accepted[u] # <<>> => u < buffer.active.id /\ Latest(accepted[u]) < w[1]
        BY <2>2, <3>1
      <4>2. InTurn([accepted EXCEPT ![buffer.active.id] = w])
        BY <1>2, <1>4, <4>1, InTurnMore
      <4> QED
        BY <1>4, <3>4, <4>2
    <3>6. Over(accepted', 0, now')
      <4>1. Latest(w) < now' /\ Latest(w) \in Nat /\ now <= now'
        BY <1>2, <1>3, <3>1, Positive, SMTT(30)
      <4> DEFINE n == Len(s)
      <4>2. n \in Nat /\ Over(accepted, n, now)
        BY <2>2 DEF s
      <4> HIDE DEF n
      <4>3. Over([accepted EXCEPT ![buffer.active.id] = w], 0, now') /\ Over(accepted, 0, now')
        BY <1>2, <1>3, <4>1, <4>2, OverMore
      <4> QED
        BY <3>4, <4>3
    <3> QED
      BY <3>2, <3>5, <3>6, PreRollLasts, Lengths, Positive, SMTT(30) DEF AudioInv, Recent, Heard, Listens,
         Held
  <2> QED
    BY <1>1, <1>6, <2>3, <2>4, <2>5 DEF FrameMove, Waits, Starts
<1> QED
  BY <1>5, <1>6

\* shutdown flushes the open utterance.
LEMMA AudioFlushed ==
  ASSUME VadInv, BufferInv, AudioInv, FlushOpen
  PROVE  AudioInv'
<1> DEFINE p == Buffer!Flush(buffer)
           Refused == phase' = "done" /\ ending' = "refused"
<1>1. /\ phase = "shutdown" /\ buffer' = p.buffer
      /\ IF p.completed = <<>>
         THEN GoOn("finishing") /\ UNCHANGED <<flights, accepted, channel>>
         ELSE QueueUtterance(Head(p.completed), now, "finishing", Refused)
  BY DEF FlushOpen
<1>2. InTurn(accepted) /\ ~buffer.overflow /\ accepted \in [Utterances -> Seq(Nat)] /\ buffer \in Buffers
  BY DEF AudioInv, BufferInv
<1>3. CASE buffer.active = None
  BY <1>1, <1>2, <1>3 DEF Buffer!Flush, Buffer!Pushed, GoOn, AudioInv, Flowing
<1>4. CASE buffer.active # None
  <2> DEFINE c == buffer.active
  <2>1. /\ buffer' = [buffer EXCEPT !.active = None]
        /\ QueueUtterance(c, now, "finishing", Refused)
    BY <1>1, <1>4, SMTT(30) DEF Buffer!Flush, Buffer!Finish, Buffer!Pushed
  <2>3. phase' \in {"finishing", "done"}
    BY <2>1 DEF QueueUtterance, GoOn
  <2> HIDE DEF Refused
  <2>4. accepted' = accepted \/ accepted' = [accepted EXCEPT ![c.id] = c.frames]
    BY <2>1 DEF QueueUtterance
  <2>6. InTurn([accepted EXCEPT ![c.id] = c.frames])
    <3> DEFINE id == c.id
               s == c.frames
    <3>1. \A u \in Utterances : accepted[u] # <<>> => u < id /\ Latest(accepted[u]) < s[1]
      BY <1>4, OpenHeld
    <3> HIDE DEF id, s
    <3>2. InTurn([accepted EXCEPT ![id] = s])
      BY <1>2, <3>1, InTurnMore
    <3> QED
      BY <3>2 DEF id, s
  <2>7. InTurn(accepted')
    BY <1>2, <2>4, <2>6
  <2> QED
    BY <1>2, <2>1, <2>3, <2>7 DEF AudioInv, Flowing, Buffers
<1> QED
  BY <1>3, <1>4

\* Every step.
LEMMA AudioStep ==
  ASSUME Roomy, VadInv, BufferInv, AudioInv, [Next]_vars
  PROVE  AudioInv'
<1>0. buffer.active # None => phase \notin {"finishing", "settle"}
  BY DEF AudioInv
<1>1. CASE UNCHANGED vars
  BY <1>0, <1>1, AudioStays DEF vars, audio, Flowing
<1>2. CASE Worker
  BY <1>0, <1>2, AudioStays DEF Worker, Take, Deliver, Fail, Panic, Exit, main, audio, Flowing
<1>3. CASE Start \/ VadFails \/ Collect \/ Drained \/ Idle \/ Leave
  BY <1>3, AudioStays DEF Start, VadFails, Collect, Drained, Idle, Leave, audio, Abort, Flowing
<1>4. CASE FlushOpen
  BY <1>4, AudioFlushed
<1>5. CASE FinishReceive \/ FinishJoin
  BY <1>0, <1>5, AudioStays DEF FinishReceive, FinishJoin, audio, Flowing
<1>6. CASE FinishFails \/ Close
  BY <1>0, <1>6, AudioStays DEF FinishFails, Close, Flowing
<1>7. ASSUME NEW b \in BOOLEAN, ApplyResult(b) PROVE AudioInv'
  <2>2. phase' \notin {"finishing", "settle"}
    <3>1. phase' \in {"apply", "shutdown", "done"}
      BY <1>7 DEF ApplyResult, QueueNextPartial, GoOn, Abort
    <3> QED
      BY <3>1
  <2> QED
    BY <1>7, <2>2, AudioStays DEF ApplyResult, audio, Flowing
<1>8. ASSUME NEW b \in BOOLEAN, SettleResult(b) PROVE AudioInv'
  BY <1>0, <1>8, AudioStays DEF SettleResult, audio, Flowing
<1>9. ASSUME NEW b \in BOOLEAN, ProcessFrame(b) PROVE AudioInv'
  BY <1>9, AudioFrames
<1> QED
  BY <1>1, <1>2, <1>3, <1>4, <1>5, <1>6, <1>7, <1>8, <1>9 DEF Next, Main

\* At the start.
LEMMA AudioStarts == Init => AudioInv
BY PreRollLasts, Lengths, Positive, SMTT(30) DEF Init, Buffer!BufferNew, VadNew, Recent, Heard, Listens,
   InTurn, Over, AudioInv

\* What the audio's invariant says of an utterance.
LEMMA AudioKept == ASSUME VadInv, BufferInv, AudioInv PROVE SpeechIsKept
<1>1. ASSUME buffer.active # None
      PROVE  LET frames == buffer.active.frames
             IN /\ Consecutive(frames) /\ frames[Len(frames)] = now - FrameMs
                /\ vad.state = "InSpeech" /\ vad.id = buffer.active.id
                /\ PreRollMs + FrameMs >= SpeechStartMs => frames[1] <= vad.start
                /\ \A u \in Utterances : accepted[u] # <<>> => accepted[u][Len(accepted[u])] < frames[1]
  <2> DEFINE s == buffer.active.frames
  <2>1. /\ Len(s) \in Nat /\ s[1] = now - Ms(Len(s)) /\ Latest(s) = now - FrameMs /\ Consecutive(s)
        /\ \A u \in Utterances : accepted[u] # <<>> => Latest(accepted[u]) < s[1]
    BY <1>1, OpenHeld
  <2>2. Speaks(vad, buffer, now)
    BY <1>1 DEF AudioInv
  <2>3. PICK m \in Nat \ {0} : vad.start = now - Ms(m) /\ (Wide => m <= Len(s))
    BY <2>2 DEF Speaks, Spoken
  <2>4. Wide => s[1] <= vad.start
    <3> DEFINE n == Len(s)
    <3>1. n \in Nat /\ s[1] = now - Ms(n) /\ (Wide => m <= n) /\ now \in Nat
      BY <2>1, <2>3 DEF VadInv
    <3> HIDE DEF n, s
    <3>2. Ms(n) \in Nat /\ Ms(m) \in Nat /\ (Wide => Ms(m) <= Ms(n))
      BY <2>3, <3>1, Lengths
    <3> QED
      BY <2>3, <3>1, <3>2, SMTT(30)
  <2> QED
    BY <2>1, <2>2, <2>4 DEF Speaks, Wide, Latest
<1> QED
  BY <1>1 DEF SpeechIsKept, InTurn, Latest, AudioInv

=============================================================================
