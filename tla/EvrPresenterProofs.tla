------------------------- MODULE EvrPresenterProofs -------------------------
(* The samples of EvrPresenter: where they are, and in which order.          *)
EXTENDS EvrPresenter, FiniteSetTheorems, TLAPS

-----------------------------------------------------------------------------
(* The inductive invariant *)

\* The operations that wait for the scheduler's thread to flush.
FlushWaits == {"flush", "seek", "retype", "retypeLoop", "untype"}

\* The samples the thread has not let go of.
Scheduled == SetOf(queue) \cup SetOf(hand)

\* The thread, its handle and its hand.
ThreadInv ==
  /\ handle <=> thread # "none"
  /\ ~handle => queue = <<>> /\ messages = <<>>
  /\ IF thread = "presenting" THEN \E s \in Samples : hand = <<s>> ELSE hand = <<>>

\* No two samples hold one frame, and each is in one place.
SamplesInv ==
  /\ \A i, j \in DOMAIN queue : i < j => queue[i].frame < queue[j].frame
  /\ SetOf(queue) \cap SetOf(hand) = {}
  /\ Scheduled \cap released = {} /\ IsFiniteSet(released)
  /\ \A s \in Outstanding : s.frame <= mixed /\ s.token <= token

\* The pool has what is not outstanding; without a pool nothing outstanding is
\* of the present batch.
PoolInv ==
  /\ token <= calls
  /\ ready => free + pending = Buffers
  /\ ~ready => free = 0 /\ pending = 0
  /\ IF ready /\ doing \notin {"retype", "retypeLoop", "untype"}
     THEN pending = Cardinality({s \in Outstanding : Fresh(s)})
     ELSE \A s \in Outstanding : ~Fresh(s)

\* The end of the stream is announced until it is reported, and the mixer is
\* asked until it has no more.
EndInv ==
  /\ ending => completes = 0
  /\ ~notify => mixed = inputs

NoFlush(q) == \A i \in DOMAIN q : q[i] # "flush"

OneFlush(q) ==
  \A i, j \in DOMAIN q : q[i] = "flush" /\ q[j] = "flush" => i = j

\* What is scheduled is behind what was shown and what was flushed.
Ahead ==
  /\ shown <= mixed
  /\ \A i \in DOMAIN queue : queue[i].frame > shown /\ queue[i].frame > boundary

\* While nobody waits for a flush the thread knows of none, and a frame that is
\* to be shown at once after a flush finds nothing scheduled.
Quiet ==
  Alive /\ doing \notin FlushWaits =>
    ~flushed /\ NoFlush(messages) /\ (~prerolled => queue = <<>>)

\* The event is set for the flush that is waited for, which leaves nothing.
Flushing ==
  Alive /\ doing \in FlushWaits =>
    /\ flushed <=> NoFlush(messages)
    /\ OneFlush(messages)
    /\ flushed => queue = <<>> /\ hand = <<>>

AllFresh ==
  Alive /\ doing \notin {"retype", "retypeLoop", "untype"} => \A s \in Scheduled : Fresh(s)

\* All this while no flush was given up.
OrderInv == ~gaveUp => Ahead /\ Quiet /\ Flushing /\ AllFresh

IInv == TypeOK /\ ThreadInv /\ SamplesInv /\ PoolInv /\ EndInv /\ OrderInv

-----------------------------------------------------------------------------
(* Sequences as sets *)

LEMMA SetOfEmpty == SetOf(<<>>) = {}
BY DEF SetOf

LEMMA SetOfOne == \A s : SetOf(<<s>>) = {s}
BY DEF SetOf

\* A sample at the end of a sequence.
LEMMA AppendFacts ==
  ASSUME NEW q \in Seq(Samples), NEW s \in Samples
  PROVE  /\ SetOf(Append(q, s)) = SetOf(q) \cup {s}
         /\ Append(q, s) \in Seq(Samples) /\ Len(q) \in Nat
         /\ DOMAIN q = 1..Len(q) /\ DOMAIN Append(q, s) = 1..Len(q) + 1
         /\ \A i \in 1..Len(q) : Append(q, s)[i] = q[i]
         /\ Append(q, s)[Len(q) + 1] = s
<1> DEFINE r == Append(q, s)
<1>1. /\ r \in Seq(Samples) /\ Len(q) \in Nat
      /\ DOMAIN q = 1..Len(q) /\ DOMAIN r = 1..Len(q) + 1
      /\ \A i \in 1..Len(q) : r[i] = q[i]
      /\ r[Len(q) + 1] = s
  OBVIOUS
<1> HIDE DEF r
<1>2. SetOf(r) \subseteq SetOf(q) \cup {s}
  <2> SUFFICES ASSUME NEW i \in DOMAIN r PROVE r[i] \in SetOf(q) \cup {s}
    BY DEF SetOf
  <2>1. i \in 1..Len(q) \/ i = Len(q) + 1 BY <1>1
  <2>2. QED BY <1>1, <2>1 DEF SetOf
<1>3. SetOf(q) \cup {s} \subseteq SetOf(r)
  <2>1. s \in SetOf(r)
    <3>1. Len(q) + 1 \in DOMAIN r BY <1>1
    <3>2. QED BY <1>1, <3>1 DEF SetOf
  <2>2. ASSUME NEW i \in DOMAIN q PROVE q[i] \in SetOf(r)
    <3>1. i \in DOMAIN r /\ r[i] = q[i] BY <1>1
    <3>2. QED BY <3>1 DEF SetOf
  <2>3. QED BY <2>1, <2>2 DEF SetOf
<1>4. QED BY <1>1, <1>2, <1>3 DEF r

\* A sample taken from the front of a sequence.
LEMMA TailFacts ==
  ASSUME NEW q \in Seq(Samples), q # <<>>
  PROVE  /\ SetOf(q) = {Head(q)} \cup SetOf(Tail(q))
         /\ Tail(q) \in Seq(Samples) /\ Len(q) \in Nat /\ Len(q) >= 1
         /\ DOMAIN q = 1..Len(q) /\ DOMAIN Tail(q) = 1..Len(q) - 1
         /\ \A i \in 1..Len(q) - 1 : Tail(q)[i] = q[i + 1]
         /\ Head(q) = q[1] /\ Head(q) \in Samples
<1> DEFINE r == Tail(q)
<1>1. /\ r \in Seq(Samples) /\ Len(q) \in Nat /\ Len(q) >= 1
      /\ DOMAIN q = 1..Len(q) /\ DOMAIN r = 1..Len(q) - 1
      /\ \A i \in 1..Len(q) - 1 : r[i] = q[i + 1]
      /\ Head(q) = q[1] /\ q[1] \in Samples
  OBVIOUS
<1> HIDE DEF r
<1>2. SetOf(q) \subseteq {q[1]} \cup SetOf(r)
  <2> SUFFICES ASSUME NEW i \in DOMAIN q, i # 1 PROVE q[i] \in SetOf(r)
    BY DEF SetOf
  <2>1. i - 1 \in DOMAIN r /\ r[i - 1] = q[(i - 1) + 1] /\ (i - 1) + 1 = i
    BY <1>1
  <2>2. QED BY <2>1 DEF SetOf
<1>3. {q[1]} \cup SetOf(r) \subseteq SetOf(q)
  <2>1. q[1] \in SetOf(q)
    <3>1. 1 \in DOMAIN q BY <1>1
    <3>2. QED BY <3>1 DEF SetOf
  <2>2. ASSUME NEW i \in DOMAIN r PROVE r[i] \in SetOf(q)
    <3>1. i + 1 \in DOMAIN q /\ r[i] = q[i + 1] BY <1>1
    <3>2. QED BY <3>1 DEF SetOf
  <2>3. QED BY <2>1, <2>2 DEF SetOf
<1>4. QED BY <1>1, <1>2, <1>3 DEF r

\* The samples of a sequence are finite in number; if no two are alike there are
\* as many as it is long.
LEMMA SetOfFinite ==
  ASSUME NEW q \in Seq(Samples)
  PROVE  /\ IsFiniteSet(SetOf(q))
         /\ (\A i, j \in DOMAIN q : q[i] = q[j] => i = j) =>
              Cardinality(SetOf(q)) = Len(q)
<1> DEFINE T == SetOf(q)
           f == [i \in 1..Len(q) |-> q[i]]
<1>1. Len(q) \in Nat /\ DOMAIN q = 1..Len(q) OBVIOUS
<1>2. T = {q[i] : i \in 1..Len(q)} BY <1>1 DEF SetOf
<1>3. IsFiniteSet(1..Len(q)) /\ Cardinality(1..Len(q)) = Len(q)
  BY <1>1, FS_Interval, SMTT(30)
<1>4. f \in Surjection(1..Len(q), T)
  BY <1>2 DEF Surjection
<1>5. IsFiniteSet(T)
  BY <1>3, <1>4, FS_Surjection
<1>6. ASSUME \A i, j \in DOMAIN q : q[i] = q[j] => i = j
      PROVE  Cardinality(T) = Len(q)
  <2>1. f \in Injection(1..Len(q), T)
    <3>1. f \in [1..Len(q) -> T] BY <1>4 DEF Surjection
    <3>2. \A i, j \in 1..Len(q) : f[i] = f[j] => i = j BY <1>1, <1>6
    <3>3. QED BY <3>1, <3>2 DEF Injection, IsInjective
  <2>2. Cardinality(T) = Cardinality(1..Len(q))
    BY <1>3, <1>4, <2>1, FS_Surjection
  <2>3. QED BY <1>3, <2>2
<1>7. QED BY <1>5, <1>6
-----------------------------------------------------------------------------
(* The order of the frames, and where the samples are *)

\* What a step can do to the samples.
Rests == UNCHANGED <<queue, hand, released, mixed>>

Drops ==
  /\ queue' = <<>> /\ released' = released \cup SetOf(queue)
  /\ UNCHANGED <<hand, mixed, token>>

Takes ==
  /\ queue # <<>> /\ hand = <<>>
  /\ hand' = <<Head(queue)>> /\ queue' = Tail(queue)
  /\ UNCHANGED <<released, mixed, token>>

LetsGo ==
  /\ hand' = <<>> /\ released' = released \cup SetOf(hand)
  /\ UNCHANGED <<queue, mixed, token>>

Adds ==
  /\ NewSample \in Samples
  /\ queue' = Append(queue, NewSample)
  /\ mixed' = mixed + 1 /\ UNCHANGED <<hand, released, token>>

Shows ==
  /\ NewSample \in Samples
  /\ released' = released \cup {NewSample}
  /\ mixed' = mixed + 1 /\ UNCHANGED <<queue, hand, token>>

GivesBack ==
  /\ \E s \in released : released' = released \ {s}
  /\ UNCHANGED <<queue, hand, mixed, token>>

\* Every step does one of these, and the token never goes back.
LEMMA StepKinds ==
  ASSUME TypeOK, ThreadInv, [Next]_vars
  PROVE  /\ Rests \/ Drops \/ Takes \/ LetsGo \/ Adds \/ Shows \/ GivesBack
         /\ token' \in {token, token + 1}
<1> USE DEF vars, schedulerVars, threadVars, presenterVars, batchVars, poolVars,
            mixerVars, streamVars
<1>1. CASE Thread /\ UNCHANGED presenterVars
  <2>1. token' = token /\ mixed' = mixed BY <1>1
  <2>2. CASE WakeForMessage \/ WakeForSample \/ NoMessage \/ ThreadExits
    BY <2>1, <2>2 DEF WakeForMessage, WakeForSample, NoMessage, ThreadExits, Rests
  <2>3. CASE HandleTerminate \/ HandleSchedule
    BY <2>1, <2>3 DEF HandleTerminate, HandleSchedule, Rests
  <2>4. CASE HandleFlush BY <2>1, <2>4 DEF HandleFlush, Drops
  <2>5. CASE NoSample \/ SampleEarly \/ SampleAlmostDue
    BY <2>1, <2>5 DEF NoSample, SampleEarly, SampleAlmostDue, Looks, Rests
  <2>6. CASE SampleDue
    <3>1. hand = <<>> BY <2>6 DEF SampleDue, Looks, ThreadInv
    <3>2. QED BY <2>1, <2>6, <3>1 DEF SampleDue, Looks, Takes
  <2>7. CASE Presented \/ PresentFails
    BY <2>1, <2>7 DEF Presented, PresentFails, LetsGo
  <2>8. QED
    BY <1>1, <2>1, <2>2, <2>3, <2>4, <2>5, <2>6, <2>7 DEF Thread
<1>2. CASE Continue
  <2>1. CASE NoOutput \/ OutOfInput
    BY <2>1 DEF NoOutput, OutOfInput, Rests
  <2>2. CASE ProcessOutput
    <3>1. NewSample \in Samples
      <4>1. mixed < inputs /\ mixed \in Nat /\ inputs \in 0..MaxFrames
            /\ token \in 0..MaxCalls
        BY <2>2, PresenterAssumption DEF ProcessOutput, TypeOK
      <4>2. mixed + 1 \in 1..MaxFrames BY <4>1, PresenterAssumption
      <4>3. QED BY <4>1, <4>2 DEF NewSample, Samples
    <3>2. QED
      BY <2>2, <3>1 DEF ProcessOutput, Schedule, PresentNow, CannotSchedule, Adds, Shows
  <2>3. CASE Flushed \/ Sought
    BY <2>3 DEF Flushed, Sought, FlushDone, FlushWaited, Rests
  <2>4. CASE Untyped \/ Retyped
    BY <2>4 DEF Untyped, Retyped, FlushDone, FlushWaited, Rests
  <2>5. CASE Stopped BY <2>5 DEF Stopped, Terminated, Drops
  <2>6. QED BY <1>2, <2>1, <2>2, <2>3, <2>4, <2>5 DEF Continue
<1>3. CASE StreamChange \/ TypeNotSet
  BY <1>3 DEF StreamChange, TypeNotSet, BeginReleaseResources, BeginFlush, AskToFlush, Rests
<1>31. CASE MixerFails BY <1>31 DEF MixerFails, Rests
<1>4. CASE \E s \in released : OnSampleFree(s)
  BY <1>4 DEF OnSampleFree, GivesBack
<1>5. CASE Calls
  <2>1. CASE ProcessInputNotify \/ EndOfStream
    BY <2>1 DEF ProcessInputNotify, EndOfStream, Rests
  <2>2. CASE FlushMessage \/ ClockStop \/ Seek
    BY <2>2 DEF FlushMessage, ClockStop, Seek, Call, BeginFlush, AskToFlush, Rests
  <2>3. CASE RenegotiateMediaType
    BY <2>3 DEF RenegotiateMediaType, Call, BeginReleaseResources, BeginFlush,
                AskToFlush, Rests
  <2>4. CASE BeginStreaming \/ EndStreaming
    BY <2>4 DEF BeginStreaming, EndStreaming, Call, StartScheduler, AskToTerminate,
                Rests
  <2>5. CASE ClockStart \/ ClockPause
    BY <2>5 DEF ClockStart, ClockPause, Call, Rests
  <2>6. QED BY <1>5, <2>1, <2>2, <2>3, <2>4, <2>5 DEF Calls
<1>6. CASE UNCHANGED vars BY <1>6 DEF Rests
<1>7. QED BY <1>1, <1>2, <1>3, <1>31, <1>4, <1>5, <1>6 DEF Next

\* The new sample is none of those there are.
LEMMA NewIsNew ==
  ASSUME TypeOK, SamplesInv
  PROVE  /\ NewSample \notin Outstanding
         /\ NewSample.frame = mixed + 1 /\ NewSample.token = token
<1>1. NewSample.frame = mixed + 1 /\ NewSample.token = token BY DEF NewSample
<1>2. mixed \in Nat BY DEF TypeOK
<1>3. ASSUME NewSample \in Outstanding PROVE FALSE
  <2>1. mixed + 1 <= mixed BY <1>1, <1>3 DEF SamplesInv
  <2>2. QED BY <1>2, <2>1
<1>4. QED BY <1>1, <1>3

\* Where a sample goes when it moves.
LEMMA SampleMoves ==
  ASSUME TypeOK, SamplesInv
  PROVE  /\ Drops \/ Takes \/ LetsGo => Outstanding' = Outstanding
         /\ Adds \/ Shows => Outstanding' = Outstanding \cup {NewSample}
<1>1. ASSUME Drops PROVE Outstanding' = Outstanding
  BY <1>1, SetOfEmpty DEF Drops, Outstanding
<1>2. ASSUME Takes PROVE Outstanding' = Outstanding
  <2>1. SetOf(queue) = {Head(queue)} \cup SetOf(Tail(queue))
    BY <1>2, TailFacts DEF Takes, TypeOK
  <2>2. SetOf(hand) = {} /\ SetOf(hand)' = {Head(queue)}
    BY <1>2, SetOfEmpty, SetOfOne DEF Takes
  <2>3. SetOf(queue)' = SetOf(Tail(queue)) /\ released' = released
    BY <1>2 DEF Takes
  <2>4. QED BY <2>1, <2>2, <2>3 DEF Outstanding
<1>3. ASSUME LetsGo PROVE Outstanding' = Outstanding
  BY <1>3, SetOfEmpty DEF LetsGo, Outstanding
<1>4. ASSUME Adds PROVE Outstanding' = Outstanding \cup {NewSample}
  <2>1. SetOf(queue)' = SetOf(queue) \cup {NewSample}
    BY <1>4, AppendFacts DEF Adds, TypeOK
  <2>2. QED BY <1>4, <2>1 DEF Adds, Outstanding
<1>5. ASSUME Shows PROVE Outstanding' = Outstanding \cup {NewSample}
  BY <1>5 DEF Shows, Outstanding
<1>6. QED BY <1>1, <1>2, <1>3, <1>4, <1>5

LEMMA SamplesStep ==
  ASSUME TypeOK, ThreadInv, SamplesInv, [Next]_vars
  PROVE  SamplesInv'
<1>1. token \in Nat /\ token' \in {token, token + 1} /\ token' \in Nat
      /\ mixed \in Nat
  BY StepKinds DEF TypeOK
<1> DEFINE Known(S) == \A s \in S : s.frame <= mixed /\ s.token <= token
           Rising(q) == \A i, j \in DOMAIN q : i < j => q[i].frame < q[j].frame
<1>2. IsFiniteSet(SetOf(queue)) /\ IsFiniteSet(SetOf(hand))
  BY SetOfFinite DEF TypeOK
<1>3. \A s \in Samples : s.frame \in Nat /\ s.token \in Nat
  BY DEF Samples
<1>4. Outstanding \subseteq Samples
  BY DEF Outstanding, SetOf, TypeOK
<1>5. CASE Rests
  BY <1>1, <1>3, <1>4, <1>5 DEF Rests, SamplesInv, Scheduled, Outstanding
<1>6. CASE Drops
  <2>1. Outstanding' = Outstanding BY <1>6, SampleMoves
  <2>2. IsFiniteSet(released') BY <1>2, <1>6, FS_Union DEF Drops, SamplesInv
  <2>3. SetOf(queue)' = {} BY <1>6, SetOfEmpty DEF Drops
  <2>4. Rising(queue)' BY <1>6 DEF Drops
  <2>5. QED BY <1>6, <2>1, <2>2, <2>3, <2>4 DEF Drops, SamplesInv, Scheduled
<1>7. CASE Takes
  <2>1. Outstanding' = Outstanding BY <1>7, SampleMoves
  <2> DEFINE r == Tail(queue)
  <2>2. /\ SetOf(queue) = {Head(queue)} \cup SetOf(r)
        /\ Len(queue) \in Nat /\ Len(queue) >= 1
        /\ DOMAIN queue = 1..Len(queue) /\ DOMAIN r = 1..Len(queue) - 1
        /\ \A i \in 1..Len(queue) - 1 : r[i] = queue[i + 1]
        /\ Head(queue) = queue[1]
    BY <1>7, TailFacts DEF Takes, TypeOK
  <2>3. SetOf(hand) = {} /\ SetOf(hand)' = {Head(queue)} /\ SetOf(queue)' = SetOf(r)
    BY <1>7, SetOfEmpty, SetOfOne DEF Takes
  <2> HIDE DEF r
  <2>4. Rising(r)
    <3> SUFFICES ASSUME NEW i \in DOMAIN r, NEW j \in DOMAIN r, i < j
                 PROVE  r[i].frame < r[j].frame
      OBVIOUS
    <3>1. /\ i + 1 \in DOMAIN queue /\ j + 1 \in DOMAIN queue /\ i + 1 < j + 1
          /\ r[i] = queue[i + 1] /\ r[j] = queue[j + 1]
      BY <2>2
    <3>2. queue[i + 1].frame < queue[j + 1].frame BY <3>1 DEF SamplesInv
    <3>3. QED BY <3>1, <3>2
  <2>5. Head(queue) \notin SetOf(r)
    <3> SUFFICES ASSUME NEW i \in DOMAIN r, r[i] = Head(queue) PROVE FALSE
      BY DEF SetOf
    <3>1. i + 1 \in DOMAIN queue /\ 1 \in DOMAIN queue /\ 1 < i + 1
          /\ queue[i + 1] = queue[1]
      BY <2>2
    <3>2. queue[1].frame < queue[i + 1].frame BY <3>1 DEF SamplesInv
    <3>3. queue[1].frame \in Nat BY <1>3, <3>1 DEF TypeOK
    <3>4. QED BY <3>1, <3>2, <3>3
  <2>6. Scheduled' = Scheduled BY <2>2, <2>3 DEF Scheduled
  <2>7. queue' = r /\ released' = released BY <1>7 DEF Takes, r
  <2>8. QED
    BY <1>7, <2>1, <2>3, <2>4, <2>5, <2>6, <2>7 DEF Takes, SamplesInv
<1>8. CASE LetsGo
  <2>1. Outstanding' = Outstanding BY <1>8, SampleMoves
  <2>2. IsFiniteSet(released') BY <1>2, <1>8, FS_Union DEF LetsGo, SamplesInv
  <2>3. SetOf(hand)' = {} BY <1>8, SetOfEmpty DEF LetsGo
  <2>4. QED BY <1>8, <2>1, <2>2, <2>3 DEF LetsGo, SamplesInv, Scheduled
<1>9. CASE Adds
  <2> DEFINE r == Append(queue, NewSample)
  <2>1. Outstanding' = Outstanding \cup {NewSample} BY <1>9, SampleMoves
  <2>2. /\ SetOf(r) = SetOf(queue) \cup {NewSample} /\ Len(queue) \in Nat
        /\ DOMAIN queue = 1..Len(queue) /\ DOMAIN r = 1..Len(queue) + 1
        /\ \A i \in 1..Len(queue) : r[i] = queue[i]
        /\ r[Len(queue) + 1] = NewSample
    BY <1>9, AppendFacts DEF Adds, TypeOK
  <2>3. queue' = r /\ hand' = hand /\ released' = released /\ token' = token
        /\ mixed' = mixed + 1
    BY <1>9 DEF Adds
  <2> HIDE DEF r
  <2>4. Rising(r)
    <3> SUFFICES ASSUME NEW i \in DOMAIN r, NEW j \in DOMAIN r, i < j
                 PROVE  r[i].frame < r[j].frame
      OBVIOUS
    <3>1. i \in DOMAIN queue /\ r[i] = queue[i] BY <2>2
    <3>2. CASE j = Len(queue) + 1
      <4>1. queue[i] \in Outstanding BY <3>1 DEF Outstanding, SetOf
      <4>2. queue[i].frame <= mixed /\ queue[i].frame \in Nat
        BY <1>3, <1>4, <4>1 DEF SamplesInv
      <4>3. QED BY <1>1, <2>2, <3>1, <3>2, <4>2, NewIsNew
    <3>3. CASE j # Len(queue) + 1
      <4>1. j \in DOMAIN queue /\ r[j] = queue[j] BY <2>2, <3>3
      <4>2. QED BY <3>1, <4>1 DEF SamplesInv
    <3>4. QED BY <3>2, <3>3
  <2>5. Known(Outstanding)'
    BY <1>1, <1>3, <1>4, <2>1, <2>3, NewIsNew DEF SamplesInv
  <2>6. QED
    BY <2>2, <2>3, <2>4, <2>5, NewIsNew DEF SamplesInv, Scheduled, Outstanding
<1>10. CASE Shows
  <2>1. Outstanding' = Outstanding \cup {NewSample} BY <1>10, SampleMoves
  <2>2. queue' = queue /\ hand' = hand /\ released' = released \cup {NewSample}
        /\ token' = token /\ mixed' = mixed + 1
    BY <1>10 DEF Shows
  <2>3. IsFiniteSet(released') BY <2>2, FS_AddElement DEF SamplesInv
  <2>4. Known(Outstanding)'
    BY <1>1, <1>3, <1>4, <2>1, <2>2, NewIsNew DEF SamplesInv
  <2>5. QED
    BY <2>2, <2>3, <2>4, NewIsNew DEF SamplesInv, Scheduled, Outstanding
<1>11. CASE GivesBack
  <2>1. released' \subseteq released BY <1>11 DEF GivesBack
  <2>2. IsFiniteSet(released') BY <2>1, FS_Subset DEF SamplesInv
  <2>3. QED BY <1>11, <2>1, <2>2 DEF GivesBack, SamplesInv, Scheduled, Outstanding
<1>12. QED
  BY <1>5, <1>6, <1>7, <1>8, <1>9, <1>10, <1>11, StepKinds

-----------------------------------------------------------------------------
(* The thread *)

LEMMA ThreadStep ==
  ASSUME TypeOK, ThreadInv, [Next]_vars
  PROVE  ThreadInv'
<1> USE DEF vars, schedulerVars, threadVars, presenterVars, batchVars, poolVars,
            mixerVars, streamVars, ThreadInv
<1>1. CASE Thread /\ UNCHANGED presenterVars
  <2>1. CASE WakeForMessage \/ WakeForSample \/ NoMessage \/ ThreadExits
    BY <2>1 DEF WakeForMessage, WakeForSample, NoMessage, ThreadExits
  <2>2. CASE HandleTerminate \/ HandleSchedule \/ HandleFlush
    BY <2>2 DEF HandleTerminate, HandleSchedule, HandleFlush, Peek
  <2>3. CASE NoSample \/ SampleEarly \/ SampleAlmostDue
    BY <2>3 DEF NoSample, SampleEarly, SampleAlmostDue, Looks
  <2>4. CASE SampleDue
    <3>1. Head(queue) \in Samples BY <2>4, TailFacts DEF SampleDue, Looks, TypeOK
    <3>2. QED BY <2>4, <3>1 DEF SampleDue, Looks
  <2>5. CASE Presented \/ PresentFails
    BY <2>5 DEF Presented, PresentFails
  <2>6. QED BY <1>1, <2>1, <2>2, <2>3, <2>4, <2>5 DEF Thread
<1>2. CASE Continue
  <2>1. CASE NoOutput \/ OutOfInput BY <2>1 DEF NoOutput, OutOfInput
  <2>2. CASE ProcessOutput
    BY <2>2 DEF ProcessOutput, Schedule, PresentNow, CannotSchedule, Alive
  <2>3. CASE Flushed \/ Sought \/ Untyped \/ Retyped
    BY <2>3 DEF Flushed, Sought, Untyped, Retyped, FlushDone, FlushWaited
  <2>4. CASE Stopped BY <2>4 DEF Stopped, Terminated
  <2>5. QED BY <1>2, <2>1, <2>2, <2>3, <2>4 DEF Continue
<1>3. CASE StreamChange \/ TypeNotSet
  BY <1>3 DEF StreamChange, TypeNotSet, BeginReleaseResources, BeginFlush, AskToFlush, Posted,
              Alive
<1>31. CASE MixerFails BY <1>31 DEF MixerFails
<1>4. CASE \E s \in released : OnSampleFree(s)
  BY <1>4 DEF OnSampleFree
<1>5. CASE Calls
  <2>1. CASE ProcessInputNotify \/ EndOfStream
    BY <2>1 DEF ProcessInputNotify, EndOfStream
  <2>2. CASE FlushMessage \/ ClockStop \/ Seek
    BY <2>2 DEF FlushMessage, ClockStop, Seek, BeginFlush, AskToFlush, Posted, Alive
  <2>3. CASE RenegotiateMediaType
    BY <2>3 DEF RenegotiateMediaType, BeginReleaseResources, BeginFlush, AskToFlush,
                Posted, Alive
  <2>4. CASE BeginStreaming \/ EndStreaming
    BY <2>4 DEF BeginStreaming, EndStreaming, StartScheduler, AskToTerminate
  <2>5. CASE ClockStart \/ ClockPause BY <2>5 DEF ClockStart, ClockPause
  <2>6. QED BY <1>5, <2>1, <2>2, <2>3, <2>4, <2>5 DEF Calls
<1>6. CASE UNCHANGED vars BY <1>6
<1>7. QED BY <1>1, <1>2, <1>3, <1>31, <1>4, <1>5, <1>6 DEF Next

LEMMA EndStep ==
  ASSUME TypeOK, EndInv, [Next]_vars
  PROVE  EndInv'
<1> USE DEF vars, presenterVars, mixerVars, streamVars, EndInv
<1>1. CASE UNCHANGED <<notify, ending, completes, inputs, mixed>> BY <1>1
<1>2. CASE Continue
  <2>1. CASE OutOfInput
    BY <2>1 DEF OutOfInput, Asks, CheckEndOfStream, Complete
  <2>2. CASE ProcessOutput BY <2>2 DEF ProcessOutput, Asks
  <2>3. QED
    BY <1>1, <1>2, <2>1, <2>2
       DEF Continue, NoOutput, Flushed, Sought, Untyped, Retyped, Stopped
<1>3. CASE ProcessInputNotify \/ EndOfStream
  BY <1>3 DEF ProcessInputNotify, EndOfStream
<1>4. QED
  BY <1>1, <1>2, <1>3
     DEF Next, Calls, StreamChange, TypeNotSet, MixerFails, OnSampleFree, FlushMessage,
         RenegotiateMediaType,
         BeginStreaming, EndStreaming, Seek, ClockStart, ClockStop, ClockPause, Call

-----------------------------------------------------------------------------
(* The pool *)

\* The samples of the present batch that are not in the pool.
Lent == {s \in Outstanding : Fresh(s)}

LEMMA LentFinite ==
  ASSUME TypeOK, SamplesInv
  PROVE  IsFiniteSet(Lent) /\ Cardinality(Lent) \in Nat
<1>1. IsFiniteSet(SetOf(queue)) /\ IsFiniteSet(SetOf(hand)) /\ IsFiniteSet(released)
  BY SetOfFinite DEF TypeOK, SamplesInv
<1>2. IsFiniteSet(Outstanding)
  BY <1>1, FS_Union DEF Outstanding
<1>3. IsFiniteSet(Lent) BY <1>2, FS_Subset DEF Lent
<1>4. QED BY <1>3, FS_CardinalityType

\* A step that leaves the pool and the outstanding samples as they are.
LEMMA SamePool ==
  ASSUME TypeOK, PoolInv, UNCHANGED <<token, ready, free, pending>>,
         Outstanding' = Outstanding, calls' \in Nat, calls' >= calls,
         doing' \in {"retype", "retypeLoop", "untype"}
           <=> doing \in {"retype", "retypeLoop", "untype"}
  PROVE  PoolInv'
<1>1. {s \in Outstanding : Fresh(s)}' = {s \in Outstanding : Fresh(s)}
  BY DEF Fresh
<1>2. \A s : Fresh(s)' <=> Fresh(s) BY DEF Fresh
<1>3. token \in Nat /\ calls \in Nat /\ (token <= calls => token <= calls')
  BY DEF TypeOK
<1>4. QED BY <1>1, <1>2, <1>3 DEF PoolInv

\* A new batch: none of the outstanding samples is of it.
LEMMA NewBatch ==
  ASSUME TypeOK, SamplesInv, PoolInv,
         token' = token + 1, calls' = calls + 1, Outstanding' = Outstanding,
         UNCHANGED <<ready, free, pending>>, doing' \in {"retype", "retypeLoop", "untype"}
  PROVE  PoolInv'
<1>1. token \in Nat /\ calls \in Nat BY DEF TypeOK
<1>2. ASSUME NEW s \in Outstanding PROVE ~(s.token = token + 1)
  <2>1. s \in Samples BY DEF Outstanding, SetOf, TypeOK
  <2>2. s.token \in Nat /\ s.token <= token BY <2>1 DEF Samples, SamplesInv
  <2>3. QED BY <1>1, <2>2
<1>3. QED BY <1>1, <1>2 DEF PoolInv, Fresh

LEMMA ThreadKeeps ==
  ASSUME TypeOK, ThreadInv, SamplesInv, Thread /\ UNCHANGED presenterVars
  PROVE  Outstanding' = Outstanding
<1>1. CASE SampleDue
  <2>1. hand = <<>> BY <1>1 DEF SampleDue, Looks, ThreadInv
  <2>2. Takes
    BY <1>1, <2>1 DEF SampleDue, Looks, Takes, presenterVars, mixerVars, batchVars
  <2>3. QED BY <2>2, SampleMoves
<1>2. CASE HandleFlush
  <2>1. Drops BY <1>2 DEF HandleFlush, Drops, presenterVars, mixerVars, batchVars
  <2>2. QED BY <2>1, SampleMoves
<1>3. CASE Presented \/ PresentFails
  <2>1. LetsGo
    BY <1>3 DEF Presented, PresentFails, LetsGo, presenterVars, mixerVars, batchVars
  <2>2. QED BY <2>1, SampleMoves
<1>4. CASE /\ ~SampleDue /\ ~HandleFlush /\ ~Presented /\ ~PresentFails
  <2>1. UNCHANGED <<queue, hand, released>>
    BY <1>4 DEF Thread, WakeForMessage, WakeForSample, NoMessage, ThreadExits, HandleTerminate,
                HandleSchedule, NoSample, SampleEarly, SampleAlmostDue, Looks
  <2>2. QED BY <2>1 DEF Outstanding
<1>5. QED BY <1>1, <1>2, <1>3, <1>4

LEMMA PoolStep ==
  ASSUME TypeOK, ThreadInv, SamplesInv, PoolInv, [Next]_vars
  PROVE  PoolInv'
<1> USE DEF vars, presenterVars, batchVars, poolVars, mixerVars, streamVars
<1>1. token \in Nat /\ calls \in Nat /\ free \in Nat /\ pending \in Nat
      /\ calls + 1 \in Nat /\ calls <= calls + 1 /\ calls <= calls
      /\ Buffers \in Nat
  BY PresenterAssumption DEF TypeOK
<1>2. ASSUME UNCHANGED <<queue, hand, released>> PROVE Outstanding' = Outstanding
  BY <1>2 DEF Outstanding
<1>3. CASE Thread /\ UNCHANGED presenterVars
  BY <1>1, <1>3, ThreadKeeps, SamePool
<1>4. CASE Continue
  <2>1. CASE NoOutput \/ OutOfInput \/ Flushed \/ Sought
    <3>1. UNCHANGED <<queue, hand, released, token, ready, free, pending, calls>>
      BY <2>1 DEF NoOutput, OutOfInput, Flushed, Sought, FlushDone, FlushWaited,
                  schedulerVars, threadVars
    <3>2. /\ doing \notin {"retype", "retypeLoop", "untype"}
          /\ doing' \notin {"retype", "retypeLoop", "untype"}
      BY <2>1 DEF NoOutput, OutOfInput, Flushed, Sought, Asks
    <3>3. QED BY <1>1, <1>2, <3>1, <3>2, SamePool
  <2>2. CASE Stopped
    <3>1. Drops BY <2>2 DEF Stopped, Terminated, Drops
    <3>2. UNCHANGED <<token, ready, free, pending, calls>>
          /\ doing = "stopping" /\ doing' = "nothing"
      BY <2>2 DEF Stopped
    <3>3. QED BY <1>1, <3>1, <3>2, SamePool, SampleMoves
  <2>3. CASE Untyped \/ Retyped
    <3>1. Outstanding' = Outstanding
      BY <1>2, <2>3 DEF Untyped, Retyped, FlushDone, FlushWaited, threadVars
    <3>2. /\ token' = token /\ calls' = calls /\ doing' \in {"nothing", "output"}
          /\ doing \in {"retype", "retypeLoop", "untype"}
          /\ pending' = 0 /\ free' = (IF ready' THEN Buffers ELSE 0)
      BY <2>3 DEF Untyped, Retyped
    <3>3. \A s \in Outstanding : ~Fresh(s) BY <3>2 DEF PoolInv
    <3>4. \A s \in Outstanding' : ~Fresh(s)' BY <3>1, <3>2, <3>3 DEF Fresh
    <3>5. {s \in Outstanding : Fresh(s)}' = {} BY <3>4
    <3>6. QED BY <1>1, <3>2, <3>4, <3>5, FS_EmptySet DEF PoolInv
  <2>4. CASE ProcessOutput
    <3>1. Outstanding' = Outstanding \cup {NewSample}
      <4>1. NewSample \in Samples
        <5>1. mixed + 1 \in 1..MaxFrames
          <6>1. mixed < inputs /\ mixed \in Nat /\ inputs \in 0..MaxFrames
            BY <2>4 DEF ProcessOutput, TypeOK
          <6>2. QED BY <6>1, PresenterAssumption
        <5>2. QED BY <5>1 DEF NewSample, Samples, TypeOK
      <4>2. Adds \/ Shows
        BY <2>4, <4>1
           DEF ProcessOutput, Schedule, PresentNow, CannotSchedule, Adds, Shows,
               threadVars
      <4>3. QED BY <4>2, SampleMoves
    <3>2. /\ ready /\ ready' = ready /\ free' = free - 1 /\ pending' = pending + 1
          /\ free > 0 /\ token' = token /\ calls' = calls
          /\ doing = "output" /\ doing' \notin {"retype", "retypeLoop", "untype"}
      BY <2>4 DEF ProcessOutput, Asks
    <3>3. {s \in Outstanding : Fresh(s)}' = Lent \cup {NewSample}
      <4>1. Fresh(NewSample) BY NewIsNew DEF Fresh
      <4>2. \A s : Fresh(s)' <=> Fresh(s) BY <3>2 DEF Fresh
      <4>3. QED BY <3>1, <4>1, <4>2 DEF Lent
    <3>4. NewSample \notin Lent BY NewIsNew DEF Lent
    <3>5. Cardinality(Lent \cup {NewSample}) = Cardinality(Lent) + 1
      BY <3>4, LentFinite, FS_AddElement
    <3>6. pending = Cardinality(Lent) BY <3>2 DEF PoolInv, Lent
    <3>7. pending' = Cardinality({s \in Outstanding : Fresh(s)}')
      BY <3>2, <3>3, <3>5, <3>6
    <3>8. free' + pending' = Buffers /\ token' <= calls'
      <4>1. free + pending = Buffers /\ token <= calls BY <3>2 DEF PoolInv
      <4>2. QED BY <1>1, <3>2, <4>1
    <3>9. QED BY <3>2, <3>7, <3>8 DEF PoolInv
  <2>5. QED BY <1>4, <2>1, <2>2, <2>3, <2>4 DEF Continue
<1>5. CASE StreamChange \/ TypeNotSet \/ RenegotiateMediaType
  <2>1. UNCHANGED <<queue, hand, released, ready, free, pending>>
        /\ token' = token + 1 /\ calls' = calls + 1
        /\ doing' \in {"retype", "retypeLoop", "untype"}
    BY <1>5 DEF StreamChange, TypeNotSet, RenegotiateMediaType, Call, BeginReleaseResources,
                BeginFlush, AskToFlush, threadVars
  <2>2. QED BY <1>2, <2>1, NewBatch
<1>51. CASE MixerFails
  <2>1. /\ UNCHANGED <<queue, hand, released, token, ready, free, pending>>
        /\ calls' = calls + 1 /\ doing = "output" /\ doing' = "nothing"
    BY <1>51 DEF MixerFails, Asks, schedulerVars, threadVars
  <2>2. QED BY <1>1, <1>2, <2>1, SamePool
<1>6. CASE \E s \in released : OnSampleFree(s)
  <2>1. PICK r \in released : OnSampleFree(r) BY <1>6
  <2>2. /\ released' = released \ {r} /\ UNCHANGED <<queue, hand>>
        /\ doing = "nothing" /\ doing' \in {"nothing", "output"}
        /\ UNCHANGED <<token, ready, calls>>
        /\ IF Fresh(r) THEN free' = free + 1 /\ pending' = pending - 1
           ELSE UNCHANGED <<free, pending>>
    BY <2>1 DEF OnSampleFree, TakeBack, threadVars
  <2>3. r \in Outstanding BY DEF Outstanding
  <2>4. Outstanding' = Outstanding \ {r}
    BY <2>2 DEF Outstanding, SamplesInv, Scheduled
  <2>5. \A s : Fresh(s)' <=> Fresh(s) BY <2>2 DEF Fresh
  <2>6. CASE Fresh(r)
    <3>1. ready BY <2>2, <2>3, <2>6 DEF PoolInv
    <3>2. pending = Cardinality(Lent) BY <2>2, <3>1 DEF PoolInv, Lent
    <3>3. {s \in Outstanding : Fresh(s)}' = Lent \ {r} BY <2>4, <2>5 DEF Lent
    <3>4. Cardinality(Lent \ {r}) = Cardinality(Lent) - 1
      <4>1. r \in Lent BY <2>3, <2>6 DEF Lent
      <4>2. QED BY <4>1, LentFinite, FS_RemoveElement
    <3>5. pending' = Cardinality({s \in Outstanding : Fresh(s)}')
      BY <2>2, <2>6, <3>2, <3>3, <3>4
    <3>6. free' + pending' = Buffers /\ token' <= calls'
      <4>1. free + pending = Buffers /\ token <= calls BY <3>1 DEF PoolInv
      <4>2. QED BY <1>1, <2>2, <2>6, <4>1
    <3>7. ready' /\ doing' \notin {"retype", "retypeLoop", "untype"} BY <2>2, <3>1
    <3>8. QED BY <3>5, <3>6, <3>7 DEF PoolInv
  <2>7. CASE ~Fresh(r)
    <3>1. {s \in Outstanding : Fresh(s)}' = {s \in Outstanding : Fresh(s)}
      BY <2>4, <2>5, <2>7
    <3>2. QED BY <1>1, <2>2, <2>4, <2>5, <2>7, <3>1 DEF PoolInv
  <2>8. QED BY <2>6, <2>7
<1>7. CASE Calls /\ ~RenegotiateMediaType
  <2>1. /\ UNCHANGED <<queue, hand, released, token, ready, free, pending>>
        /\ calls' \in {calls, calls + 1}
        /\ doing = "nothing" /\ doing' \notin {"retype", "retypeLoop", "untype"}
    <3>1. CASE ProcessInputNotify \/ EndOfStream
      BY <3>1 DEF ProcessInputNotify, EndOfStream, schedulerVars, threadVars
    <3>2. CASE FlushMessage \/ ClockStop \/ Seek
      BY <3>2 DEF FlushMessage, ClockStop, Seek, Call, BeginFlush, AskToFlush,
                  threadVars
    <3>3. CASE BeginStreaming \/ EndStreaming
      BY <3>3 DEF BeginStreaming, EndStreaming, Call, StartScheduler, AskToTerminate,
                  threadVars
    <3>4. CASE ClockStart \/ ClockPause
      BY <3>4 DEF ClockStart, ClockPause, Call, schedulerVars, threadVars
    <3>5. QED BY <1>7, <3>1, <3>2, <3>3, <3>4 DEF Calls
  <2>2. QED BY <1>1, <1>2, <2>1, SamePool
<1>8. CASE UNCHANGED vars
  BY <1>1, <1>2, <1>8, SamePool DEF schedulerVars, threadVars
<1>9. QED BY <1>3, <1>4, <1>5, <1>51, <1>6, <1>7, <1>8 DEF Next

-----------------------------------------------------------------------------
(* Messages *)

LEMMA AppendMessage ==
  ASSUME NEW q \in Seq(Messages), NEW m \in Messages
  PROVE  /\ m # "flush" => (NoFlush(Append(q, m)) <=> NoFlush(q))
         /\ m # "flush" /\ OneFlush(q) => OneFlush(Append(q, m))
         /\ m = "flush" => ~NoFlush(Append(q, m))
         /\ m = "flush" /\ NoFlush(q) => OneFlush(Append(q, m))
<1> DEFINE r == Append(q, m)
<1>1. /\ DOMAIN q = 1..Len(q) /\ Len(q) \in Nat /\ DOMAIN r = 1..Len(q) + 1
      /\ \A i \in 1..Len(q) : r[i] = q[i]
      /\ r[Len(q) + 1] = m
  OBVIOUS
<1> HIDE DEF r
<1>2. \A i \in DOMAIN q : i \in DOMAIN r /\ r[i] = q[i] BY <1>1
<1>3. \A i \in DOMAIN r : (i \in DOMAIN q /\ r[i] = q[i]) \/ (i = Len(q) + 1 /\ r[i] = m)
  BY <1>1
<1>4. Len(q) + 1 \in DOMAIN r /\ r[Len(q) + 1] = m BY <1>1
<1>5. m # "flush" => (NoFlush(r) <=> NoFlush(q)) BY <1>2, <1>3 DEF NoFlush
<1>6. m # "flush" /\ OneFlush(q) => OneFlush(r) BY <1>2, <1>3 DEF OneFlush
<1>7. m = "flush" => ~NoFlush(r) BY <1>4 DEF NoFlush
<1>8. m = "flush" /\ NoFlush(q) => OneFlush(r) BY <1>3 DEF NoFlush, OneFlush
<1>9. QED BY <1>5, <1>6, <1>7, <1>8 DEF r

LEMMA TailMessage ==
  ASSUME NEW q \in Seq(Messages), q # <<>>
  PROVE  /\ Head(q) # "flush" => (NoFlush(Tail(q)) <=> NoFlush(q))
         /\ OneFlush(q) => OneFlush(Tail(q))
         /\ Head(q) = "flush" => ~NoFlush(q)
         /\ Head(q) = "flush" /\ OneFlush(q) => NoFlush(Tail(q))
<1> DEFINE r == Tail(q)
<1>1. /\ DOMAIN q = 1..Len(q) /\ Len(q) \in Nat /\ Len(q) >= 1
      /\ DOMAIN r = 1..Len(q) - 1
      /\ \A i \in 1..Len(q) - 1 : r[i] = q[i + 1]
      /\ Head(q) = q[1]
  OBVIOUS
<1> HIDE DEF r
<1>2. \A i \in DOMAIN r : i \in Nat /\ i >= 1 /\ i + 1 \in DOMAIN q /\ r[i] = q[i + 1]
  BY <1>1
<1>3. \A i \in DOMAIN q : i = 1 \/ (i - 1 \in DOMAIN r /\ r[i - 1] = q[i])
  <2> SUFFICES ASSUME NEW i \in DOMAIN q, i # 1
               PROVE  i - 1 \in DOMAIN r /\ r[i - 1] = q[i]
    OBVIOUS
  <2>1. i - 1 \in 1..Len(q) - 1 /\ (i - 1) + 1 = i BY <1>1
  <2>2. QED BY <1>1, <2>1
<1>4. 1 \in DOMAIN q BY <1>1
<1>5. Head(q) # "flush" => (NoFlush(r) <=> NoFlush(q))
  BY <1>1, <1>2, <1>3 DEF NoFlush
<1>6. ASSUME OneFlush(q) PROVE OneFlush(r)
  <2> SUFFICES ASSUME NEW i \in DOMAIN r, NEW j \in DOMAIN r,
                      r[i] = "flush", r[j] = "flush"
               PROVE  i = j
    BY DEF OneFlush
  <2>1. i + 1 = j + 1 BY <1>2, <1>6 DEF OneFlush
  <2>2. QED BY <1>2, <2>1
<1>7. Head(q) = "flush" => ~NoFlush(q) BY <1>1, <1>4 DEF NoFlush
<1>8. ASSUME Head(q) = "flush", OneFlush(q) PROVE NoFlush(r)
  <2> SUFFICES ASSUME NEW i \in DOMAIN r, r[i] = "flush" PROVE FALSE
    BY DEF NoFlush
  <2>1. i + 1 = 1 BY <1>1, <1>2, <1>4, <1>8 DEF OneFlush
  <2>2. QED BY <1>2, <2>1
<1>9. QED BY <1>5, <1>6, <1>7, <1>8 DEF r

-----------------------------------------------------------------------------
(* The order *)

\* A flush that is not given up has emptied the scheduler, if there is a thread.
LEMMA FlushIsOver ==
  ASSUME TypeOK, Flushing, doing \in FlushWaits, FlushDone, ~gaveUp, ~gaveUp'
  PROVE  /\ Alive => flushed /\ ~flushed' /\ queue = <<>> /\ hand = <<>>
                     /\ NoFlush(messages) /\ boundary' = mixed
         /\ ~Alive => boundary' = boundary
         /\ UNCHANGED <<handle, thread, hand, messages, queue, released, shown>>
BY DEF Flushing, FlushDone, FlushWaited, threadVars

\* Nothing is scheduled where a frame is shown at once.
LEMMA AheadStep ==
  ASSUME TypeOK, SamplesInv, Ahead, Quiet, Flushing, ~gaveUp, ~gaveUp',
         [Next]_vars
  PROVE  Ahead'
<1> USE DEF vars, presenterVars, batchVars, poolVars, mixerVars, streamVars,
            schedulerVars, threadVars
<1>1. shown \in Nat /\ mixed \in Nat /\ boundary \in Nat /\ boundary <= mixed
  BY DEF TypeOK
<1>2. CASE UNCHANGED <<queue, shown, mixed, boundary>> BY <1>2 DEF Ahead
<1>3. CASE queue' = <<>> /\ UNCHANGED <<shown, mixed, boundary>> BY <1>3 DEF Ahead
<1>4. CASE SampleDue /\ UNCHANGED presenterVars
  <2> DEFINE r == Tail(queue)
  <2>1. /\ DOMAIN queue = 1..Len(queue) /\ DOMAIN r = 1..Len(queue) - 1
        /\ \A i \in 1..Len(queue) - 1 : r[i] = queue[i + 1]
        /\ Head(queue) = queue[1] /\ Len(queue) \in Nat /\ Len(queue) >= 1
    BY <1>4, TailFacts DEF SampleDue, Looks, TypeOK
  <2>2. queue' = r /\ shown' = queue[1].frame /\ mixed' = mixed /\ boundary' = boundary
    BY <1>4, <2>1 DEF SampleDue, Looks
  <2> HIDE DEF r
  <2>3. 1 \in DOMAIN queue BY <2>1
  <2>4. shown' <= mixed
    <3>1. queue[1] \in Outstanding BY <2>3 DEF Outstanding, SetOf
    <3>2. QED BY <2>2, <3>1 DEF SamplesInv
  <2>5. ASSUME NEW i \in DOMAIN r
        PROVE  r[i].frame > shown' /\ r[i].frame > boundary
    <3>1. i + 1 \in DOMAIN queue /\ r[i] = queue[i + 1] /\ 1 < i + 1 BY <2>1
    <3>2. queue[1].frame < queue[i + 1].frame BY <2>3, <3>1 DEF SamplesInv
    <3>3. queue[i + 1].frame > boundary BY <3>1 DEF Ahead
    <3>4. queue[1] \in Samples /\ queue[i + 1] \in Samples
      BY <2>3, <3>1 DEF TypeOK
    <3>5. queue[1].frame \in Nat /\ queue[i + 1].frame \in Nat
      BY <3>4 DEF Samples
    <3>6. QED BY <2>2, <3>1, <3>2, <3>3, <3>5
  <2>6. QED BY <2>2, <2>4, <2>5 DEF Ahead
<1>5. CASE Thread /\ UNCHANGED presenterVars
  BY <1>2, <1>3, <1>4, <1>5
     DEF Thread, WakeForMessage, WakeForSample, NoMessage, ThreadExits, HandleTerminate,
         HandleFlush, HandleSchedule, NoSample, SampleEarly,
         SampleAlmostDue, Looks, Presented, PresentFails
<1>6. CASE ProcessOutput
  <2>1. mixed' = mixed + 1 /\ boundary' = boundary /\ doing = "output"
        /\ (state = "started" \/ ~prerolled)
    BY <1>6 DEF ProcessOutput, Asks
  <2>2. CASE Schedule(NewSample)
    <3>1. NewSample \in Samples
      <4>1. mixed < inputs /\ inputs \in 0..MaxFrames
        BY <1>6 DEF ProcessOutput, TypeOK
      <4>2. mixed + 1 \in 1..MaxFrames BY <1>1, <4>1, PresenterAssumption
      <4>3. QED BY <4>2 DEF NewSample, Samples, TypeOK
    <3> DEFINE r == Append(queue, NewSample)
    <3>2. /\ DOMAIN queue = 1..Len(queue) /\ DOMAIN r = 1..Len(queue) + 1
          /\ \A i \in 1..Len(queue) : r[i] = queue[i]
          /\ r[Len(queue) + 1] = NewSample /\ Len(queue) \in Nat
      BY <3>1, AppendFacts DEF TypeOK
    <3>3. queue' = r /\ shown' = shown BY <2>2 DEF Schedule
    <3> HIDE DEF r
    <3>4. ASSUME NEW i \in DOMAIN r PROVE r[i].frame > shown /\ r[i].frame > boundary
      <4>1. (i \in DOMAIN queue /\ r[i] = queue[i]) \/ r[i] = NewSample BY <3>2
      <4>2. mixed + 1 > shown /\ mixed + 1 > boundary BY <1>1 DEF Ahead
      <4>3. QED BY <4>1, <4>2, NewIsNew DEF Ahead
    <3>5. QED BY <1>1, <2>1, <3>3, <3>4 DEF Ahead
  <2>3. CASE PresentNow(NewSample) /\ ~(state = "started")
    <3>1. queue = <<>> /\ queue' = <<>>
      BY <2>1, <2>3 DEF PresentNow, Quiet, FlushWaits
    <3>2. shown' = mixed + 1 BY <2>3, NewIsNew DEF PresentNow
    <3>3. QED BY <1>1, <2>1, <3>1, <3>2 DEF Ahead
  <2>4. CASE CannotSchedule(NewSample)
    <3>1. UNCHANGED <<queue, shown>> BY <2>4 DEF CannotSchedule
    <3>2. QED BY <1>1, <2>1, <3>1 DEF Ahead
  <2>5. QED BY <1>6, <2>2, <2>3, <2>4 DEF ProcessOutput
<1>7. CASE Flushed \/ Sought \/ Untyped \/ Retyped
  <2>1. FlushDone /\ doing \in FlushWaits /\ mixed' = mixed
    BY <1>7 DEF Flushed, Sought, Untyped, Retyped, FlushWaits
  <2>2. QED BY <1>2, <1>3, <2>1, FlushIsOver DEF Ahead
<1>8. CASE NoOutput \/ OutOfInput \/ Stopped
  BY <1>2, <1>3, <1>8 DEF NoOutput, OutOfInput, Stopped, Terminated
<1>9. CASE StreamChange \/ TypeNotSet
  BY <1>2, <1>9 DEF StreamChange, TypeNotSet, BeginReleaseResources, BeginFlush, AskToFlush
<1>91. CASE MixerFails BY <1>2, <1>91 DEF MixerFails
<1>10. CASE \E s \in released : OnSampleFree(s)
  BY <1>2, <1>10 DEF OnSampleFree
<1>11. CASE Calls
  BY <1>2, <1>11
     DEF Calls, ProcessInputNotify, EndOfStream, FlushMessage, RenegotiateMediaType,
         BeginStreaming, EndStreaming, Seek, ClockStart, ClockStop, ClockPause, Call,
         BeginReleaseResources, BeginFlush, AskToFlush, StartScheduler, AskToTerminate
<1>12. QED
  BY <1>2, <1>5, <1>6, <1>7, <1>8, <1>9, <1>91, <1>10, <1>11 DEF Next, Continue

\* Only BeginStreaming brings a thread to life.
LEMMA ThreadDies ==
  ASSUME Thread
  PROVE  Alive' => Alive
<1> USE DEF Alive
<1>1. CASE WakeForMessage \/ WakeForSample \/ NoMessage \/ ThreadExits
  BY <1>1 DEF WakeForMessage, WakeForSample, NoMessage, ThreadExits
<1>2. CASE HandleTerminate \/ HandleFlush \/ HandleSchedule
  BY <1>2 DEF HandleTerminate, HandleFlush, HandleSchedule, Peek
<1>3. CASE NoSample \/ SampleEarly \/ SampleAlmostDue \/ SampleDue
  BY <1>3 DEF NoSample, SampleEarly, SampleAlmostDue, SampleDue, Looks
<1>4. CASE Presented \/ PresentFails
  BY <1>4 DEF Presented, PresentFails
<1>5. QED BY <1>1, <1>2, <1>3, <1>4 DEF Thread

LEMMA QuietStep ==
  ASSUME TypeOK, ThreadInv, Quiet, Flushing, ~gaveUp, ~gaveUp', [Next]_vars
  PROVE  Quiet'
<1> USE DEF vars, presenterVars, batchVars, poolVars, mixerVars, streamVars,
            schedulerVars, threadVars, Quiet, FlushWaits
<1>1. messages \in Seq(Messages) /\ "schedule" \in Messages /\ "terminate" \in Messages
  BY DEF TypeOK, Messages
<1>2. CASE Thread /\ UNCHANGED presenterVars
  <2>1. Alive' => Alive BY <1>2, ThreadDies
  <2>2. CASE HandleFlush
    <3>1. messages # <<>> /\ Head(messages) = "flush" BY <2>2 DEF HandleFlush, Peek
    <3>2. ~NoFlush(messages) BY <1>1, <3>1, TailMessage
    <3>3. QED BY <1>2, <2>1, <3>2
  <2>3. CASE HandleTerminate \/ HandleSchedule
    <3>1. /\ messages # <<>> /\ Head(messages) # "flush" /\ messages' = Tail(messages)
          /\ UNCHANGED <<flushed, queue>>
      BY <2>3 DEF HandleTerminate, HandleSchedule, Peek
    <3>2. NoFlush(messages') <=> NoFlush(messages) BY <1>1, <3>1, TailMessage
    <3>3. QED BY <1>2, <2>1, <3>1, <3>2
  <2>4. CASE SampleDue
    <3>1. queue # <<>> /\ UNCHANGED <<flushed, messages>> BY <2>4 DEF SampleDue, Looks
    <3>2. QED BY <1>2, <2>1, <3>1
  <2>5. CASE ~HandleFlush /\ ~HandleTerminate /\ ~HandleSchedule /\ ~SampleDue
    <3>1. UNCHANGED <<flushed, messages, queue>>
      BY <1>2, <2>5 DEF Thread, WakeForMessage, WakeForSample, NoMessage, ThreadExits,
                        NoSample, SampleEarly, SampleAlmostDue, Looks, Presented,
                        PresentFails
    <3>2. QED BY <1>2, <2>1, <3>1
  <2>6. QED BY <2>2, <2>3, <2>4, <2>5
<1>3. CASE ProcessOutput
  <2>1. CASE Schedule(NewSample)
    <3>1. Alive /\ messages' = Append(messages, "schedule") /\ flushed' = flushed
      BY <2>1 DEF Schedule, Posted
    <3>2. prerolled' = TRUE \/ ~Alive
      BY <1>3, <3>1 DEF ProcessOutput, CannotSchedule
    <3>3. NoFlush(messages') <=> NoFlush(messages) BY <1>1, <3>1, AppendMessage
    <3>4. doing = "output" BY <1>3 DEF ProcessOutput, Asks
    <3>5. QED BY <3>1, <3>2, <3>3, <3>4
  <2>2. CASE PresentNow(NewSample) /\ prerolled' = TRUE
    <3>1. UNCHANGED <<handle, thread, messages, flushed>> BY <2>2 DEF PresentNow
    <3>2. doing = "output" BY <1>3 DEF ProcessOutput, Asks
    <3>3. QED BY <2>2, <3>1, <3>2 DEF Alive
  <2>3. CASE CannotSchedule(NewSample)
    BY <2>3 DEF CannotSchedule, Alive
  <2>4. QED BY <1>3, <2>1, <2>2, <2>3 DEF ProcessOutput
<1>4. CASE Flushed \/ Sought \/ Untyped \/ Retyped
  <2>1. FlushDone /\ doing \in FlushWaits
    BY <1>4 DEF Flushed, Sought, Untyped, Retyped
  <2>2. QED BY <2>1, FlushIsOver DEF Alive
<1>5. CASE NoOutput \/ OutOfInput
  BY <1>5 DEF NoOutput, OutOfInput, Asks, Alive
<1>6. CASE Stopped
  BY <1>6 DEF Stopped, Terminated, Alive
<1>7. CASE StreamChange \/ TypeNotSet
  BY <1>7 DEF StreamChange, TypeNotSet, BeginReleaseResources, BeginFlush
<1>71. CASE MixerFails BY <1>71 DEF MixerFails, Asks, Alive
<1>8. CASE \E s \in released : OnSampleFree(s)
  BY <1>8 DEF OnSampleFree, TakeBack, Alive
<1>9. CASE Calls
  <2>1. CASE FlushMessage \/ ClockStop \/ Seek
    BY <2>1 DEF FlushMessage, ClockStop, Seek, BeginFlush
  <2>2. CASE RenegotiateMediaType
    BY <2>2 DEF RenegotiateMediaType, BeginReleaseResources, BeginFlush
  <2>3. CASE BeginStreaming
    <3>1. messages' = <<>> /\ queue' = <<>> /\ flushed' = FALSE
      BY <2>3 DEF BeginStreaming, StartScheduler, ThreadInv
    <3>2. QED BY <3>1 DEF NoFlush
  <2>4. CASE EndStreaming
    <3>1. /\ UNCHANGED <<handle, thread, flushed, queue, prerolled>>
          /\ doing = "nothing" /\ messages' = Posted("terminate")
      BY <2>4 DEF EndStreaming, Call, AskToTerminate
    <3>2. NoFlush(messages') <=> NoFlush(messages)
      BY <1>1, <3>1, AppendMessage DEF Posted
    <3>3. QED BY <3>1, <3>2 DEF Alive
  <2>5. CASE ProcessInputNotify \/ EndOfStream \/ ClockStart \/ ClockPause
    BY <2>5 DEF ProcessInputNotify, EndOfStream, ClockStart, ClockPause, Call, Alive
  <2>6. QED BY <1>9, <2>1, <2>2, <2>3, <2>4, <2>5 DEF Calls
<1>10. CASE UNCHANGED vars BY <1>10 DEF Alive
<1>11. QED
  BY <1>2, <1>3, <1>4, <1>5, <1>6, <1>7, <1>71, <1>8, <1>9, <1>10 DEF Next, Continue

\* A flush is asked for by one message, in a scheduler that knows of no other.
LEMMA FlushAsked ==
  ASSUME TypeOK, Quiet, NEW d, BeginFlush(d), doing \notin FlushWaits
  PROVE  Flushing'
<1>1. CASE Alive
  <2>1. ~flushed /\ NoFlush(messages) BY <1>1 DEF Quiet
  <2>2. messages' = Append(messages, "flush") /\ flushed' = flushed
    BY <1>1 DEF BeginFlush, AskToFlush, Posted
  <2>3. messages \in Seq(Messages) /\ "flush" \in Messages BY DEF TypeOK, Messages
  <2>4. ~NoFlush(messages') /\ OneFlush(messages')
    BY <2>1, <2>2, <2>3, AppendMessage
  <2>5. QED BY <2>1, <2>2, <2>4 DEF Flushing
<1>2. CASE ~Alive
  BY <1>2 DEF BeginFlush, AskToFlush, threadVars, Alive, Flushing
<1>3. QED BY <1>1, <1>2

LEMMA FlushingStep ==
  ASSUME TypeOK, ThreadInv, Quiet, Flushing, [Next]_vars
  PROVE  Flushing'
<1> USE DEF vars, presenterVars, batchVars, poolVars, mixerVars, streamVars,
            schedulerVars, threadVars, Flushing
<1>1. messages \in Seq(Messages) BY DEF TypeOK
<1>2. CASE Thread /\ UNCHANGED presenterVars
  <2>1. Alive' => Alive BY <1>2, ThreadDies
  <2>2. CASE HandleFlush
    <3>1. /\ messages # <<>> /\ Head(messages) = "flush" /\ messages' = Tail(messages)
          /\ flushed' = TRUE /\ queue' = <<>> /\ hand' = hand /\ hand = <<>>
      BY <2>2 DEF HandleFlush, Peek, ThreadInv
    <3>2. OneFlush(messages) => NoFlush(messages') /\ OneFlush(messages')
      BY <1>1, <3>1, TailMessage
    <3>3. QED BY <1>2, <2>1, <3>1, <3>2
  <2>3. CASE HandleTerminate \/ HandleSchedule
    <3>1. /\ messages # <<>> /\ Head(messages) # "flush" /\ messages' = Tail(messages)
          /\ UNCHANGED <<flushed, queue, hand>>
      BY <2>3 DEF HandleTerminate, HandleSchedule, Peek
    <3>2. /\ NoFlush(messages') <=> NoFlush(messages)
          /\ OneFlush(messages) => OneFlush(messages')
      BY <1>1, <3>1, TailMessage
    <3>3. QED BY <1>2, <2>1, <3>1, <3>2
  <2>4. CASE SampleDue
    <3>1. queue # <<>> /\ UNCHANGED <<flushed, messages>> BY <2>4 DEF SampleDue, Looks
    <3>2. QED BY <1>2, <2>1, <3>1
  <2>5. CASE ~HandleFlush /\ ~HandleTerminate /\ ~HandleSchedule /\ ~SampleDue
    <3>1. UNCHANGED <<flushed, messages, queue>> /\ hand' \in {hand, <<>>}
      BY <1>2, <2>5 DEF Thread, WakeForMessage, WakeForSample, NoMessage, ThreadExits,
                        NoSample, SampleEarly, SampleAlmostDue, Looks, Presented,
                        PresentFails
    <3>2. QED BY <1>2, <2>1, <3>1
  <2>6. QED BY <2>2, <2>3, <2>4, <2>5
<1>3. CASE Continue
  <2>1. doing' \notin FlushWaits
    BY <1>3 DEF Continue, NoOutput, OutOfInput, ProcessOutput, Asks, Flushed, Sought,
                Untyped, Retyped, Stopped, FlushWaits
  <2>2. QED BY <2>1
<1>4. CASE StreamChange \/ TypeNotSet
  <2>1. doing \notin FlushWaits BY <1>4 DEF StreamChange, TypeNotSet, Asks, FlushWaits
  <2>2. QED BY <1>4, <2>1, FlushAsked
    DEF StreamChange, TypeNotSet, BeginReleaseResources
<1>41. CASE MixerFails
  <2>1. doing' \notin FlushWaits BY <1>41 DEF MixerFails, FlushWaits
  <2>2. QED BY <2>1
<1>5. CASE \E s \in released : OnSampleFree(s)
  <2>1. doing' \notin FlushWaits
    BY <1>5 DEF OnSampleFree, TakeBack, FlushWaits
  <2>2. QED BY <2>1
<1>6. CASE Calls
  <2>1. doing = "nothing"
    BY <1>6 DEF Calls, ProcessInputNotify, EndOfStream, FlushMessage, RenegotiateMediaType,
                BeginStreaming, EndStreaming, Seek, ClockStart, ClockStop, ClockPause,
                Call
  <2>2. CASE FlushMessage \/ Seek \/ ClockStop
    <3>1. PICK d : BeginFlush(d) BY <2>2 DEF FlushMessage, Seek, ClockStop
    <3>2. QED BY <2>1, <3>1, FlushAsked DEF FlushWaits
  <2>3. CASE RenegotiateMediaType
    <3>1. PICK d : BeginFlush(d)
      BY <2>3 DEF RenegotiateMediaType, BeginReleaseResources
    <3>2. QED BY <2>1, <3>1, FlushAsked DEF FlushWaits
  <2>4. CASE ~FlushMessage /\ ~Seek /\ ~ClockStop /\ ~RenegotiateMediaType
    <3>1. doing' \notin FlushWaits
      BY <1>6, <2>1, <2>4
         DEF Calls, ProcessInputNotify, EndOfStream, BeginStreaming, EndStreaming,
             ClockStart, ClockPause, Call, FlushWaits
    <3>2. QED BY <3>1
  <2>5. QED BY <2>2, <2>3, <2>4
<1>7. CASE UNCHANGED vars BY <1>7 DEF Alive
<1>8. QED BY <1>2, <1>3, <1>4, <1>41, <1>5, <1>6, <1>7 DEF Next

LEMMA FreshStep ==
  ASSUME TypeOK, ThreadInv, SamplesInv, Flushing, AllFresh,
         ~gaveUp, ~gaveUp', [Next]_vars
  PROVE  AllFresh'
<1> USE DEF vars, presenterVars, batchVars, poolVars, mixerVars, streamVars,
            schedulerVars, threadVars
<1>1. ASSUME Scheduled' \subseteq Scheduled, token' = token, Alive' => Alive,
             doing \notin {"retype", "retypeLoop", "untype"}
               \/ doing' \in {"retype", "retypeLoop", "untype"}
      PROVE  AllFresh'
  BY <1>1 DEF AllFresh, Fresh
<1>2. CASE Thread /\ UNCHANGED presenterVars
  <2>1. CASE SampleDue
    <3>1. SetOf(queue) = {Head(queue)} \cup SetOf(Tail(queue))
      BY <2>1, TailFacts DEF SampleDue, Looks, TypeOK
    <3>2. SetOf(queue)' = SetOf(Tail(queue)) /\ SetOf(hand)' = {Head(queue)}
      BY <2>1, SetOfOne DEF SampleDue, Looks
    <3>3. Scheduled' \subseteq Scheduled BY <3>1, <3>2 DEF Scheduled
    <3>4. QED BY <1>1, <1>2, <3>3, ThreadDies
  <2>2. CASE HandleFlush
    <3>1. Scheduled' \subseteq Scheduled
      BY <2>2, SetOfEmpty DEF HandleFlush, Scheduled
    <3>2. QED BY <1>1, <1>2, <3>1, ThreadDies
  <2>3. CASE Presented \/ PresentFails
    <3>1. Scheduled' \subseteq Scheduled
      BY <2>3, SetOfEmpty DEF Presented, PresentFails, Scheduled
    <3>2. QED BY <1>1, <1>2, <3>1, ThreadDies
  <2>4. CASE ~SampleDue /\ ~HandleFlush /\ ~Presented /\ ~PresentFails
    <3>1. UNCHANGED <<queue, hand>>
      BY <1>2, <2>4 DEF Thread, WakeForMessage, WakeForSample, NoMessage, ThreadExits,
                        HandleTerminate, HandleSchedule, NoSample, SampleEarly,
                        SampleAlmostDue, Looks
    <3>2. Scheduled' \subseteq Scheduled BY <3>1 DEF Scheduled
    <3>3. QED BY <1>1, <1>2, <3>2, ThreadDies
  <2>5. QED BY <2>1, <2>2, <2>3, <2>4
<1>3. CASE ProcessOutput
  <2>1. doing = "output" /\ doing' \notin {"retype", "retypeLoop", "untype"} /\ token' = token
        /\ mixed < inputs
    BY <1>3 DEF ProcessOutput, Asks
  <2>2. CASE Schedule(NewSample)
    <3>1. NewSample \in Samples
      <4>1. mixed \in Nat /\ inputs \in 0..MaxFrames BY DEF TypeOK
      <4>2. mixed + 1 \in 1..MaxFrames BY <2>1, <4>1, PresenterAssumption
      <4>3. QED BY <4>2 DEF NewSample, Samples, TypeOK
    <3>2. SetOf(queue)' = SetOf(queue) \cup {NewSample} /\ hand' = hand
      BY <2>2, <3>1, AppendFacts DEF Schedule, TypeOK
    <3>3. Scheduled' = Scheduled \cup {NewSample} BY <3>2 DEF Scheduled
    <3>4. Alive BY <2>2 DEF Schedule
    <3>5. QED BY <2>1, <3>3, <3>4, NewIsNew DEF AllFresh, Fresh
  <2>3. CASE PresentNow(NewSample) \/ CannotSchedule(NewSample)
    <3>1. Scheduled' \subseteq Scheduled /\ (Alive' => Alive)
      BY <2>3 DEF PresentNow, CannotSchedule, Scheduled, Alive
    <3>2. QED BY <1>1, <2>1, <3>1
  <2>4. QED BY <1>3, <2>2, <2>3 DEF ProcessOutput
<1>4. CASE Flushed \/ Sought \/ Untyped \/ Retyped
  <2>1. FlushDone /\ doing \in FlushWaits /\ token' = token
    BY <1>4 DEF Flushed, Sought, Untyped, Retyped, FlushWaits
  <2>2. CASE Alive
    <3>1. queue' = <<>> /\ hand' = <<>> BY <2>1, <2>2, FlushIsOver
    <3>2. Scheduled' = {} BY <3>1, SetOfEmpty DEF Scheduled
    <3>3. QED BY <3>2 DEF AllFresh
  <2>3. CASE ~Alive
    <3>1. ~Alive' BY <2>1, <2>3, FlushIsOver DEF Alive
    <3>2. QED BY <3>1 DEF AllFresh
  <2>4. QED BY <2>2, <2>3
<1>5. CASE NoOutput \/ OutOfInput
  <2>1. UNCHANGED <<queue, hand, token, handle, thread>> /\ doing' = "nothing"
        /\ doing = "output"
    BY <1>5 DEF NoOutput, OutOfInput, Asks
  <2>2. QED BY <1>1, <2>1 DEF Scheduled, Alive
<1>6. CASE Stopped
  BY <1>6 DEF Stopped, Terminated, AllFresh, Alive
<1>7. CASE StreamChange \/ TypeNotSet
  BY <1>7 DEF StreamChange, TypeNotSet, BeginReleaseResources, BeginFlush, AllFresh
<1>71. CASE MixerFails
  <2>1. UNCHANGED <<queue, hand, token, handle, thread>> /\ doing = "output"
    BY <1>71 DEF MixerFails, Asks
  <2>2. QED BY <1>1, <2>1 DEF Scheduled, Alive
<1>8. CASE \E s \in released : OnSampleFree(s)
  <2>1. UNCHANGED <<queue, hand, token, handle, thread>> /\ doing = "nothing"
    BY <1>8 DEF OnSampleFree
  <2>2. QED BY <1>1, <2>1 DEF Scheduled, Alive
<1>9. CASE Calls
  <2>1. CASE RenegotiateMediaType
    BY <2>1 DEF RenegotiateMediaType, BeginReleaseResources, BeginFlush, AllFresh
  <2>2. CASE BeginStreaming
    <3>1. queue' = <<>> /\ hand' = <<>>
      BY <2>2 DEF BeginStreaming, StartScheduler, ThreadInv
    <3>2. Scheduled' = {} BY <3>1, SetOfEmpty DEF Scheduled
    <3>3. QED BY <3>2 DEF AllFresh
  <2>3. CASE ~RenegotiateMediaType /\ ~BeginStreaming
    <3>1. UNCHANGED <<queue, hand, token, handle, thread>> /\ doing = "nothing"
      BY <1>9, <2>3
         DEF Calls, ProcessInputNotify, EndOfStream, FlushMessage, EndStreaming, Seek,
             ClockStart, ClockStop, ClockPause, Call, BeginFlush, AskToFlush,
             AskToTerminate
    <3>2. QED BY <1>1, <3>1 DEF Scheduled, Alive
  <2>4. QED BY <2>1, <2>2, <2>3
<1>10. CASE UNCHANGED vars
  <2>1. Scheduled' = Scheduled /\ (Alive' <=> Alive) BY <1>10 DEF Scheduled, Alive
  <2>2. QED BY <1>10, <2>1 DEF AllFresh, Fresh
<1>11. QED
  BY <1>2, <1>3, <1>4, <1>5, <1>6, <1>7, <1>71, <1>8, <1>9, <1>10 DEF Next, Continue

\* A flush that was given up stays given up.
LEMMA GaveUpStays ==
  ASSUME TypeOK, [Next]_vars
  PROVE  gaveUp => gaveUp'
<1> USE DEF vars, presenterVars, schedulerVars, threadVars
<1>1. CASE Thread
  BY <1>1 DEF Thread, WakeForMessage, WakeForSample, NoMessage, ThreadExits,
              HandleTerminate, HandleFlush, HandleSchedule, NoSample, SampleEarly,
              SampleAlmostDue, SampleDue, Presented, PresentFails
<1>2. CASE Continue
  <2>1. CASE ProcessOutput
    BY <2>1 DEF ProcessOutput, Schedule, PresentNow, CannotSchedule
  <2>2. CASE NoOutput \/ OutOfInput \/ Stopped
    BY <2>2 DEF NoOutput, OutOfInput, Stopped, Terminated
  <2>3. CASE Flushed \/ Sought \/ Untyped \/ Retyped
    BY <2>3 DEF Flushed, Sought, Untyped, Retyped, FlushDone, FlushWaited
  <2>4. QED BY <1>2, <2>1, <2>2, <2>3 DEF Continue
<1>3. CASE StreamChange \/ TypeNotSet
  BY <1>3 DEF StreamChange, TypeNotSet, BeginReleaseResources, BeginFlush, AskToFlush
<1>4. CASE MixerFails BY <1>4 DEF MixerFails
<1>5. CASE \E s \in released : OnSampleFree(s) BY <1>5 DEF OnSampleFree
<1>6. CASE Calls
  BY <1>6
     DEF Calls, ProcessInputNotify, EndOfStream, FlushMessage, RenegotiateMediaType,
         BeginStreaming, EndStreaming, Seek, ClockStart, ClockStop, ClockPause, Call,
         BeginReleaseResources, BeginFlush, AskToFlush, StartScheduler, AskToTerminate
<1>7. CASE UNCHANGED vars BY <1>7
<1>8. QED BY <1>1, <1>2, <1>3, <1>4, <1>5, <1>6, <1>7 DEF Next

-----------------------------------------------------------------------------
(* Types *)

SchedulerTypes ==
  /\ handle \in BOOLEAN /\ thread \in ThreadPlaces
  /\ exiting \in BOOLEAN /\ sleep \in {"infinite", "finite"}
  /\ messages \in Seq(Messages)
  /\ flushed \in BOOLEAN /\ shown \in 0..MaxFrames
  /\ gaveUp \in BOOLEAN /\ failures \in 0..MaxFailures

SampleTypes ==
  queue \in Seq(Samples) /\ hand \in Seq(Samples) /\ released \subseteq Samples

PresenterTypes ==
  /\ doing \in {"nothing", "output", "flush", "seek", "retype", "retypeLoop", "untype",
               "stopping"}
  /\ state \in {"stopped", "started", "paused"}
  /\ token \in 0..MaxCalls /\ calls \in 0..MaxCalls
  /\ notify \in BOOLEAN /\ prerolled \in BOOLEAN
  /\ ending \in BOOLEAN /\ completes \in 0..1 /\ ready \in BOOLEAN
  /\ free \in 0..Buffers /\ pending \in 0..Buffers
  /\ inputs \in 0..MaxFrames /\ mixed \in 0..inputs /\ boundary \in 0..mixed
  /\ disturbed \in BOOLEAN

LEMMA SampleTypesStep ==
  ASSUME TypeOK, ThreadInv, [Next]_vars
  PROVE  SampleTypes'
<1> USE DEF SampleTypes
<1>1. SampleTypes BY DEF TypeOK
<1>2. SetOf(queue) \subseteq Samples /\ SetOf(hand) \subseteq Samples
  BY <1>1 DEF SetOf
<1>3. CASE Rests BY <1>1, <1>3 DEF Rests
<1>4. CASE Drops BY <1>1, <1>2, <1>4 DEF Drops
<1>5. CASE Takes
  <2>1. Tail(queue) \in Seq(Samples) /\ Head(queue) \in Samples
    BY <1>1, <1>5, TailFacts DEF Takes
  <2>2. QED BY <1>1, <1>5, <2>1 DEF Takes
<1>6. CASE LetsGo BY <1>1, <1>2, <1>6 DEF LetsGo
<1>7. CASE Adds BY <1>1, <1>7, AppendFacts DEF Adds
<1>8. CASE Shows BY <1>1, <1>8 DEF Shows
<1>9. CASE GivesBack BY <1>1, <1>9 DEF GivesBack
<1>10. QED BY <1>3, <1>4, <1>5, <1>6, <1>7, <1>8, <1>9, StepKinds

LEMMA SchedulerTypesStep ==
  ASSUME TypeOK, [Next]_vars
  PROVE  SchedulerTypes'
<1> USE DEF vars, schedulerVars, threadVars, SchedulerTypes, ThreadPlaces
<1>1. SchedulerTypes BY DEF TypeOK
<1>2. MaxFailures \in Nat /\ MaxFrames \in Nat
  BY PresenterAssumption
<1>3. ASSUME NEW m \in Messages PROVE Posted(m) \in Seq(Messages)
  BY <1>1, <1>3 DEF Posted
<1>4. Posted("schedule") \in Seq(Messages) /\ Posted("flush") \in Seq(Messages)
      /\ Posted("terminate") \in Seq(Messages)
  BY <1>3 DEF Messages
<1>5. CASE Thread
  <2>1. CASE WakeForMessage \/ WakeForSample \/ NoMessage \/ ThreadExits
    BY <1>1, <2>1 DEF WakeForMessage, WakeForSample, NoMessage, ThreadExits
  <2>2. CASE HandleTerminate \/ HandleSchedule \/ HandleFlush
    <3>1. messages # <<>> /\ messages' = Tail(messages)
      BY <2>2 DEF HandleTerminate, HandleSchedule, HandleFlush, Peek
    <3>2. messages' \in Seq(Messages) BY <1>1, <3>1
    <3>3. QED
      BY <1>1, <2>2, <3>2 DEF HandleTerminate, HandleSchedule, HandleFlush
  <2>3. CASE NoSample \/ SampleEarly \/ SampleAlmostDue
    BY <1>1, <2>3 DEF NoSample, SampleEarly, SampleAlmostDue, Looks
  <2>4. CASE SampleDue
    <3>1. Head(queue) \in Samples BY <2>4, TailFacts DEF SampleDue, Looks, TypeOK
    <3>2. shown' \in 0..MaxFrames
      BY <1>2, <2>4, <3>1 DEF SampleDue, Looks, Samples
    <3>3. QED BY <1>1, <2>4, <3>2 DEF SampleDue, Looks
  <2>5. CASE Presented BY <1>1, <2>5 DEF Presented
  <2>6. CASE PresentFails
    <3>1. failures' \in 0..MaxFailures BY <1>1, <1>2, <2>6 DEF PresentFails
    <3>2. QED BY <1>1, <2>6, <3>1 DEF PresentFails
  <2>7. QED BY <1>5, <2>1, <2>2, <2>3, <2>4, <2>5, <2>6 DEF Thread
<1>6. CASE Continue
  <2>1. CASE NoOutput \/ OutOfInput
    BY <1>1, <2>1 DEF NoOutput, OutOfInput
  <2>2. CASE ProcessOutput
    <3>1. mixed + 1 \in 0..MaxFrames
      <4>1. mixed < inputs /\ inputs \in 0..MaxFrames /\ mixed \in Nat
        BY <2>2 DEF ProcessOutput, TypeOK
      <4>2. QED BY <1>2, <4>1
    <3>2. NewSample.frame = mixed + 1 BY DEF NewSample
    <3>3. QED
      BY <1>1, <1>4, <2>2, <3>1, <3>2
         DEF ProcessOutput, Schedule, PresentNow, CannotSchedule
  <2>3. CASE Flushed \/ Sought \/ Untyped \/ Retyped
    <3>1. FlushDone BY <2>3 DEF Flushed, Sought, Untyped, Retyped
    <3>2. FlushWaited BY <3>1 DEF FlushDone
    <3>3. /\ gaveUp' \in {gaveUp, TRUE}
          /\ flushed' \in {flushed, FALSE}
          /\ UNCHANGED <<handle, thread, exiting, sleep, failures, messages, shown>>
      BY <3>2 DEF FlushWaited
    <3>4. gaveUp' \in BOOLEAN BY <1>1, <3>3
    <3>5. flushed' \in BOOLEAN BY <1>1, <3>3
    <3>6. QED BY <1>1, <3>3, <3>4, <3>5
  <2>4. CASE Stopped
    <3>1. /\ handle' = FALSE /\ thread' = "none" /\ messages' = <<>>
          /\ UNCHANGED <<exiting, sleep, failures, flushed, shown, gaveUp>>
      BY <2>4 DEF Stopped, Terminated
    <3>2. messages' \in Seq(Messages) BY <3>1
    <3>3. QED BY <1>1, <3>1, <3>2
  <2>5. QED BY <1>6, <2>1, <2>2, <2>3, <2>4 DEF Continue
<1>7. CASE StreamChange \/ TypeNotSet
  BY <1>1, <1>4, <1>7
     DEF StreamChange, TypeNotSet, BeginReleaseResources, BeginFlush, AskToFlush
<1>71. CASE MixerFails BY <1>1, <1>71 DEF MixerFails
<1>8. CASE \E s \in released : OnSampleFree(s) BY <1>1, <1>8 DEF OnSampleFree
<1>9. CASE Calls
  <2>1. CASE ProcessInputNotify \/ EndOfStream \/ ClockStart \/ ClockPause
    BY <1>1, <2>1 DEF ProcessInputNotify, EndOfStream, ClockStart, ClockPause
  <2>2. CASE FlushMessage \/ Seek \/ ClockStop
    BY <1>1, <1>4, <2>2 DEF FlushMessage, Seek, ClockStop, BeginFlush, AskToFlush
  <2>3. CASE RenegotiateMediaType
    BY <1>1, <1>4, <2>3 DEF RenegotiateMediaType, BeginReleaseResources, BeginFlush,
                            AskToFlush
  <2>4. CASE BeginStreaming \/ EndStreaming
    BY <1>1, <1>4, <2>4 DEF BeginStreaming, EndStreaming, StartScheduler,
                            AskToTerminate
  <2>5. QED BY <1>9, <2>1, <2>2, <2>3, <2>4 DEF Calls
<1>10. CASE UNCHANGED vars BY <1>1, <1>10
<1>11. QED BY <1>5, <1>6, <1>7, <1>71, <1>8, <1>9, <1>10 DEF Next

LEMMA PresenterTypesStep ==
  ASSUME TypeOK, SamplesInv, PoolInv, PoolInv', EndInv, [Next]_vars
  PROVE  PresenterTypes'
<1> USE DEF vars, presenterVars, batchVars, poolVars, mixerVars, streamVars,
            PresenterTypes
<1>1. PresenterTypes BY DEF TypeOK
<1>2. MaxCalls \in Nat /\ MaxFrames \in Nat /\ Buffers \in Nat
  BY PresenterAssumption
<1>3. calls + 1 \in Nat /\ token + 1 \in Nat BY <1>1
<1>4. ASSUME calls < MaxCalls, calls' = calls + 1, token' = token + 1
      PROVE  calls' \in 0..MaxCalls /\ token' \in 0..MaxCalls
  BY <1>1, <1>2, <1>3, <1>4 DEF PoolInv
<1>5. ASSUME calls < MaxCalls, calls' = calls + 1 PROVE calls' \in 0..MaxCalls
  BY <1>1, <1>2, <1>5
<1>6. CASE UNCHANGED presenterVars BY <1>1, <1>6
<1>7. CASE Continue
  <2>1. CASE NoOutput BY <1>1, <2>1 DEF NoOutput
  <2>2. CASE OutOfInput
    <3>1. CheckEndOfStream BY <2>2 DEF OutOfInput
    <3>2. completes' \in 0..1 /\ ending' \in BOOLEAN
      <4>1. CASE Complete
        <5>1. ending BY <4>1 DEF Complete
        <5>2. completes = 0 BY <5>1 DEF EndInv
        <5>3. completes' = completes + 1 /\ ending' = FALSE
          BY <3>1, <4>1 DEF CheckEndOfStream
        <5>4. completes' \in 0..1 BY <5>2, <5>3
        <5>5. QED BY <5>3, <5>4
      <4>2. CASE ~Complete BY <1>1, <3>1, <4>2 DEF CheckEndOfStream
      <4>3. QED BY <4>1, <4>2
    <3>3. QED BY <1>1, <2>2, <3>2 DEF OutOfInput
  <2>3. CASE ProcessOutput
    <3>1. /\ ready /\ mixed < inputs /\ free > 0 /\ mixed' = mixed + 1
          /\ free' = free - 1 /\ pending' = pending + 1
          /\ UNCHANGED <<inputs, boundary>>
      BY <2>3 DEF ProcessOutput, Asks
    <3>2. mixed' \in 0..inputs' /\ boundary' \in 0..mixed' BY <1>1, <3>1
    <3>3. free' \in 0..Buffers /\ pending' \in 0..Buffers
      <4>1. free + pending = Buffers BY <3>1 DEF PoolInv
      <4>2. QED BY <1>1, <1>2, <3>1, <4>1
    <3>4. QED BY <1>1, <2>3, <3>2, <3>3 DEF ProcessOutput, Asks
  <2>4. CASE Flushed \/ Sought \/ Untyped \/ Retyped
    <3>1. boundary' \in 0..mixed /\ mixed' = mixed
      BY <1>1, <2>4 DEF Flushed, Sought, Untyped, Retyped, FlushDone
    <3>2. free' \in 0..Buffers /\ pending' \in 0..Buffers /\ ready' \in BOOLEAN
      <4>1. 0 \in 0..Buffers /\ Buffers \in 0..Buffers BY <1>2
      <4>2. CASE Flushed \/ Sought BY <1>1, <4>2 DEF Flushed, Sought
      <4>3. CASE Untyped \/ Retyped BY <4>1, <4>3 DEF Untyped, Retyped
      <4>4. QED BY <2>4, <4>2, <4>3
    <3>3. QED BY <1>1, <2>4, <3>1, <3>2 DEF Flushed, Sought, Untyped, Retyped
  <2>5. CASE Stopped BY <1>1, <2>5 DEF Stopped
  <2>6. QED BY <1>7, <2>1, <2>2, <2>3, <2>4, <2>5 DEF Continue
<1>8. CASE StreamChange \/ TypeNotSet
  <2>1. calls' \in 0..MaxCalls /\ token' \in 0..MaxCalls
    BY <1>4, <1>8 DEF StreamChange, TypeNotSet, BeginReleaseResources
  <2>2. QED
    BY <1>1, <1>8, <2>1 DEF StreamChange, TypeNotSet, BeginReleaseResources, BeginFlush
<1>81. CASE MixerFails
  <2>1. calls' \in 0..MaxCalls BY <1>5, <1>81 DEF MixerFails
  <2>2. disturbed' \in BOOLEAN BY <1>1, <1>81 DEF MixerFails
  <2>3. QED BY <1>1, <1>81, <2>1, <2>2 DEF MixerFails
<1>9. CASE \E s \in released : OnSampleFree(s)
  <2>1. PICK s \in released : OnSampleFree(s) BY <1>9
  <2>2. free' \in 0..Buffers /\ pending' \in 0..Buffers
    <3>1. CASE ~Fresh(s) BY <1>1, <2>1, <3>1 DEF OnSampleFree, TakeBack
    <3>2. CASE Fresh(s)
      <4>1. /\ free' = free + 1 /\ pending' = pending - 1 /\ doing = "nothing"
            /\ ready' = ready
        BY <2>1, <3>2 DEF OnSampleFree, TakeBack
      <4>2. s \in Lent BY <3>2 DEF Lent, Outstanding
      <4>3. ready BY <3>2, <4>1, <4>2 DEF PoolInv, Lent
      <4>4. pending = Cardinality(Lent) BY <4>1, <4>3 DEF PoolInv, Lent
      <4>5. pending # 0 BY <4>2, <4>4, LentFinite, FS_EmptySet
      <4>6. free + pending = Buffers BY <4>3 DEF PoolInv
      <4>7. QED BY <1>1, <1>2, <4>1, <4>5, <4>6
    <3>3. QED BY <3>1, <3>2
  <2>3. doing' \in {"nothing", "output"} BY <2>1 DEF OnSampleFree, TakeBack
  <2>4. QED BY <1>1, <2>1, <2>2, <2>3 DEF OnSampleFree
<1>10. CASE Calls
  <2>1. CASE ProcessInputNotify
    <3>1. /\ inputs' = inputs + 1 /\ inputs < MaxFrames
          /\ UNCHANGED <<mixed, boundary>> /\ doing' \in {"output", "nothing"}
      BY <2>1 DEF ProcessInputNotify
    <3>2. inputs' \in 0..MaxFrames /\ mixed' \in 0..inputs' /\ boundary' \in 0..mixed'
      BY <1>1, <1>2, <3>1
    <3>3. notify' \in BOOLEAN /\ doing' \in {"output", "nothing"}
          /\ UNCHANGED <<state, token, calls, prerolled, ending, completes, ready, free,
                         pending, disturbed>>
      BY <2>1 DEF ProcessInputNotify
    <3>4. QED BY <1>1, <3>2, <3>3
  <2>2. CASE EndOfStream
    <3>1. completes' \in {completes, completes + 1} /\ completes = 0
      BY <2>2 DEF EndOfStream
    <3>2. completes' \in 0..1 BY <3>1
    <3>3. ending' \in BOOLEAN BY <1>1, <2>2 DEF EndOfStream
    <3>4. QED BY <1>1, <2>2, <3>2, <3>3 DEF EndOfStream
  <2>3. CASE RenegotiateMediaType
    <3>1. calls' \in 0..MaxCalls /\ token' \in 0..MaxCalls
      BY <1>4, <2>3 DEF RenegotiateMediaType, Call, BeginReleaseResources
    <3>2. disturbed' \in BOOLEAN /\ doing' \in {"retype", "retypeLoop", "untype"}
          /\ prerolled' \in BOOLEAN
      BY <2>3 DEF RenegotiateMediaType, BeginReleaseResources, BeginFlush
    <3>3. UNCHANGED <<state, notify, ending, completes, ready, free, pending, inputs,
                      mixed, boundary>>
      BY <2>3 DEF RenegotiateMediaType, Call
    <3>4. QED BY <1>1, <3>1, <3>2, <3>3
  <2>4. CASE FlushMessage \/ Seek \/ ClockStop \/ BeginStreaming
             \/ ClockStart \/ ClockPause
    <3>1. Call BY <2>4 DEF FlushMessage, Seek, ClockStop, BeginStreaming,
                           ClockStart, ClockPause
    <3>2. calls' \in 0..MaxCalls BY <1>5, <3>1 DEF Call
    <3>3. QED
      BY <1>1, <2>4, <3>1, <3>2
         DEF Call, FlushMessage, Seek, ClockStop, BeginStreaming,
             ClockStart, ClockPause, BeginFlush
  <2>41. CASE EndStreaming BY <1>1, <2>41 DEF EndStreaming
  <2>5. QED BY <1>10, <2>1, <2>2, <2>3, <2>4, <2>41 DEF Calls
<1>11. QED BY <1>6, <1>7, <1>8, <1>81, <1>9, <1>10 DEF Next

-----------------------------------------------------------------------------
(* The theorems *)

LEMMA InitInv ==
  Init => IInv
<1> SUFFICES ASSUME Init PROVE IInv OBVIOUS
<1> USE DEF Init, SchedulerInit
<1>1. TypeOK
  <2> DEFINE Zero == /\ 0 \in 0..MaxFrames /\ 0 \in 0..MaxFailures
                     /\ 0 \in 0..MaxCalls /\ 0 \in 0..Buffers
                     /\ 0 \in 0..1 /\ 0 \in 0..0
  <2>0. Zero BY PresenterAssumption
  <2>1. SchedulerTypes
    <3>1. messages \in Seq(Messages) OBVIOUS
    <3>2. QED BY <2>0, <3>1 DEF SchedulerTypes, ThreadPlaces
  <2>2. SampleTypes BY DEF SampleTypes
  <2>3. PresenterTypes BY <2>0 DEF PresenterTypes
  <2>4. QED BY <2>1, <2>2, <2>3 DEF SchedulerTypes, SampleTypes, PresenterTypes, TypeOK
<1>2. ThreadInv BY DEF ThreadInv
<1>3. Scheduled = {} /\ Outstanding = {}
  BY SetOfEmpty DEF Scheduled, Outstanding
<1>4. SamplesInv BY <1>3, SetOfEmpty, FS_EmptySet DEF SamplesInv
<1>5. PoolInv BY <1>3 DEF PoolInv
<1>6. EndInv BY DEF EndInv
<1>7. OrderInv
  BY <1>3 DEF OrderInv, Ahead, Quiet, Flushing, AllFresh, Alive
<1>8. QED BY <1>1, <1>2, <1>4, <1>5, <1>6, <1>7 DEF IInv

LEMMA StepInv ==
  IInv /\ [Next]_vars => IInv'
<1> SUFFICES ASSUME IInv, [Next]_vars PROVE IInv' OBVIOUS
<1>1. TypeOK /\ ThreadInv /\ SamplesInv /\ PoolInv /\ EndInv /\ OrderInv
  BY DEF IInv
<1>2. ThreadInv' BY <1>1, ThreadStep
<1>3. SamplesInv' BY <1>1, SamplesStep
<1>4. PoolInv' BY <1>1, PoolStep
<1>5. EndInv' BY <1>1, EndStep
<1>6. TypeOK'
  <2>1. SchedulerTypes' BY <1>1, SchedulerTypesStep
  <2>2. SampleTypes' BY <1>1, SampleTypesStep
  <2>3. PresenterTypes' BY <1>1, <1>4, PresenterTypesStep
  <2>4. QED BY <2>1, <2>2, <2>3 DEF SchedulerTypes, SampleTypes, PresenterTypes, TypeOK
<1>7. OrderInv'
  <2> SUFFICES ASSUME ~gaveUp' PROVE Ahead' /\ Quiet' /\ Flushing' /\ AllFresh'
    BY DEF OrderInv
  <2>1. ~gaveUp BY <1>1, GaveUpStays
  <2>2. Ahead /\ Quiet /\ Flushing /\ AllFresh BY <1>1, <2>1 DEF OrderInv
  <2>3. Ahead' BY <1>1, <2>1, <2>2, AheadStep
  <2>4. Quiet' BY <1>1, <2>1, <2>2, QuietStep
  <2>5. Flushing' BY <1>1, <2>2, FlushingStep
  <2>6. AllFresh' BY <1>1, <2>1, <2>2, FreshStep
  <2>7. QED BY <2>3, <2>4, <2>5, <2>6
<1>8. QED BY <1>1, <1>2, <1>3, <1>4, <1>5, <1>6, <1>7 DEF IInv

\* The samples are where the invariant says, whatever the order of the EVR's
\* calls, the thread's steps and OnSampleFree.
THEOREM Inductive == Spec => []IInv
BY InitInv, StepInv, PTL DEF Spec

\* The types of the variables: the pool never counts below zero or above its
\* size.
THEOREM TypeCorrect == Spec => []TypeOK
<1>1. IInv => TypeOK BY DEF IInv
<1>2. QED BY <1>1, Inductive, PTL

\* The pool accounts for every sample of the present batch, in exactly one place.
THEOREM PoolIsAccounted == Spec => []PoolAccounted
<1>1. IInv => PoolAccounted
  <2> SUFFICES ASSUME IInv PROVE PoolAccounted OBVIOUS
  <2> USE DEF IInv
  <2>1. ASSUME ready, doing \notin {"retype", "retypeLoop", "untype"}
        PROVE  /\ pending = Cardinality({s \in Outstanding : Fresh(s)})
               /\ free + pending = Buffers
    BY <2>1 DEF PoolInv
  <2>2. Cardinality(Outstanding) = Len(queue) + Len(hand) + Cardinality(released)
    <3>1. IsFiniteSet(SetOf(queue)) /\ Cardinality(SetOf(queue)) = Len(queue)
      <4>1. ASSUME NEW i \in DOMAIN queue, NEW j \in DOMAIN queue, queue[i] = queue[j]
            PROVE  i = j
        <5>1. queue[i].frame \in Nat /\ i \in Nat /\ j \in Nat
          <6>1. queue \in Seq(Samples) BY DEF TypeOK
          <6>2. queue[i] \in Samples /\ i \in Nat /\ j \in Nat BY <6>1
          <6>3. QED BY <6>2 DEF Samples
        <5>2. ~(i < j) /\ ~(j < i) BY <4>1, <5>1 DEF SamplesInv
        <5>3. QED BY <5>1, <5>2
      <4>2. QED BY <4>1, SetOfFinite DEF TypeOK
    <3>2. IsFiniteSet(SetOf(hand)) /\ Cardinality(SetOf(hand)) = Len(hand)
      <4>1. Len(hand) \in {0, 1} BY DEF ThreadInv
      <4>2. \A i, j \in DOMAIN hand : hand[i] = hand[j] => i = j
        BY DEF ThreadInv
      <4>3. QED BY <4>2, SetOfFinite DEF TypeOK
    <3>3. IsFiniteSet(released) /\ Cardinality(released) \in Nat
      BY FS_CardinalityType DEF SamplesInv
    <3>4. /\ IsFiniteSet(Scheduled)
          /\ Cardinality(Scheduled) = Len(queue) + Len(hand)
      <4>1. SetOf(queue) \cap SetOf(hand) = {} BY DEF SamplesInv
      <4>2. /\ IsFiniteSet(SetOf(queue) \cup SetOf(hand))
            /\ Cardinality(SetOf(queue) \cup SetOf(hand))
                 = Len(queue) + Len(hand) - Cardinality({})
        <5>1. Cardinality(SetOf(queue) \cap SetOf(hand)) = Cardinality({})
          BY <4>1
        <5>2. QED BY <3>1, <3>2, <5>1, FS_Union
      <4>3. Len(queue) + Len(hand) - 0 = Len(queue) + Len(hand) BY DEF TypeOK
      <4>4. QED BY <4>2, <4>3, FS_EmptySet DEF Scheduled
    <3>5. Outstanding = Scheduled \cup released BY DEF Outstanding, Scheduled
    <3>6. Scheduled \cap released = {} BY DEF SamplesInv
    <3>7. Cardinality(Outstanding)
            = Len(queue) + Len(hand) + Cardinality(released) - Cardinality({})
      BY <3>3, <3>4, <3>5, <3>6, FS_Union
    <3>8. Len(queue) \in Nat /\ Len(hand) \in Nat BY DEF TypeOK
    <3>9. QED BY <3>3, <3>7, <3>8, FS_EmptySet
  <2>3. QED BY <2>1, <2>2 DEF PoolAccounted
<1>2. QED BY <1>1, Inductive, PTL

\* Frames are shown in order, none twice and none of before a flush.
THEOREM FramesStayInOrder == Spec => FramesInOrder
<1>1. ASSUME IInv, [Next]_vars
      PROVE  [shown' # shown /\ ~gaveUp => shown' > shown /\ shown' > boundary]_vars
  <2> SUFFICES ASSUME shown' # shown, ~gaveUp
               PROVE  shown' > shown /\ shown' > boundary
    OBVIOUS
  <2>1. Ahead /\ TypeOK /\ SamplesInv BY <1>1 DEF IInv, OrderInv
  <2>2. CASE SampleDue
    <3>1. Head(queue) = queue[1] /\ 1 \in DOMAIN queue /\ shown' = Head(queue).frame
      BY <2>1, <2>2, TailFacts DEF SampleDue, Looks, TypeOK
    <3>2. QED BY <2>1, <3>1 DEF Ahead
  <2>3. CASE ProcessOutput /\ PresentNow(NewSample)
    <3>1. shown' = mixed + 1 BY <2>1, <2>3, NewIsNew DEF PresentNow
    <3>2. shown \in Nat /\ mixed \in Nat /\ boundary \in 0..mixed /\ shown <= mixed
      BY <2>1 DEF TypeOK, Ahead
    <3>3. QED BY <3>1, <3>2
  <2>4. CASE ~SampleDue /\ ~(ProcessOutput /\ PresentNow(NewSample))
    <3> USE DEF vars, schedulerVars, threadVars
    <3>1. CASE Thread
      BY <2>4, <3>1 DEF Thread, WakeForMessage, WakeForSample, NoMessage, ThreadExits,
            HandleTerminate, HandleFlush, HandleSchedule, NoSample, SampleEarly,
            SampleAlmostDue, Looks,
            Presented, PresentFails
    <3>2. CASE Continue
      <4>1. CASE ProcessOutput
        BY <2>4, <4>1 DEF ProcessOutput, Schedule, CannotSchedule
      <4>2. CASE NoOutput \/ OutOfInput \/ Stopped
        BY <4>2 DEF NoOutput, OutOfInput, Stopped, Terminated
      <4>3. CASE Flushed \/ Sought \/ Untyped \/ Retyped
        BY <4>3 DEF Flushed, Sought, Untyped, Retyped, FlushDone, FlushWaited
      <4>4. QED BY <3>2, <4>1, <4>2, <4>3 DEF Continue
    <3>3. CASE StreamChange \/ TypeNotSet
      BY <3>3 DEF StreamChange, TypeNotSet, BeginReleaseResources, BeginFlush, AskToFlush
    <3>31. CASE MixerFails BY <3>31 DEF MixerFails
    <3>4. CASE \E s \in released : OnSampleFree(s) BY <3>4 DEF OnSampleFree
    <3>5. CASE Calls
      BY <3>5
         DEF Calls, ProcessInputNotify, EndOfStream, FlushMessage, RenegotiateMediaType,
             BeginStreaming, EndStreaming, Seek, ClockStart, ClockStop, ClockPause, Call,
             BeginReleaseResources, BeginFlush, AskToFlush, StartScheduler,
             AskToTerminate
    <3>6. CASE UNCHANGED vars BY <3>6
    <3>7. QED BY <1>1, <3>1, <3>2, <3>3, <3>31, <3>4, <3>5, <3>6 DEF Next
  <2>5. QED BY <2>2, <2>3, <2>4
<1>2. QED BY <1>1, Inductive, PTL DEF Spec, FramesInOrder

\* EC_COMPLETE finds nothing in the mixer, the queue or the thread's hand.
THEOREM CompleteIsDone == Spec => CompleteMeansDone
<1>1. ASSUME IInv, [Next]_vars
      PROVE  [completes' > completes /\ ~gaveUp /\ Alive =>
                mixed = inputs /\ queue = <<>> /\ hand = <<>>]_vars
  <2> SUFFICES ASSUME completes' > completes, ~gaveUp, Alive
               PROVE  mixed = inputs /\ queue = <<>> /\ hand = <<>>
    OBVIOUS
  <2>1. TypeOK /\ SamplesInv /\ PoolInv /\ EndInv /\ AllFresh
    BY <1>1 DEF IInv, OrderInv
  <2>2. completes \in Nat /\ ~(completes > completes) BY <2>1 DEF TypeOK
  <2>3. /\ OutOfInput \/ EndOfStream
        /\ ~(ready /\ pending > 0) /\ doing \in {"nothing", "output"}
        /\ ~notify \/ mixed = inputs
    <3>1. CASE OutOfInput
      <4>1. Complete
        BY <2>2, <3>1 DEF OutOfInput, CheckEndOfStream
      <4>2. QED BY <3>1, <4>1 DEF OutOfInput, Asks, Complete
    <3>2. CASE EndOfStream
      BY <2>2, <3>2 DEF EndOfStream
    <3>3. CASE ~OutOfInput /\ ~EndOfStream
      <4>1. completes' = completes
        BY <1>1, <3>3
           DEF Next, Continue, NoOutput, ProcessOutput, Flushed, Sought, Untyped,
               Retyped, Stopped, StreamChange, TypeNotSet, MixerFails, OnSampleFree,
               Calls, ProcessInputNotify,
               FlushMessage, RenegotiateMediaType, BeginStreaming, EndStreaming, Seek,
               ClockStart, ClockStop, ClockPause, Call, vars, presenterVars,
               streamVars
      <4>2. QED BY <2>2, <4>1
    <3>4. QED BY <3>1, <3>2, <3>3
  <2>4. mixed = inputs BY <2>1, <2>3 DEF EndInv
  <2>5. \A s \in Outstanding : ~Fresh(s)
    <3>1. CASE ~ready BY <2>1, <3>1 DEF PoolInv
    <3>2. CASE ready
      <4>1. pending = 0 BY <2>1, <2>3, <3>2 DEF TypeOK
      <4>2. Cardinality(Lent) = 0
        BY <2>1, <2>3, <3>2, <4>1 DEF PoolInv, Lent
      <4>3. Lent = {} BY <2>1, <4>2, LentFinite, FS_EmptySet
      <4>4. QED BY <4>3 DEF Lent
    <3>3. QED BY <3>1, <3>2
  <2>6. \A s \in Scheduled : Fresh(s) BY <2>1, <2>3 DEF AllFresh
  <2>7. Scheduled \subseteq Outstanding BY DEF Scheduled, Outstanding
  <2>8. SetOf(queue) = {} /\ SetOf(hand) = {} BY <2>5, <2>6, <2>7 DEF Scheduled
  <2>9. ASSUME NEW q \in Seq(Samples), q # <<>> PROVE SetOf(q) # {}
    BY <2>9, TailFacts
  <2>10. QED BY <2>1, <2>4, <2>8, <2>9 DEF TypeOK
<1>2. QED BY <1>1, Inductive, PTL DEF Spec, CompleteMeansDone
=============================================================================
