---------------------------- MODULE EvrPresenter ----------------------------
(* The presenter of the enhanced video renderer, composed with its           *)
(* scheduler: messages and clock notifications from the EVR, the pool of     *)
(* samples with its token counter, the loop that gets frames from the mixer, *)
(* and the callback that takes a sample back when nobody uses it any more.   *)
(*                                                                           *)
(* Every operation holds m_ObjectLock from its first step to its last; doing *)
(* says what is left of the one that holds it:                               *)
(*   output            ProcessOutputLoop                                     *)
(*   retypeLoop        that, after new samples, after a flush                *)
(*   flush             nothing once the scheduler has flushed                *)
(*   seek              the output loop once it has flushed                   *)
(*   retype, untype    a new media type, or none, once it has flushed        *)
(*   stopping          nothing once the scheduler's thread has exited        *)
(* The samples of a batch are alike: the pool is the number of those in it.  *)
(* Frame stepping, scrubbing, repainting and shutting down are left out.     *)
EXTENDS EvrScheduler

CONSTANTS Buffers,     \* PRESENTER_BUFFER_COUNT
          MaxFrames,   \* how many frames the mixer is given
          MaxCalls     \* how often the EVR calls the presenter otherwise

ASSUME PresenterAssumption ==
  Buffers \in Nat \ {0} /\ MaxFrames \in Nat /\ MaxCalls \in Nat
    /\ MaxFailures \in Nat

VARIABLES
  doing,
  state,       \* m_RenderState
  token,       \* m_TokenCounter
  notify,      \* m_bSampleNotify
  prerolled,   \* m_bPrerolled
  ending,      \* m_bEndStreaming
  ready,       \* there is a media type, and SamplePool::m_bInitialized
  free,        \* how many samples SamplePool::m_VideoSampleQueue has
  pending,     \* SamplePool::m_cPending
  inputs,      \* how many frames the mixer was given
  mixed,       \* how many it has put out
  completes,   \* how often EC_COMPLETE was sent
  boundary,    \* mixed when the scheduler had flushed last
  disturbed,   \* history: the output loop ended with input or the end in sight,
               \* and with no sample to come back and start it again
  calls

batchVars  == <<token, disturbed>>
poolVars   == <<ready, free, pending>>
mixerVars  == <<inputs, mixed>>
streamVars == <<notify, ending, completes>>

vars == <<schedulerVars, doing, state, batchVars, prerolled, poolVars, mixerVars,
          streamVars, boundary, calls>>

Active == state \in {"started", "paused"}

Fresh(s) == s.token = token

\* The samples that are not in the pool.
Outstanding == SetOf(queue) \cup SetOf(hand) \cup released

-----------------------------------------------------------------------------
(* Parts of operations *)

\* Mutant of Complete: samples may be pending.
CompleteEarly == ending /\ ~notify'

\* CheckEndOfStream sends EC_COMPLETE.
Complete == ending /\ ~notify' /\ ~(ready /\ pending > 0)

\* Mutant of CheckEndOfStream: m_bEndStreaming is not reset.
CheckEndOfStreamAgain ==
  /\ completes' = IF Complete THEN completes + 1 ELSE completes
  /\ UNCHANGED ending

CheckEndOfStream ==
  IF Complete THEN completes' = completes + 1 /\ ending' = FALSE
  ELSE UNCHANGED <<completes, ending>>

\* Flush up to its wait; then d is left to do.
BeginFlush(d) ==
  /\ prerolled' = FALSE
  /\ AskToFlush
  /\ doing' = d

\* ReleaseResources up to the wait of its flush.
BeginReleaseResources(d) ==
  /\ token' = token + 1
  /\ disturbed' = (disturbed \/ (d # "retypeLoop" /\ (notify \/ ending)))
  /\ BeginFlush(d)

-----------------------------------------------------------------------------
(* What is left to do *)

\* The mixer is asked for no frame: the clock does not run and the first frame
\* was presented, or there is no free sample.
NoOutput ==
  /\ doing = "output" /\ notify
  /\ (state # "started" /\ prerolled) \/ ~ready \/ free = 0
  /\ doing' = "nothing"
  /\ UNCHANGED <<schedulerVars, state, batchVars, prerolled, poolVars, mixerVars,
                 streamVars, boundary, calls>>

Asks ==
  /\ doing = "output" /\ notify
  /\ state = "started" \/ ~prerolled
  /\ ready /\ free > 0

\* The mixer has no more input, or had none.
OutOfInput ==
  /\ \/ doing = "output" /\ ~notify
     \/ Asks /\ mixed = inputs
  /\ notify' = FALSE
  /\ CheckEndOfStream
  /\ doing' = "nothing"
  /\ UNCHANGED <<schedulerVars, state, batchVars, prerolled, poolVars, mixerVars,
                 boundary, calls>>

NewSample == [frame |-> mixed + 1, token |-> token]

\* ProcessOutput gets a frame and delivers it.
ProcessOutput ==
  /\ Asks /\ mixed < inputs
  /\ mixed' = mixed + 1
  /\ free' = free - 1 /\ pending' = pending + 1
  /\ \/ /\ state = "started" /\ Schedule(NewSample)
        /\ prerolled' = TRUE
        /\ UNCHANGED doing
     \/ /\ state # "started" /\ PresentNow(NewSample)
        /\ prerolled' = TRUE
        /\ UNCHANGED doing
     \/ /\ CannotSchedule(NewSample)
        /\ doing' = "nothing"
        /\ UNCHANGED prerolled
  /\ UNCHANGED <<state, batchVars, ready, inputs, streamVars, boundary, calls>>

\* The mixer's output type has changed: the media type is cleared.
StreamChange ==
  /\ Asks /\ calls < MaxCalls
  /\ calls' = calls + 1
  /\ BeginReleaseResources("untype")
  /\ UNCHANGED <<state, poolVars, mixerVars, streamVars, boundary>>

\* The mixer's output type is not set.  The presenter has another one made of what
\* the mixer offers, with new samples, and the loop goes on; or it ends up with none.
TypeNotSet ==
  /\ Asks /\ calls < MaxCalls
  /\ calls' = calls + 1
  /\ \E d \in {"retypeLoop", "untype"} : BeginReleaseResources(d)
  /\ UNCHANGED <<state, poolVars, mixerVars, streamVars, boundary>>

\* The mixer fails, or has no type to offer: the sample is returned and the loop
\* ends.  m_bSampleNotify stays set, until the next sample comes back, if any.
MixerFails ==
  /\ Asks /\ calls < MaxCalls
  /\ calls' = calls + 1
  /\ disturbed' = (disturbed \/ pending = 0)
  /\ doing' = "nothing"
  /\ UNCHANGED <<schedulerVars, state, token, prerolled, poolVars, mixerVars, streamVars,
                 boundary>>

\* The flush is over.
FlushDone ==
  /\ FlushWaited
  /\ boundary' = IF Alive THEN mixed ELSE boundary

Flushed ==
  /\ doing = "flush"
  /\ FlushDone
  /\ doing' = "nothing"
  /\ UNCHANGED <<state, batchVars, prerolled, poolVars, mixerVars, streamVars, calls>>

Sought ==
  /\ doing = "seek"
  /\ FlushDone
  /\ doing' = "output"
  /\ UNCHANGED <<state, batchVars, prerolled, poolVars, mixerVars, streamVars, calls>>

\* The rest of ReleaseResources: SamplePool::Clear.
Untyped ==
  /\ doing = "untype"
  /\ FlushDone
  /\ ready' = FALSE /\ free' = 0 /\ pending' = 0
  /\ doing' = "nothing"
  /\ UNCHANGED <<state, batchVars, prerolled, mixerVars, streamVars, calls>>

\* The same, and new samples.
Retyped ==
  /\ doing \in {"retype", "retypeLoop"}
  /\ FlushDone
  /\ ready' = TRUE /\ free' = Buffers /\ pending' = 0
  /\ doing' = IF doing = "retype" THEN "nothing" ELSE "output"
  /\ UNCHANGED <<state, batchVars, prerolled, mixerVars, streamVars, calls>>

Stopped ==
  /\ doing = "stopping"
  /\ Terminated
  /\ doing' = "nothing"
  /\ UNCHANGED <<state, batchVars, prerolled, poolVars, mixerVars, streamVars, boundary,
                 calls>>

Continue ==
  \/ NoOutput \/ OutOfInput \/ ProcessOutput
  \/ Flushed \/ Sought \/ Untyped \/ Retyped \/ Stopped

-----------------------------------------------------------------------------
(* OnSampleFree *)

\* Mutant of TakeBack: stale samples are taken back.
TakeBackAny(s) ==
  /\ free' = free + 1 /\ pending' = pending - 1
  /\ doing' = "output"

\* A sample of the present batch goes back to the pool, and there may be output.
TakeBack(s) ==
  IF Fresh(s)
  THEN /\ free' = free + 1 /\ pending' = pending - 1
       /\ doing' = "output"
  ELSE UNCHANGED <<free, pending, doing>>

\* Mutant of OnSampleFree: the output loop is not entered.
OnSampleFreeOnly(s) ==
  /\ doing = "nothing" /\ s \in released
  /\ released' = released \ {s}
  /\ IF Fresh(s) THEN free' = free + 1 /\ pending' = pending - 1
     ELSE UNCHANGED <<free, pending>>
  /\ UNCHANGED <<handle, threadVars, messages, queue, flushed, shown, gaveUp, doing,
                 state, batchVars, prerolled, ready, mixerVars, streamVars, boundary, calls>>

OnSampleFree(s) ==
  /\ doing = "nothing" /\ s \in released
  /\ released' = released \ {s}
  /\ TakeBack(s)
  /\ UNCHANGED <<handle, threadVars, messages, queue, flushed, shown, gaveUp,
                 state, batchVars, prerolled, ready, mixerVars, streamVars, boundary, calls>>

-----------------------------------------------------------------------------
(* Calls of the EVR *)

Call ==
  /\ doing = "nothing" /\ calls < MaxCalls
  /\ calls' = calls + 1
  /\ UNCHANGED <<poolVars, mixerVars, boundary>>

\* MFVP_MESSAGE_PROCESSINPUTNOTIFY.
ProcessInputNotify ==
  /\ doing = "nothing" /\ inputs < MaxFrames
  /\ inputs' = inputs + 1
  /\ notify' = TRUE
  /\ doing' = IF ready THEN "output" ELSE "nothing"
  /\ UNCHANGED <<schedulerVars, state, batchVars, prerolled, poolVars, mixed, ending,
                 completes, boundary, calls>>

\* MFVP_MESSAGE_ENDOFSTREAM.
EndOfStream ==
  /\ doing = "nothing" /\ ~ending /\ completes = 0
  /\ IF ~notify /\ ~(ready /\ pending > 0)
     THEN completes' = completes + 1 /\ UNCHANGED ending
     ELSE ending' = TRUE /\ UNCHANGED completes
  /\ UNCHANGED <<schedulerVars, doing, state, batchVars, notify, prerolled, poolVars,
                 mixerVars, boundary, calls>>

\* MFVP_MESSAGE_FLUSH.
FlushMessage ==
  /\ Call
  /\ BeginFlush("flush")
  /\ UNCHANGED <<state, batchVars, streamVars>>

\* MFVP_MESSAGE_INVALIDATEMEDIATYPE, if the type is another one.  Samples are
\* created, or cannot be.
RenegotiateMediaType ==
  /\ Call
  /\ \E d \in {"retype", "untype"} : BeginReleaseResources(d)
  /\ UNCHANGED <<state, streamVars>>

BeginStreaming ==
  /\ Call
  /\ StartScheduler
  /\ UNCHANGED <<doing, state, batchVars, prerolled, streamVars>>

\* Not counted among the calls: there is one for each BeginStreaming at most.
EndStreaming ==
  /\ doing = "nothing" /\ handle /\ state = "stopped"
  /\ AskToTerminate
  /\ doing' = "stopping"
  /\ UNCHANGED <<state, batchVars, prerolled, poolVars, mixerVars, streamVars, boundary,
                 calls>>

\* OnClockStart at another position, with the clock stopped or not.
Seek ==
  /\ Call
  /\ Active
  /\ state' = "started"
  /\ BeginFlush("seek")
  /\ UNCHANGED <<batchVars, streamVars>>

\* OnClockStart from the stopped state or at the current position, OnClockRestart.
ClockStart ==
  /\ Call
  /\ state' = "started"
  /\ doing' = "output"
  /\ UNCHANGED <<schedulerVars, batchVars, prerolled, streamVars>>

ClockStop ==
  /\ Call
  /\ state # "stopped"
  /\ state' = "stopped"
  /\ BeginFlush("flush")
  /\ UNCHANGED <<batchVars, streamVars>>

ClockPause ==
  /\ Call
  /\ state' = "paused"
  /\ UNCHANGED <<schedulerVars, doing, batchVars, prerolled, streamVars>>

Calls ==
  \/ ProcessInputNotify \/ EndOfStream \/ FlushMessage \/ RenegotiateMediaType
  \/ BeginStreaming \/ EndStreaming
  \/ Seek \/ ClockStart \/ ClockStop \/ ClockPause

-----------------------------------------------------------------------------
\* After InitServicePointers.
Init ==
  /\ SchedulerInit
  /\ doing = "nothing" /\ state = "stopped" /\ token = 0
  /\ notify = FALSE /\ prerolled = FALSE /\ ending = FALSE
  /\ ready = FALSE /\ free = 0 /\ pending = 0
  /\ inputs = 0 /\ mixed = 0 /\ completes = 0 /\ boundary = 0 /\ calls = 0
  /\ disturbed = FALSE

presenterVars ==
  <<doing, state, batchVars, prerolled, poolVars, mixerVars, streamVars, boundary,
    calls>>

Next ==
  \/ Thread /\ UNCHANGED presenterVars
  \/ Continue \/ StreamChange \/ TypeNotSet \/ MixerFails
  \/ \E s \in released : OnSampleFree(s)
  \/ Calls

\* The thread runs, and its callback returns; while the clock runs, a sample's
\* time comes, also for a thread that looks at it without a pause, which nothing
\* else gets out of that; operations go on; samples let go of are given back.
Fairness ==
  /\ WF_vars((Thread /\ ~PresentFails /\ thread # "almost") /\ UNCHANGED presenterVars)
  /\ SF_vars(state = "started" /\ SampleDue /\ UNCHANGED presenterVars)
  /\ WF_vars(Continue)
  /\ WF_vars(\E s \in released : OnSampleFree(s))

Spec == Init /\ [][Next]_vars /\ Fairness

-----------------------------------------------------------------------------
(* Properties *)

Samples == [frame : 1..MaxFrames, token : 0..MaxCalls]

\* Every variable has the values its counterpart can have.
TypeOK ==
  /\ handle \in BOOLEAN /\ thread \in ThreadPlaces
  /\ exiting \in BOOLEAN /\ sleep \in {"infinite", "finite"}
  /\ messages \in Seq(Messages)
  /\ queue \in Seq(Samples) /\ hand \in Seq(Samples) /\ released \subseteq Samples
  /\ flushed \in BOOLEAN /\ shown \in 0..MaxFrames
  /\ gaveUp \in BOOLEAN /\ failures \in 0..MaxFailures
  /\ doing \in {"nothing", "output", "flush", "seek", "retype", "retypeLoop", "untype",
               "stopping"}
  /\ state \in {"stopped", "started", "paused"}
  /\ token \in 0..MaxCalls /\ calls \in 0..MaxCalls
  /\ notify \in BOOLEAN /\ prerolled \in BOOLEAN
  /\ ending \in BOOLEAN /\ completes \in 0..1 /\ ready \in BOOLEAN
  /\ free \in 0..Buffers /\ pending \in 0..Buffers
  /\ inputs \in 0..MaxFrames /\ mixed \in 0..inputs /\ boundary \in 0..mixed
  /\ disturbed \in BOOLEAN

\* The pool knows where its samples are: those of the present batch that it does
\* not have are scheduled, being presented or about to be given back, each in one
\* place, and are counted as pending.  A stale sample is never taken for one.
PoolAccounted ==
  /\ ready /\ doing \notin {"retype", "retypeLoop", "untype"} =>
       /\ pending = Cardinality({s \in Outstanding : Fresh(s)})
       /\ free + pending = Buffers
  /\ Cardinality(Outstanding) = Len(queue) + Len(hand) + Cardinality(released)

\* Frames are shown in the order of the mixer, none twice, and after a flush none
\* that was mixed before it: the comment in Flush says that it "blocks until the
\* scheduler threads discards all scheduled samples".  Not so once a flush has
\* been given up.
FramesInOrder ==
  [][shown' # shown /\ ~gaveUp => shown' > shown /\ shown' > boundary]_vars

\* EC_COMPLETE says that everything the mixer was given was shown or flushed:
\* nothing is left in the mixer, in the queue or in the thread's hand.  Not so
\* once a flush was given up or found no thread.
CompleteMeansDone ==
  [][completes' > completes /\ ~gaveUp /\ Alive =>
       mixed = inputs /\ queue = <<>> /\ hand = <<>>]_vars

\* If the clock keeps running and the thread is alive, the end of the stream is
\* reported.  Excepted are a change of the media type while the mixer has input or the
\* end was announced, whose samples are not given back, unless the output loop made
\* it, and a mixer that fails while no sample is pending: then neither the output loop
\* nor CheckEndOfStream is called again.
EndReported ==
  <>[](state = "started" /\ ready /\ Alive /\ ~exiting /\ ~disturbed) => []<>~ending

\* Every operation ends and gives up m_ObjectLock: the waits for the thread end.
\* Excepted is EndStreaming when the thread looks again and again at a sample that is
\* early by less than a millisecond, which the stopped clock leaves so.
CallsReturn ==
  []<>(doing = "nothing") \/ <>[](doing = "stopping" /\ thread = "almost")
=============================================================================
