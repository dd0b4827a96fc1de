---------------------------- MODULE EvrScheduler ----------------------------
(* The EVR presenter's scheduler: a queue of samples, and a thread that      *)
(* presents each when its time has come.  The presenter talks to the thread  *)
(* by messages; for a flush it waits for an event the thread sets, at most   *)
(* SCHEDULER_TIMEOUT.                                                        *)
(*                                                                           *)
(* A sample is the number of the frame it holds and the token of the batch   *)
(* it was created in.  Time is left out: whether the head of the queue is    *)
(* due, early, or early by less than a millisecond is open each time the     *)
(* thread looks at it.                                                       *)
EXTENDS Naturals, Sequences, FiniteSets

CONSTANT MaxFailures   \* how many samples cannot be presented

VARIABLES
  handle,     \* m_hSchedulerThread is set
  thread,     \* where the thread is, see ThreadPlaces
  exiting,    \* bExitThread
  sleep,      \* lWait: "infinite" or "finite"
  messages,   \* the thread's message queue
  queue,      \* m_ScheduledSamples
  hand,       \* the sample being presented, if any
  flushed,    \* m_hFlushEvent, which resets itself
  released,   \* samples nobody refers to any more: OnSampleFree is to come
  shown,      \* the frame presented last
  gaveUp,     \* history: the wait for a flush has timed out
  failures

threadVars == <<thread, exiting, sleep, hand, failures>>

schedulerVars ==
  <<handle, threadVars, messages, queue, flushed, released, shown, gaveUp>>

\* waiting: for a message or the end of the sleep; peeking: in the inner loop of
\* SchedulerThreadProcPrivate; processing: in ProcessSamplesInQueue; almost: there,
\* with a head that was not due and a sleep that came out as zero; presenting: in the
\* callback; leaving: behind its last look for messages.
ThreadPlaces ==
  {"none", "waiting", "peeking", "processing", "almost", "presenting", "leaving",
   "exited"}

Messages == {"schedule", "flush", "terminate"}

Alive == handle /\ thread # "exited"

SetOf(s) == {s[i] : i \in DOMAIN s}

\* PostThreadMessage, which fails when the thread has exited.
Posted(m) == IF Alive THEN Append(messages, m) ELSE messages

-----------------------------------------------------------------------------
(* The thread *)

WakeForMessage ==
  /\ thread = "waiting" /\ messages # <<>>
  /\ thread' = "peeking"
  /\ UNCHANGED <<handle, exiting, sleep, hand, failures, messages, queue, flushed,
                 released, shown, gaveUp>>

WakeForSample ==
  /\ thread = "waiting" /\ sleep = "finite"
  /\ thread' = "processing"
  /\ UNCHANGED <<handle, exiting, sleep, hand, failures, messages, queue, flushed,
                 released, shown, gaveUp>>

\* Mutant of NoMessage: the thread does not look at bExitThread.
NoMessageEver ==
  /\ thread = "peeking" /\ messages = <<>>
  /\ thread' = "waiting"
  /\ UNCHANGED <<handle, exiting, sleep, hand, failures, messages, queue, flushed,
                 released, shown, gaveUp>>

NoMessage ==
  /\ thread = "peeking" /\ messages = <<>>
  /\ thread' = IF exiting THEN "leaving" ELSE "waiting"
  /\ UNCHANGED <<handle, exiting, sleep, hand, failures, messages, queue, flushed,
                 released, shown, gaveUp>>

\* What was posted or queued since the last look stays where it is.
ThreadExits ==
  /\ thread = "leaving"
  /\ thread' = "exited"
  /\ UNCHANGED <<handle, exiting, sleep, hand, failures, messages, queue, flushed,
                 released, shown, gaveUp>>

Peek(m) ==
  /\ thread = "peeking" /\ messages # <<>> /\ Head(messages) = m
  /\ messages' = Tail(messages)

HandleTerminate ==
  /\ Peek("terminate")
  /\ exiting' = TRUE
  /\ UNCHANGED <<handle, thread, sleep, hand, failures, queue, flushed, released,
                 shown, gaveUp>>

\* Mutant of HandleFlush: the event is set, the queue is not cleared.
HandleFlushKeeping ==
  /\ Peek("flush")
  /\ sleep' = "infinite"
  /\ flushed' = TRUE
  /\ UNCHANGED <<handle, thread, exiting, hand, failures, queue, released, shown,
                 gaveUp>>

HandleFlush ==
  /\ Peek("flush")
  /\ queue' = <<>>
  /\ released' = released \cup SetOf(queue)
  /\ sleep' = "infinite"
  /\ flushed' = TRUE
  /\ UNCHANGED <<handle, thread, exiting, hand, failures, shown, gaveUp>>

HandleSchedule ==
  /\ Peek("schedule")
  /\ thread' = "processing"
  /\ UNCHANGED <<handle, exiting, sleep, hand, failures, queue, flushed, released,
                 shown, gaveUp>>

\* ProcessSamplesInQueue has no more samples.
NoSample ==
  /\ thread = "processing" /\ queue = <<>>
  /\ thread' = "peeking"
  /\ sleep' = "infinite"
  /\ UNCHANGED <<handle, exiting, hand, failures, messages, queue, flushed, released,
                 shown, gaveUp>>

\* The head is to be looked at, for the first time or once more.
Looks == thread \in {"processing", "almost"} /\ queue # <<>>

\* ProcessSample finds the head early and puts it back.
SampleEarly ==
  /\ Looks
  /\ thread' = "peeking"
  /\ sleep' = "finite"
  /\ UNCHANGED <<handle, exiting, hand, failures, messages, queue, flushed, released,
                 shown, gaveUp>>

\* It is early by so little that the sleep is rounded to zero, which the loop takes
\* for a sample presented: it looks at the same sample again, and at no message.
SampleAlmostDue ==
  /\ thread = "processing" /\ queue # <<>>
  /\ thread' = "almost"
  /\ UNCHANGED <<handle, exiting, sleep, hand, failures, messages, queue, flushed,
                 released, shown, gaveUp>>

SampleDue ==
  /\ Looks
  /\ thread' = "presenting"
  /\ hand' = <<Head(queue)>>
  /\ queue' = Tail(queue)
  /\ shown' = Head(queue).frame
  /\ UNCHANGED <<handle, exiting, sleep, failures, messages, flushed, released,
                 gaveUp>>

\* The callback returns, and the thread lets go of the sample.
Presented ==
  /\ thread = "presenting"
  /\ thread' = "processing"
  /\ released' = released \cup SetOf(hand)
  /\ hand' = <<>>
  /\ UNCHANGED <<handle, exiting, sleep, failures, messages, queue, flushed, shown,
                 gaveUp>>

\* It fails: the thread exits once it has no more messages.
PresentFails ==
  /\ thread = "presenting" /\ failures < MaxFailures
  /\ failures' = failures + 1
  /\ thread' = "peeking"
  /\ exiting' = TRUE
  /\ sleep' = "infinite"
  /\ released' = released \cup SetOf(hand)
  /\ hand' = <<>>
  /\ UNCHANGED <<handle, messages, queue, flushed, shown, gaveUp>>

Thread ==
  \/ WakeForMessage \/ WakeForSample \/ NoMessage \/ ThreadExits
  \/ HandleTerminate \/ HandleFlush \/ HandleSchedule
  \/ NoSample \/ SampleEarly \/ SampleAlmostDue \/ SampleDue
  \/ Presented \/ PresentFails

-----------------------------------------------------------------------------
(* What the presenter calls *)

StartScheduler ==
  /\ ~handle
  /\ handle' = TRUE
  /\ thread' = "waiting" /\ exiting' = FALSE /\ sleep' = "infinite"
  /\ flushed' = FALSE
  /\ UNCHANGED <<hand, failures, messages, queue, released, shown, gaveUp>>

\* StopScheduler, and then the end of its wait.
AskToTerminate ==
  /\ messages' = Posted("terminate")
  /\ UNCHANGED <<handle, threadVars, queue, flushed, released, shown, gaveUp>>

Terminated ==
  /\ handle => thread = "exited"
  /\ handle' = FALSE
  /\ thread' = "none" /\ messages' = <<>>
  /\ queue' = <<>>
  /\ released' = released \cup SetOf(queue)
  /\ UNCHANGED <<exiting, sleep, hand, failures, flushed, shown, gaveUp>>

\* Flush, and then the end of its wait: the event is set, the thread has exited,
\* or the time is up.
AskToFlush ==
  /\ messages' = Posted("flush")
  /\ UNCHANGED <<handle, threadVars, queue, flushed, released, shown, gaveUp>>

FlushWaited ==
  /\ \/ ~Alive /\ UNCHANGED <<flushed, gaveUp>>
     \/ Alive /\ flushed /\ flushed' = FALSE /\ UNCHANGED gaveUp
     \/ Alive /\ ~flushed /\ gaveUp' = TRUE /\ UNCHANGED flushed
  /\ UNCHANGED <<handle, threadVars, messages, queue, released, shown>>

\* ScheduleSample of a sample to be presented when it is due, or now.
Schedule(s) ==
  /\ Alive
  /\ queue' = Append(queue, s)
  /\ messages' = Posted("schedule")
  /\ UNCHANGED <<handle, threadVars, flushed, released, shown, gaveUp>>

PresentNow(s) ==
  /\ Alive
  /\ shown' = s.frame
  /\ released' = released \cup {s}
  /\ UNCHANGED <<handle, threadVars, messages, queue, flushed, gaveUp>>

\* It fails without a thread, and the caller lets go of the sample.
CannotSchedule(s) ==
  /\ ~Alive
  /\ released' = released \cup {s}
  /\ UNCHANGED <<handle, threadVars, messages, queue, flushed, shown, gaveUp>>

SchedulerInit ==
  /\ handle = FALSE /\ thread = "none" /\ exiting = FALSE /\ sleep = "infinite"
  /\ messages = <<>> /\ queue = <<>> /\ hand = <<>> /\ flushed = FALSE
  /\ released = {} /\ shown = 0 /\ gaveUp = FALSE /\ failures = 0
=============================================================================
