# A TLA+ model of RtspSourceFilter

RtspSourceFilter is a DirectShow source filter for RTSP: it opens a url with the
live555 library, reads H.264 and AAC from the server and delivers time-stamped
samples on its output pins.  The repository also holds an EVR and a VMR9
presenter, a player for WPF, and copies of live555 and of the DirectShow base
classes.

This directory models the program in TLA+, checks small instances with TLC and
proves theorems for every value of the constants with TLAPS.  The definitions
are read from the source; `PROJECT.json` maps each one to its lines.

    tlc -config RtspSource.cfg MCRtspSource     # one of the runs of section 3
    tlc -config TaskScheduler.cfg MCTaskScheduler
    tlapm RtspSourceProofs.tla                  # one of the proofs of section 5

## 1. Inventory

### Threads

| Thread | Runs | Touches |
|---|---|---|
| application | `Load`, `Run`, `Pause`, `Stop`, destructor, setters | pushes requests, waits for futures, reads `_state`, starts and joins the pins' threads |
| worker | `RtspSourceFilter::WorkerThread` | owns the RTSP client and the live555 scheduler, pops requests, sets promises, pushes media packets |
| one per pin | `CSourceStream::ThreadProc`, `FillBuffer` | pops the media queue, delivers samples |
| EVR scheduler | `Scheduler::SchedulerThreadProc` | presents samples in time (another DLL) |

### Components

**Session state machine** (`src/RtspSourceFilter/RtspSource.cpp`).
State: `_state` (Initial, SettingUp, ReadyToPlay, Playing, Reconnecting),
`_requestQueue`, `_currentRequest`, the client `_rtsp` with session, iterator
and sinks, five task tokens, statistics, settings.  Operations: the requests
Open, Play, Stop, Reconnect, Done; the answers to DESCRIBE, SETUP, PLAY and
OPTIONS; the timer tasks; BYE and the end of a source; the calls of the filter.
Hard: a handler may be called with the session in any state; a failure may be
found inside the send; promises are set before or after `_state`; the worker
sends itself requests that queue behind those of the application.
Correct when: a handler only runs in a state it is written for, every promise
gets one value, no timer outlives what it is for, every call returns, and a
session that is lost is retried or its pins are told.

**Request and media queues** (`ConcurrentQueue.h`).  A deque, a mutex, a
condition variable.  Correct when it is a FIFO whose `pop` wakes up: every
operation reads and changes the deque under the mutex, and `pop` waits with a
condition that it looks at under the mutex.

**Output pins** (`RtspSourcePin.cpp`).  Time baselines, RTCP synchronisation, the
queue's other end.  The worker resets the baselines while a pin reads them.
Correct when an end-of-stream marker always reaches a thread that waits.

**Media sink** (`ProxyMediaSink.cpp`).  A receive buffer that grows after a
truncated frame; pushes complete frames.

**Media types** (`H264StreamParser.cpp`, `RtspSourcePin.cpp`).  Pure functions:
Exp-Golomb codes, the frame size of a sequence parameter set, AAC configuration.

**live555 event loop** (`BasicTaskScheduler.cpp`, `DelayQueue.cpp`).
State: the delay queue, a list of entries that each hold the time from the one
before; the clock it was last synchronised with; the set of socket handlers and
the socket handled last.  Operations: schedule, unschedule, assign and remove a
handler, `SingleStep`.  Hard: the sums of the differences must survive every mix
of operations, with a wall clock that can be set back; one handler and one
alarm per step must be enough for everybody.
Correct when every task has a countdown of its own and is called when it is over,
not before, and every ready socket is handled.

**live555 RTSP client** (`RTSPClient.cpp`).
State: three queues of requests (awaiting the connection, the HTTP tunnel, the
response), the sockets, the numbers of the requests, the authenticator, the
bytes read.  Operations: send a command, the outcome of a connection, read and
parse responses, send again after 401 or to another address after 301 and 302.
Hard: response handlers run in the middle of all this and send commands; a
nonempty queue stands for a pending connection.
Correct when each request is in one place, its handler is called once and with
its own answer, and none waits for what will not come.

**live555 reception** (`MultiFramedRTPSource.cpp`, `RTPSource.cpp`,
`H264VideoRTPSource.cpp`, `RTCP.cpp`).
State: the reordering queue, the 16-bit number expected next, the extended
numbers of the statistics, the flags that say whether the current packet begins
and completes a frame.  Operations: a packet arrives, the sink asks for a frame, a
gap is given up after a time limit.  Hard: numbers wrap while packets overtake one
another; flags of one packet are read for the next.
Correct when the sink is given whole frames of the stream, in order.

**DirectShow base classes** (`source.cpp`, `amfilter.cpp`, `wxutil.cpp`).
`CBaseFilter` states, `CAMThread` with its command handshake.

**EVR scheduler** (`scheduler.cpp`).  State: a thread with its message queue, the
queue of samples, the event that a flush is done.  Operations: start, stop,
schedule, flush.  Hard: a flush waits for the thread at most a time limit; the
thread puts a sample back that is early.

**EVR presenter** (`Presenter.cpp`, `PresentEngine.cpp`).  State: the rendering
state, the pool of samples with a token that tells batches apart, what has still
to be mixed, the announced end of the stream.  Operations: the messages and clock
notifications of the EVR, the output loop, `OnSampleFree`.  Hard: samples come
back on another thread after their batch was replaced; operations wait for the
scheduler's thread with a lock held.
Correct when the pool accounts for its samples, frames are shown in order and not
after a flush, and EC_COMPLETE is sent once everything was shown, and then is.

**VMR9 presenter, WPF player, test program**.  Another renderer and callers of the
filter; see section 6.

### How the components interact

    application --Open/Play/Stop/Done--> request queue --> worker
    application <------future----------- promise ------- worker
    worker <--answers, packets, BYE--- live555 select ---> server
    worker <--timer tasks------------- delay queue
    RTSP client <--response handlers, send----> session state machine
    reordering queue --frames--------> media sink
    worker --Reconnect/Stop----------> request queue (to itself)
    worker --packets, markers--------> media queues ----> pins' threads
    application --Pause: clear queues, start threads; Stop: join--> pins
    EVR --messages, clock------------> presenter --schedule, flush--> scheduler
    scheduler's thread --samples let go of--> OnSampleFree --> pool

## 2. Modules

| Module | Models |
|---|---|
| `RtspSource` | the session state machine with its worker, its timers, the application, the media queues and the pins' threads |
| `TaskScheduler` | `BasicTaskScheduler::SingleStep`, the delay queue and the set of socket handlers |
| `Countdowns` | what the delay queue promises: each task has a countdown of its own |
| `RtspClient` | the request queues of `RTSPClient`, its connections and the parsing of responses |
| `PacketReordering` | the reordering buffer, the making of frames, the extended sequence numbers |
| `FrameStream` | what a source of frames promises its sink |
| `EvrScheduler` | the scheduler of the EVR presenter: thread, messages, queue, flush |
| `EvrPresenter` | the presenter, composed with `EvrScheduler`: output loop, pool, end of the stream |
| `MC...` | the instances TLC checks |
| `LeastNumbers` | the induction the proofs use |
| `RtspSourceProofs`, `RtspSourcePins`, `TaskSchedulerProofs`, `PacketReorderingProofs`, `EvrPresenterProofs`, `RtspClientProofs`, `RtspClientWaits` | the proofs |

`RtspSource` sees live555 as its callbacks: an alarm that comes due, an answer
that is handled.  `TaskScheduler`, `RtspClient` and `PacketReordering` say what
live555 does to make them so: a token names one task and no task is early; a
handler is called once, with the answer to its own command; the sink gets whole
frames.  The connection between the levels is these properties, not a common
state: in one module the queues of live555 would multiply the states of a session
without a guard that reads them.

### The session: `RtspSource`

| Variable | Code |
|---|---|
| `state` | `_state` |
| `wpc` | where the worker's loop is: about to poll the queue, in `select`, at the alarms, ended |
| `tail` | what a handler does after it has woken another thread or a send has failed |
| `queue`, `current` | `_requestQueue`, `_currentRequest` |
| `rtsp` | `_rtsp`: exists, awaits which answer, session, iterator, sinks still playing |
| `numSubsessions` | `_numSubsessions` |
| `token`, `alarms` | the task tokens that are set; the entries the delay queue really holds |
| `leaked` | a client was destroyed with its iterator alive |
| `received`, `news` | packets counted by the sources; the count differs from `_totNumPacketsReceived` |
| `mediaQueue`, `pin` | the media queues; the pins and the life of their threads |
| `app`, `result`, `fstate`, `url` | the call the application is in, the value of its future, `m_State`, `_rtspUrl` not empty |

`token` and `alarms` are two variables on purpose: the code keeps only tokens,
and that they agree with the delay queue is a property (`TimerTokens`).

One iteration of `WorkerThread` is either a request taken with `try_pop`
(`ServeRequest`) or `SingleStep`, which the model splits in the order of the
code: `SingleStep`, `HandleSocket`, `HandleAlarm`.  Each handler is one action
with every call it makes.  Two kinds of handler are cut in two by `tail`:

* A promise is set before the handler is through.  `OpenUrl` and two branches of
  `HandleDescribeResponse` reply before `_state = State::Initial`
  (`ResetState`); `Shutdown` and `HandlePlayResponse` reply, and
  `HandleSubsessionFinished` sets `_state`, before the markers are pushed
  (`NotifyPins`).  The application can run in between.
* A send fails at once (`sendFailed`): live555 then calls the handler from inside
  `sendDescribeCommand` or `sendPlayCommand`.

A failing send of SETUP makes `SetupSubsession` go on with the next subsession in
the same handler, so `SetupNext` chooses any later supported subsession.

Each call of the application is a few actions: one that pushes the request, one
that finds the value of the future, one for the base class.  `Run` reads `state`
in an action of its own, as the code does.

Abstractions:

* A packet is `"pkt"`; its content and time stamp are left out.  A source may
  count a packet that completes no frame.
* Two end-of-stream markers in a row are one (`WithEos`): a thread ends at the
  first, and the next start clears the queue.
* `current` is forgotten once its promise has a value; its type is not read
  again.
* Time is abstract: an alarm in the delay queue may be due at any iteration.
* TEARDOWN expects no answer and is not modelled.
* BYE and a source that is closed are both `HandleSubsessionFinished`.

### The event loop: `TaskScheduler`

| Variable | Code |
|---|---|
| `queue` | the entries after the head: `token`, `delta` = `fDeltaTimeRemaining`; `real` is the real time that has still to pass, which the code cannot see |
| `lag` | the time of day less `fLastSyncTime`, negative after the clock was set back |
| `tokenCounter` | `DelayQueueEntry::tokenCounter` |
| `pc`, `task` | where `SingleStep` is, the entry `handleAlarm` has removed and calls |
| `handlers`, `lastHandled`, `ready` | `fHandlers`, `fLastHandledSocketNum`, what `select` would report |
| `setbacks`, `clears` | bounds |

`TimeToNextAlarm`, `HandleSocket` or `NoSocketReady`, and `HandleAlarm` are the
parts of `SingleStep`; `HandlerReturns` ends a handler or a task.  In between, and
between two steps, the program schedules, unschedules, assigns and removes
(`Calls`).  The loops over the list are stated by where they stop (`Walk`) and
what they leave (`Consumed`, `Inserted`, `Removed`), with the sums `Due`.

`KeepsCountdowns` is the refinement: with `alarms` the list of tokens and sums, and
`called` the token of the task that runs, `TaskScheduler` implements `Countdowns`,
where each alarm counts down by itself and is called in the order of the list.

### The RTSP client: `RtspClient`

| Variable | Code |
|---|---|
| `awaitingConnection`, `awaitingTunneling`, `awaitingResponse` | the three `RequestQueue`s |
| `input`, `output` | `fInputSocketNum`, `fOutputSocketNum`: none, connecting, open; the output may be the tunnel's own |
| `tunnel`, `tunnelPending` | `fTunnelOverHTTPPortNum`, `fHTTPTunnelingConnectionIsPending` |
| `cseq`, `unchallenged` | `fCSeq`, `fCurrentAuthenticator` without a realm |
| `buffer` | `fResponseBuffer`: responses read and not yet handled, or kept by a turn that broke off |
| `todo` | what the running handler has still to do, the next thing first |
| `outcomes`, `dropped`, `broken` | what each response handler was given; the requests deleted without a call; a deleted request was used |
| `unanswered` | what the server has still to answer on this connection |
| `kept` | history: a response stayed in the buffer after the scan for its request |

Everything runs in one thread, and yet it interleaves: `connectionHandler`,
`handleResponseBytes` and `resetResponseBuffer` work through lists and call
response handlers on the way, which send more.  `todo` is that stack of work; while
its first entry is `handler` the program's code runs and may `SendCommand`, while it
is empty the event loop runs.  `broken` marks the one path after which the program
has no defined behaviour: `CallAgain`, a request used after it was deleted.

A request is its identity and its CSeq.  The server answers in order, may skip
one, may answer one once more, and may split and join its answers.

A turn of the loop over the responses comes to the end of one (`ParseWhole`) or
breaks off: at a request of the server or headers that cannot be read, before the
scan (`BreakOff`); at a line that does not parse or a body too large for the
buffer, after it (`BreakOffLate`).  What it leaves in the buffer depends on the turn
before.  `numExtraBytesAfterResponse` is declared outside the loop (line 1502) and
set at its end (1651): a first turn that breaks off finds it 0, and lines 1704 to 1720
clear the buffer; a later one finds the value of the turn before, and all is kept
(`Left`, `ParseFirst`, `ParseMore`) and parsed again after the next read, be it
only a few bytes (`ReadRest`).

### Reception: `PacketReordering`

| Variable | Code |
|---|---|
| `queue` | the packets of the `ReorderingPacketBuffer`: place in the stream, `isFirstPacket`, age, pieces used |
| `seen`, `expected` | `fHaveSeenFirstPacket`, `fNextExpectedSeqNo` |
| `highest`, `base` | `fHighestExtSeqNumReceived`, `fBaseExtSeqNumReceived` |
| `begins`, `completes`, `lossInFrame` | `fCurrentPacketBeginsFrame`, `fCurrentPacketCompletesFrame`, `fPacketLossInFragmentedFrame` |
| `frame`, `given` | the pieces copied to the sink's buffer, the frame given last |
| `pc` | the sink waits, `doGetNextFrame1` looks at the queue, a frame is being given |
| `arrived`, `want` | the packets that have arrived, and the place `expected` stands for, which the code cannot see |

The network loses, delays and repeats packets (`Arrive`), the head ages (`Tick`).
`NothingReady`, `RejectHeader`, `RejectFragment` and `UsePiece` are the ways through
the loop of `doGetNextFrame1`.  Packets are of six kinds: a whole frame, a pair of
frames in an aggregation packet, the beginning, middle and end of a frame, and one
whose payload header is refused.

`GivesFrames` is the refinement: `PacketReordering` implements `FrameStream`, where
a step gives a whole frame of the stream that comes after the one before.

### The EVR presenter: `EvrScheduler`, `EvrPresenter`

| Variable | Code |
|---|---|
| `handle`, `thread`, `exiting`, `sleep` | `m_hSchedulerThread`; where the thread is; `bExitThread`, `lWait` of `SchedulerThreadProcPrivate` |
| `gaveUp` | history: a flush has reached its time limit |
| `messages`, `queue`, `hand` | the thread's messages, `m_ScheduledSamples`, the sample being presented |
| `flushed` | `m_hFlushEvent` |
| `released`, `shown` | samples whose `OnSampleFree` is to come, the frame shown last |
| `doing` | what is left of the operation that holds `m_ObjectLock` |
| `state`, `token`, `notify`, `prerolled`, `ending` | `m_RenderState`, `m_TokenCounter`, `m_bSampleNotify`, `m_bPrerolled`, `m_bEndStreaming` |
| `ready`, `free`, `pending` | the pool: initialised, the samples it has, `m_cPending` |
| `inputs`, `mixed`, `completes` | what the mixer was given and has put out, the EC_COMPLETEs |
| `boundary`, `disturbed` | `mixed` at the last flush; history: the output loop ended with input or the end in sight and with no sample to come back |

`EvrPresenter` extends `EvrScheduler` and adds to each of its steps what the other
part leaves unchanged.  An operation of the presenter is cut where it waits for the
scheduler's thread: for a flush (`FlushWaited`: until the event, or the time limit)
or for the thread's end.  A sample is the number of its frame and the token of its
batch.

Two places of the thread are windows.  In `almost` the head was early by less than a
millisecond: the sleep is rounded to zero (`scheduler.cpp:372`), the loop of
`ProcessSamplesInQueue` takes that for a sample presented (303) and looks again, and at
no message, until the clock has moved.  In `leaving` the thread has looked for
messages the last time and still runs: what is posted then is never read.

The output loop asks the mixer (`Asks`) and gets a frame, or none because the input is
used up, or a stream change, or a type that is not set (`TypeNotSet`: it goes on with
a new type, or is left without), or another failure (`MixerFails`: the sample goes
back, the loop ends, `m_bSampleNotify` stays set).

Abstractions: whether a sample is due, early, or early by less than a millisecond is
open each time the thread looks, so rates and lengths of sleeps do not appear; the D3D
device always works; media types are there or not.

## 3. Runs

Deadlock is not checked (`CHECK_DEADLOCK FALSE`) because all these systems may
stop: after the destructor, when nobody schedules, sends, or calls any more, and at
the end of a stream.  That nobody waits for ever is stated as liveness.

| Run | Config | Shows |
|---|---|---|
| `session` | `RtspSource.cfg` | type invariant, the inductive invariant and eleven safety properties; 1.2 million states |
| `calls_return` | `RtspSourceLive.cfg` | `OpenAnswerable` and four liveness properties; 72 thousand states |
| `task_scheduler` | `TaskScheduler.cfg` | safety, the refinement of `Countdowns`, and that tasks and sockets are served |
| `rtsp_client` | `RtspClient.cfg` | safety and liveness of the request queues; 604 thousand states |
| `reordering` | `PacketReordering.cfg` | numbers, refusals and the refinement of `FrameStream`; 44 thousand states |
| `evr_presenter` | `EvrPresenter.cfg` | safety and liveness of presenter and scheduler together; 624 thousand states |
| `bye_while_setting_up` | `ByeWhileSettingUp.cfg` | violation of `NoRequestToReplyTo` |
| `stop_while_reconnecting` | `StopWhileReconnecting.cfg` | violation of `NoLeak` |
| `start_after_stop` | `StopIsDone.cfg` | violation of `StopIsDone` |
| `run_after_load` | `RunAfterLoad.cfg` | violation of `PinsServed` |
| `unmatched_response` | `UnmatchedResponse.cfg` | violation of `UnmatchedIgnored` |
| `aggregate_glued` | `AggregateGlued.cfg` | violation of `OnlyFragmentsWait` |

The session:

* `TimerTokens`, `TimerStates`: no task is orphaned, none comes due in a state
  its handler asserts against.
* `AnswerStates`, `SessionStates`: an answer meets the session it is for.
* `ReplyOwed`, `CallNotLost`, `OpenAnswerable`: a promise gets one value, never
  two (which would throw in the worker), and none is dropped.
* `OwnRequestFirst`, `ReconnectGoesOn`: Reconnect and the end of the media, queued
  by the worker for itself, cannot hit a later session, and reconnecting neither
  stalls nor runs twice.
* `StopGuarantee`, `StopNotBlocked`: what the comment of `Stop` promises of the
  worker, and that the pins' threads can be joined.
* `PlayingIsWatched`: a playing session has a timer, a request or an answer to
  come, or its pins have been told.
* `StopReturns`, `DestructorReturns`, `OpenReturns`, `ReconnectRetried`: the
  calls return; a lost session is asked for again.

The event loop:

* `TokensDiffer`: a token kept after its task was called unschedules nobody else.
* `RealTime`, `NeverEarly`: no task is due or called before its delay is over in
  real time, however the clock is set back.
* `KeepsCountdowns`: adding, removing and counting down keep every other task's
  time.
* `AlarmsFire`, `SocketsServed`: sockets that are always ready do not keep tasks
  from being called, nor other sockets from being handled.

The RTSP client:

* `OnePlace`: a request sent is in one queue, or in the hands of the running
  handler, or its handler was called once, or it was deleted without a call.
* `RightAnswer`, `OnlySkippedDropped`: with a server that answers in order and
  once, a step that takes a request off the queue for an answer takes the answer's
  own, if the queue is by CSeq (`InOrder`), which the scan assumes; and a request is
  deleted without a call only if the server skipped it.  Both hold through answers
  that are unreadable, garbled, oversized, split or joined with requests of the
  server's, until a response stays in the buffer after its request was taken (`kept`);
  section 4 shows what follows then.
* `NoneStranded`, `ConnectionsResolve`: what a request waits for is under way, and
  the wait for a connection ends.  Excepted is the tunnel whose first connection is
  lost during the second; see section 4.

Reception:

* `NumbersTrue`: the queue is in the order of the stream although numbers wrap, and
  the extended numbers span what has arrived.
* `OnlyLateRefused`: a new packet is refused only if a later one was used or the wait
  for it given up.
* `GivesFrames`: whole frames, in order, none twice.

The EVR presenter:

* `PoolAccounted`: the samples of the present batch are in the pool or counted as
  pending, each in one place; a stale one is never taken for one of them.
* `FramesInOrder`: frames are shown in the mixer's order and none after the flush
  that discards it.
* `CompleteMeansDone`, `EndReported`: EC_COMPLETE comes when everything was shown or
  flushed, and it comes.  `EndReported` excepts what is left of the stream when nothing
  calls the output loop again (`disturbed`): a media type that changed, or a mixer that
  failed while no sample was pending.
* `CallsReturn`: the waits with `m_ObjectLock` held end, except for `EndStreaming`
  while the thread looks again and again at a sample that is early by less than a
  millisecond.

`FramesInOrder` and `CompleteMeansDone` hold until a flush reaches its time limit
(`gaveUp`): its event then comes late and ends the next flush too early.

### Bounds

| Constant | Value | Why it is enough |
|---|---|---|
| `Media` | one medium | the pins are alike and do not interact; the branches over subsessions need two subsessions, which one medium can have. Two media make 2 to 5 million states |
| `Sdps` | two subsessions; an ignored one first; nothing playable | each way through `SetupSubsession`: next, skipped, last with none, last with some |
| `ByeStates` | where a subsession may end | every state in `session`; the live run leaves out `SettingUp`, where finding 1 below blocks Load for ever |
| `Settings` | three of four pairs | each setter is called in both directions and both branches of each setting are taken |
| `MaxPackets` | 1 packet a queue (0 in the live run) | a thread that waits, one that has something to read, a marker behind a packet. The code has no bound |
| `MaxRequests` (session) | Play is queued if fewer than 1 request waits | Play is the one request whose caller does not wait. A Play can still follow a request of the worker that is being served and be followed by Stop or Done |
| `Sockets`, `Delays`, `MaxToken` | 2 sockets, delays 0 and 2, 3 tasks | entries that are equal, before and behind one another; an entry removed at the head, in the middle, at the end; a socket that starves another |
| `Setbacks`, `MaxSetbacks`, `MaxLag` | set back by 1, once; 1 unit between two looks at the clock | a lag below, at and above zero; a delay longer than one look |
| `MaxClears` | 1 handler removed | the handler handled last is gone at the next search |
| `MaxRequests` (client) | 3 commands | one before, at and behind the request that an answer is for; a handler that sends more while two wait |
| `MaxFaults`, `MaxRedirects`, `MaxRepeats` | 1 each | every failing, redirected and repeated answer at every point; two faults in a row only repeat the first |
| `Stream`, `Half`, `FirstNumber` | 9 packets numbered 6, 7, 0, ... 6 (mod 8) | each kind next to the kinds that use its flags; the wrap falls between packets that overtake each other |
| `Threshold`, `MaxDuplicates` | 1 tick, 1 repeated packet | gaps that are filled in time and gaps that are given up |
| `Buffers`, `MaxFrames` | 2 samples, 3 frames | an empty pool with a frame left in the mixer; two samples of one batch, or of two, out at a time |
| `MaxCalls` | 4: the calls of the EVR beside input, the end of the stream and EndStreaming, the changes of the mixer's type and its failures | a thread, a media type, a running clock, and one more: a flush, a seek, a stop, a new type, a failure. What follows a stop, EndStreaming, is free |
| `MaxFailures` | 1 | a callback that fails. Flushes may be given up without limit |

The proofs have none of these bounds: they hold for every value of the constants.

### Fairness

* Session, `ThreadFairness`: weak fairness of the worker, of a call that can return,
  and of a pin's thread.  The worker never blocks: `WorkerThread` schedules
  `schedulerTickTask`, which ends `select` in 10 ms.  The application owes nothing
  but to go on with a call it has made.
* `AlarmFairness`: strong fairness of the alarms for the first-call timeout, the gap
  check and the next attempt.  An entry of the delay queue comes due unless it is
  unscheduled, and the queue is ordered; strong, because the worker is not
  always at its alarms.  `AlarmsFire` is this assumption, shown of the event loop.
* `SetupFairness`: the server answers SETUP.  The code times DESCRIBE only; if the
  server accepts SETUP and is silent, Load does not return.  `StopReturns`,
  `DestructorReturns` and `ReconnectRetried` do not need it.
* Event loop: weak fairness of its own steps (handlers return, `select` waits no
  longer than to the next alarm) and of time passing.  The calls, sockets and the
  setting of the clock owe nothing.
* RTSP client: a handler runs to its end, and the system ends an attempt to connect,
  one way or the other.  The server owes nothing.
* EVR presenter: the thread runs and its callback returns; operations go on; a sample
  let go of is given back.  A thread in `almost` owes nothing: only the clock gets it
  out of there.  Strong fairness of a sample coming due holds while the
  clock runs only.  That the callback or the mixer fails is never forced.

`ReconnectRetried` holds of an application that is idle at last: a request in the
queue goes before `SingleStep`, so an application that calls `Run` for ever
keeps the worker from its timers.

## 4. What the code does otherwise than it says

1. *A BYE while Load waits* (`NoRequestToReplyTo`).  The first subsession is set up
   and plays in the sense of live555, SETUP of the second is outstanding, and the
   first ends: `HandleSubsessionFinished` closes everything, sets Initial, and
   replies to nobody ("No request to reply to", `RtspSource.cpp:731`).  `Load` waits for ever.
2. *A leak* (`NoLeak`).  Stop in Reconnecting while SETUP is outstanding destroys the
   client with its iterator, against the assertion in `~RtspClient`
   (`RtspSource.cpp:67`).
3. *Stop is answered before it is done* (`StopIsDone`).  `Shutdown` sets the promise
   and then pushes the markers.  The application may be back, and have cleared the
   queues and started new threads, when the old markers arrive and end them.
4. *The first Run after Load* (`PinsServed`).  `Run` sees ReadyToPlay; the session
   ends; the markers are pushed; Pause clears them and starts the threads; Play is
   rejected unseen.  The filter runs, and nothing will ever arrive.
5. *A response nobody waits for* (`UnmatchedIgnored`).  "No handler was registered
   for this response, so ignore it" (`RTSPClient.cpp:1587`), but the loop before it
   has taken the next younger request off the queue, and that one's handler is
   never called.
6. *Parameter sets glued to a key frame* (`OnlyFragmentsWait`).
   `H264VideoRTPSource::processSpecialHeader` leaves the frame flags alone for
   aggregation packets (`H264VideoRTPSource.cpp:77`).  After a frame of which only
   the first fragment arrived they say that a frame goes on, so the NAL units of
   the packet are kept as "fragmented data" that "does not complete the data that
   the client wants" (`MultiFramedRTPSource.cpp:205`) and the next frame is appended to them.

Other things seen while modelling, without a run of their own:

* When the resend after a 401 fails, `sendRequest` has called the handler and deleted
  the request, and `handleResponseBytes` then uses it (`RTSPClient.cpp:1691`); the model
  ends there (`broken`).
* The first connection of an HTTP tunnel is lost while the second is pending: its
  requests stay queued and nothing is pending for them (`RTSPClient.cpp:1487`).
  `NoneStranded` and `ConnectionsResolve` except exactly this state.
* A turn of the response loop that breaks off behind another one keeps its bytes
  (`numExtraBytesAfterResponse` of the turn before, `RTSPClient.cpp:1502`, 1548, 1636 and
  1704 to 1720), although its request has been taken off the queue and told: the comments
  there say "we're done with this data" (1549) and "We never received (and will never
  receive) a response" (1576) of the requests deleted.  With the answer to 1 and a
  garbled or oversized answer to 2 in one read, and 3 outstanding, the next read parses
  answer 2 once more, and 3 is deleted while its answer is on the way.  When 4 and 5 are
  outstanding too, that answer is older than all of them: 4 is deleted and 5 called with it.
  `OnlySkippedDropped` and `RightAnswer` are stated until bytes are kept (`kept`); without
  this condition TLC finds the first violated with the three requests of the run.
* A sleep below a millisecond is rounded to zero, and the scheduler's thread then looks at
  the same sample again and at no message (`scheduler.cpp:303`, 372; the comments at 289 and
  309 take a zero for "processed").  With the clock paused that does not end: each flush
  takes its full time limit, and `EndStreaming` waits for the thread for ever.
  `CallsReturn` excepts exactly this state.
* The scan for a CSeq (`RTSPClient.cpp:1574`) takes the queue to be by CSeq.  It is not
  when sending fails in the middle of a batch: the handler of the failed request sends
  new commands, which overtake the rest of the batch.  With four requests (CSeq 2 fails,
  its handler sends 4 and 5, then 3 is sent) and two answers that are not recognised,
  the answer to 3 is ignored, 4 is deleted, and 5 is then called with the answer to 3.
  Hence the condition `InOrder` of `RightAnswer`; the three requests of the run do not
  reach such a queue with answers missing.
* `RTSPClient` follows a redirection by closing its sockets and sending the redirected
  request again.  Over a tunnel that starts with a new GET, whose response has no CSeq and
  goes to the first request that waits (`RTSPClient.cpp:1619`): an older one, if there is
  any.  The model lets the server redirect over a tunnel only when no other request is
  under way (`MayAnswer`), as for DESCRIBE.
* A packet with a bad header is released together with the mark of the loss before it
  (`MultiFramedRTPSource.cpp:145`), so a beginning without its end is not discarded.
* A media type that changes while the mixer has input, or after the end was
  announced, drops the samples whose return would have sent EC_COMPLETE
  (`Presenter.cpp:1825`), and a mixer that fails on the last frame while no sample is
  pending leaves `m_bSampleNotify` set and nobody to call `CheckEndOfStream`
  (`Presenter.cpp:1831`); `EndReported` excepts both (`disturbed`).
* A flush that reaches its time limit leaves its event to the next flush
  (`scheduler.cpp:193`), which then returns before the queue is empty.

## 5. Proofs

The proofs assume what the modules assume of their constants (`MediaAssumption`,
`SdpsAssumption`, `SettingsAssumption`, `BoundAssumption`, `ByeAssumption`;
`SocketsAssumption`, `DelaysAssumption`; `RtspClientAssumption`; `StreamAssumption`,
`NumberAssumption`; `PresenterAssumption`), and nothing else.

What a recursive function computes (the sums of the delay queue) is proved by the
least number at which it would fail (`LeastNumbers`), since the library's induction
theorems cannot be used with these provers.

### The session

`RtspSourceProofs` proves `TypeCorrect == Spec => []TypeOK`, then
`Inductive == Spec => []IInv`, and derives the safety properties.  None of
them is inductive.  `IInv` adds what they rest on:

* `TimerInv`: which timers can run beside which awaited answer.  Only the timeout
  runs beside DESCRIBE, none beside SETUP and PLAY, so the answer to PLAY
  schedules each timer once; gap check and next attempt exclude each other.
* `ClientInv`: without a client there is no session; the iterator has passed
  every sink; a subsession that is counted has a sink.
* `TailInv`: a handler that has replied and has still to set `_state` left no
  client, timer or request behind.
* `QueueInv`: the worker takes a request of its own before it steps the scheduler
  again, so in a handler there is none, and there are never two; an Open is the
  last in the queue, and Initial is the state that awaits it, or is about to be.
* `CallInv`: the call that waits has one request, in the queue or, for an Open, in
  the worker's hands with the queue empty; so no other request can take the place
  of an unanswered one, and no second answer can find it.

`RtspSourceProofs` first says what the helpers do (`OpenUrlEffect`,
`AttemptFailedEffect`, `SetupDoneEffect`, `TakeEffect`, ...), then that each action
keeps the parts of `IInv`, with the lemmas `HandlerQueue` and the `...HandlerCall`s
for what all handlers share, and combines them in `NextInductive`.

`RtspSourcePins` adds `PinsInv`, which is inductive given `IInv`: Stop overtakes no
Play, so a session plays only in a filter that was started, and Pause never clears
the markers of a session that plays (`PlayBeforeStop`); when Stop has its answer,
the pins have been told, or the worker is about to tell them.

### The event loop

`TaskSchedulerProofs` states each operation of the list in terms of the sums `Due`:
looking at the clock takes the lag off every sum, down to zero; adding and removing
change no other sum.  From there the invariant (`TypeOK`, `TokensInv`, `RealTime`,
`NeverEarly`) is a short case analysis, and so is the refinement,
`ListImplementsCountdowns`.

### Reception

`PacketReorderingProofs` relates numbers to places.  All that is queued lies less than
half the range from the place expected (`Window`), where `seqNumLT` is the order of
places; the extended numbers count from the oldest to the newest packet (`Counted`).
That the sink is given frames (`FramesAreGiven`) rests on five more facts: the packet
used in part is the one expected (`AtWant`), what was given came before (`Behind`),
the pieces saved are a frame's up to the place expected (`InFrame`), without a loss and
without pieces no fragment that continues a frame is expected (`BetweenFrames`), and
before the last aggregation packet the flags are those of whole frames (`Ahead`).  The
last holds only if aggregation packets and packets with a bad header come before the
stream's fragments: the theorem assumes it (`Orderly`), and finding 6 shows why.

### The RTSP client

`RtspClientProofs` counts.  `Accounted` says that over the queues, the steps the running
handler intends, the outcomes and the deleted, a request that was sent is counted once
and one that was not is not counted; each action moves copies from one place to another
(`Held`).  `ParseInv` says that the loop over the responses is the last thing a handler
returns to and has a response for its next turn; `RedirectInv` bounds what is still in the
buffer.

`RtspClientWaits` says what each request waits for.  A client is in one of five phases:
without a tunnel (`Direct`), with a tunnel whose first connection carries the GET
(`TunnelFirst`), whose second is pending (`TunnelSecond`) or pending with the first one
lost (`TunnelStuck`, the exception of `NoneStranded`), and with an open tunnel
(`TunnelOpen`).  A phase says which queues may be in use, what is under way for them, and
what the running handler may still be about to do: in the first phase of a tunnel the step
at hand is the only one about the GET (`Quiet`, `Plain`), so no two requests open it at
once.  `RedirectAlone` keeps a redirection in the buffer the only answer there.  Each
action keeps its phase or leads to the next (`WaitsInductive`), and `NoneStranded` is what
the phases have in common.

The answers rest on one fact more, `Aligned`: those in the buffer followed by those the
server has still to give (`Coming`) each name a request of the queue, in the queue's order
(`Fits`); a request of the queue may have been skipped and have none to come.
Sending appends to both ends; reading moves answers
from one side of `Coming` to the other; the scan takes the requests up to the answer's own
at the latest (`TakenUpTo`), and exactly those when the queue is by CSeq, so what is left
still fits (`FitsBehind`), the call is right and what was deleted has no answer to come.

A turn that breaks off either leaves nothing or keeps all; what it keeps before the scan
still fits, and what it keeps after the scan sets `kept`, up to which `Aligned` is stated.

### The EVR presenter

`EvrPresenterProofs` keeps track of where samples are (`ThreadInv`, `SamplesInv`,
`PoolInv`) and, while no flush was given up, of the order they are in (`OrderInv`): what
is scheduled is ahead of what was shown and flushed; the event is set only for the flush
that is waited for, which leaves nothing scheduled.

| Module | Theorem | Property |
|---|---|---|
| `RtspSourceProofs` | `TypeCorrect`, `Inductive` | `TypeOK`, `IInv` |
| | `NoOrphanedTask`, `TimersInTheirStates` | `TimerTokens`, `TimerStates` |
| | `AnswersInTheirStates`, `SessionsInTheirStates` | `AnswerStates`, `SessionStates` |
| | `NoSecondReply`, `NoCallLost` | `ReplyOwed`, `CallNotLost` |
| | `OwnRequestsInTime`, `ReconnectNeverStalls` | `OwnRequestFirst`, `ReconnectGoesOn` |
| | `StopGuaranteed` | `StopGuarantee` |
| | `OpenIsAnswerable` | `OpenAnswerable`, if no subsession ends in SettingUp |
| `RtspSourcePins` | `PinsAreServed` | `PinsInv` |
| | `PlayingAlwaysWatched`, `StopNeverBlocked` | `PlayingIsWatched`, `StopNotBlocked` |
| `TaskSchedulerProofs` | `TypeCorrect`, `Inductive` | `TypeOK`, the invariant |
| | `TokensStayApart`, `DueInRealTime`, `CalledNeverEarly` | `TokensDiffer`, `RealTime`, `NeverEarly` |
| | `ListImplementsCountdowns` | `KeepsCountdowns` |
| `PacketReorderingProofs` | `TypeCorrect` | `TypeOK` |
| | `NumbersStayTrue`, `OnlyLateAreRefused` | `NumbersTrue`, `OnlyLateRefused` |
| | `FramesAreGiven` | `GivesFrames`, for an `Orderly` stream |
| `RtspClientProofs` | `Inductive`, `TypeCorrect` | the invariant, `TypeOK` |
| | `RequestsHaveOnePlace` | `OnePlace` |
| `RtspClientWaits` | `WaitsInductive`, `AnswersInductive` | the invariants |
| | `NoRequestStranded` | `NoneStranded` |
| | `AnswersAreRight`, `OnlySkippedAreDropped` | `RightAnswer`, `OnlySkippedDropped` |
| `EvrPresenterProofs` | `Inductive`, `TypeCorrect` | the invariant, `TypeOK` |
| | `PoolIsAccounted`, `FramesStayInOrder`, `CompleteIsDone` | `PoolAccounted`, `FramesInOrder`, `CompleteMeansDone` |

Only model-checked: the liveness properties.  Liveness under fairness and ENABLED are
out of reach of the prover.  Every invariant and every action property of a passing run is
a theorem, except where the table names a condition.

## 6. Not modelled

* *Media times and time stamps* (`_initialSeekTime`, `_sessionDuration`, the baselines of
  `RtspSourcePin`).  No guard of the session reads them.  The hazards listed for them (the
  worker resets the baselines field by field under a pin that reads them; the seek time
  grows over reconnects) show as wrong numbers only: they need real times and doubles,
  not states.
* *The mutex of `ConcurrentQueue`*.  Every operation reads and changes the deque under the
  mutex once, so it is one step of `RtspSource`.
* *The handshake of `CAMThread`*.  One caller at a time holds `m_AccessLock` and waits for
  the reply; what the filter uses of it, that a thread starts, ends by itself and is
  joined, is in `RtspSource`.
* *H.264 parameter sets and AAC configuration*.  Pure functions over bit strings.
* *In `RtspClient`*: the contents of commands and responses, requests of the server beyond
  their being answered, RTP interleaved on the connection.  A response handler that closes
  the client in the middle of `handleResponseBytes`, as those of the filter do after a
  failure: live555 then looks at the deleted client again if more bytes were read behind the
  answer.  The filter awaits each answer before its next command, so there seldom are any.
  The rest of an answer whose beginning was lost with a cleared buffer; the error codes of
  answers, except for the GET's, whose handler does something else then.
* *In `PacketReordering`*: a change of the SSRC, packets read in pieces from TCP, stopping
  and starting again, RTCP reports and the jitter.  The filter creates a source for each
  session and does not restart it.
* *In `EvrPresenter`*: frame stepping and scrubbing, repainting, shutting down, the D3D
  device and its failure in `DeliverSample`, failures of `TrackSample` and of the pool's
  lock, the negotiation of media types, sample times.  A `SetMediaType` that fails calls
  `ReleaseResources` a second time; nothing is scheduled then, and tokens are only compared,
  so `untype` does it once.  Of these, frame stepping and shutting down touch state without
  `m_ObjectLock`; the hazards list names the lines.
* *In `RtspSource`*: the transport and latency settings (no guard of the session reads
  them), the growth of the sink's buffer, out-of-memory beyond the client's creation; the
  ways a pin's thread ends when the filter below refuses a sample (`Deliver`), and failures
  of `CBaseFilter::Run` and `Pause`.
* *VMR9 presenter*.  The renderer's surfaces behind a lock; the order of calls is the
  renderer's, which is not in the repository.
* *WPF player*.  What it does to the filter are the calls `RtspSource` has.  Its own
  hazard is in `DirectShowSession.cs`: `_manualRequest` resets itself, so two commands
  that are queued before the worker waits wake it once, and it takes one command for
  each wake-up (`DirectShowSession.cs:223`); if the second is the Terminate of `Dispose`,
  the `Join` there does not return.
* *Test program*: builds a graph, keeps no state.
* *Registration, property pages, debug output, error texts*: no state machine.
* *RTSP servers, other formats, renderers* in live555 and in the base classes: vendored
  code the filter does not call.  They are most of the repository's lines.

What could follow: frame stepping and
the shutdown of the presenter, cut at each access instead of at each wait; and the
baselines of the pins as versions of the fields that a reader may mix.
