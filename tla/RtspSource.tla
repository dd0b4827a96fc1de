----------------------------- MODULE RtspSource -----------------------------
(***************************************************************************)
(* The session state machine of RtspSourceFilter (RtspSource.cpp): the     *)
(* worker thread that owns the RTSP client and serves a request queue, the *)
(* live555 scheduler that calls its response handlers and timer tasks, the *)
(* application thread that calls the filter, and the threads of the output *)
(* pins that drain the media queues.                                       *)
(*                                                                         *)
(* One iteration of WorkerThread is: try_pop a request and serve it, or    *)
(* SingleStep, which runs at most one socket handler and then at most one  *)
(* due alarm.  A handler is one atomic step, except where it wakes another *)
(* thread before it is through: `tail' names what is then still to do.     *)
(***************************************************************************)
EXTENDS Integers, Sequences, FiniteSets

CONSTANTS Media,        \* the media a pin exists for ("video", "audio")
          Unsupported,  \* the medium of a subsession this filter ignores
          Sdps,         \* the session descriptions the server may return
          ByeStates,    \* the states in which a subsession may end
          Settings,     \* the settings the application uses
          MaxPackets,   \* bound: packets waiting in one media queue
          MaxRequests   \* bound: requests queued when Play is requested

ASSUME MediaAssumption == Media # {} /\ Unsupported \notin Media

ASSUME SdpsAssumption == Sdps \subseteq Seq(Media \cup {Unsupported})

ASSUME SettingsAssumption ==
  /\ Settings # {}
  /\ Settings \subseteq [autoReconnect : BOOLEAN, sendLiveness : BOOLEAN]

ASSUME BoundAssumption == MaxPackets \in Nat /\ MaxRequests \in Nat

States == {"Initial", "SettingUp", "ReadyToPlay", "Playing", "Reconnecting"}

ASSUME ByeAssumption == ByeStates \subseteq States

Timers == {"firstCall", "gap", "reconnect", "liveness", "session"}

VARIABLES
  state,       \* _state
  wpc,         \* the phase of the worker's loop: poll, select, alarm, exited
  tail,        \* what the running handler still has to do
  queue,       \* _requestQueue
  current,     \* _currentRequest, until its promise has a value
  rtsp,        \* _rtsp: the client, its session, iterator and sinks
  numSubsessions,
  token,       \* the timers whose TaskToken member is not null
  alarms,      \* how many entries of each timer the delay queue holds
  leaked,      \* a client was closed with its iterator still alive
  received,    \* this session's sources counted a packet
  news,        \* their count differs from _totNumPacketsReceived
  mediaQueue,  \* _videoMediaQueue, _audioMediaQueue
  pin,         \* the output pins and their threads
  autoReconnect, sendLiveness,   \* the settings read by the handlers
  app,         \* where the application's thread is in the filter
  result,      \* the value of the future it waits for
  fstate,      \* m_State of CBaseFilter
  url          \* _rtspUrl is not empty

sessionVars == <<state, rtsp, numSubsessions, leaked>>
timerVars   == <<token, alarms>>
statVars    == <<received, news>>
pinVars     == <<mediaQueue, pin>>
settings    == <<autoReconnect, sendLiveness>>
callVars    == <<app, fstate, url>>

vars == <<sessionVars, wpc, tail, queue, current, timerVars, statVars,
          pinVars, settings, callVars, result>>

-----------------------------------------------------------------------------
(* Requests and their promises *)

Requests == [type : {"Open", "Play", "Stop", "Done"}, from : {"app"}]
              \cup [type : {"Stop", "Reconnect"}, from : {"worker"}]

Request(t, f) == [type |-> t, from |-> f]

\* Load, Run and Stop block on the future; every other future is dropped.
Awaited(r) == r.from = "app" /\ r.type \in {"Open", "Stop"}

\* A request whose promise has its value is of no interest to anyone.
Replied == Request("Unknown", "none")

\* _currentRequest.SetValue(code)
Reply(code) ==
  /\ current' = Replied
  /\ result' = IF Awaited(current) THEN code ELSE result

\* Mutant of Adopt: the request is not kept to be replied to.
AdoptNothing(req) == UNCHANGED <<current, result>>

\* _currentRequest = std::move(req): a promise without a value breaks.
Adopt(req) ==
  /\ current' = req
  /\ result' = IF Awaited(current) THEN "broken" ELSE result

\* _currentRequest = std::move(req), then SetValue in the same handler.
AdoptAndReply(req, code) ==
  /\ current' = Replied
  /\ result' = CASE Awaited(current) -> "broken"
                 [] Awaited(req)     -> code
                 [] OTHER            -> result

\* Mutant of ReplyTo: a request that is not adopted is not replied to.
ReplyToNobody(req, code) == UNCHANGED <<current, result>>

\* req.SetValue: the request never becomes the current one.
ReplyTo(req, code) ==
  /\ result' = IF Awaited(req) THEN code ELSE result
  /\ UNCHANGED current

-----------------------------------------------------------------------------
(* Timers: `fired' has just left the delay queue and its handler nulls the *)
(* token; `off' are unscheduled where their token is set, `on' scheduled.  *)

Count(B) == IF B THEN 1 ELSE 0

\* Mutant of Retime: the handler of a timer does not null its token.
RetimeKeepingToken(fired, off, on) ==
  /\ alarms' = [t \in Timers |->
       (alarms[t] - Count(t \in fired \/ (t \in off /\ t \in token)))
         + Count(t \in on)]
  /\ token' = (token \ off) \cup on

Retime(fired, off, on) ==
  /\ alarms' = [t \in Timers |->
       (alarms[t] - Count(t \in fired \/ (t \in off /\ t \in token)))
         + Count(t \in on)]
  /\ token' = (token \ (fired \cup off)) \cup on

\* Mutant of UnscheduleAllDelayedTasks: one timer is forgotten.
UnscheduleAllButSession == Retime({}, Timers \ {"session"}, {})

UnscheduleAllDelayedTasks == Retime({}, Timers, {})

-----------------------------------------------------------------------------
(* The RTSP client *)

NoClient == [open |-> FALSE, awaiting |-> "none", session |-> <<>>,
             iter |-> 0, sinks |-> {}]

\* Mutants of CloseClient: _rtsp is not nulled; requests stay pending.
CloseClientKeepingIt(iter) ==
  /\ rtsp' = [rtsp EXCEPT !.awaiting = "none"]
  /\ leaked' = (leaked \/ iter # 0)

CloseClientAwaiting(iter) ==
  /\ rtsp' = [NoClient EXCEPT !.awaiting = rtsp.awaiting]
  /\ leaked' = (leaked \/ iter # 0)

\* CloseSession closes the sinks and the session, Medium::close the client
\* together with the requests it still waits for.
CloseClient(iter) ==
  /\ rtsp' = NoClient
  /\ leaked' = (leaked \/ iter # 0)

\* An end-of-stream marker behind another one is not told from it: a pin's
\* thread leaves at the first, and Pause empties the queue before the next.
WithEos(q) == IF q # <<>> /\ q[Len(q)] = "eos" THEN q ELSE Append(q, "eos")

\* Mutant of PushEos: a pin is only told if it has something to read.
PushEosBehindPackets ==
  mediaQueue' = [m \in Media |->
    IF mediaQueue[m] = <<>> THEN <<>> ELSE WithEos(mediaQueue[m])]

PushEos == mediaQueue' = [m \in Media |-> WithEos(mediaQueue[m])]

\* A request that cannot be sent calls its handler before the send returns.
Send == tail' \in {"none", "sendFailed"}

\* Mutant of OpenUrl: DESCRIBE is not timed.
OpenUrlUntimed(off) ==
  /\ Retime({}, off, {})
  /\ rtsp' = [NoClient EXCEPT !.open = TRUE, !.awaiting = "DESCRIBE"]
  /\ Send

\* off: what the caller has unscheduled before it opens the url.
OpenUrl(off) ==
  \/ /\ Retime({}, off, {"firstCall"})
     /\ rtsp' = [NoClient EXCEPT !.open = TRUE, !.awaiting = "DESCRIBE"]
     /\ Send
  \/ /\ Retime({}, off, {})       \* CreateRtspClient: out of memory
     /\ rtsp' = NoClient
     /\ tail' = "resetState"

Created == rtsp'.open

Play(sinks) ==
  /\ rtsp' = [rtsp EXCEPT !.iter = 0, !.sinks = sinks, !.awaiting = "PLAY"]
  /\ Send

\* The end of an attempt to open the url: the client is closed, and while
\* reconnecting another attempt is scheduled (ScheduleNextReconnect).
\* early: the promise is given its value before _state.
AttemptFailed(iter, fired, off, early) ==
  /\ CloseClient(iter)
  /\ Reply("fail")
  /\ \/ /\ state = "Reconnecting"
        /\ Retime(fired, off, {"reconnect"})
        /\ tail' = "none"
        /\ UNCHANGED state
     \/ /\ state # "Reconnecting"
        /\ Retime(fired, off, {})
        /\ IF early THEN tail' = "resetState" /\ UNCHANGED state
                    ELSE tail' = "none" /\ state' = "Initial"

-----------------------------------------------------------------------------
(* The worker: the tails of handlers *)

\* A promise had its value before _state = State::Initial.
ResetState ==
  /\ tail = "resetState"
  /\ tail' = "none"
  /\ state' = "Initial"
  /\ UNCHANGED <<rtsp, numSubsessions, leaked, wpc, queue, current, timerVars,
                 statVars, pinVars, settings, callVars, result>>

\* _state was Initial, and a promise had its value, before the markers are
\* pushed.
NotifyPins ==
  /\ tail = "notifyPins"
  /\ tail' = "none"
  /\ PushEos
  /\ UNCHANGED <<sessionVars, wpc, queue, current, timerVars, statVars, pin,
                 settings, callVars, result>>

-----------------------------------------------------------------------------
(* The worker: requests *)

Idle == wpc = "poll" /\ tail = "none"

\* Mutants of SingleStep: the queue is left alone while reconnecting as well;
\* requests that wait do not keep the worker from its scheduler.
SingleStepReconnecting ==
  /\ Idle
  /\ state \in {"SettingUp", "Reconnecting"} \/ queue = <<>>
  /\ wpc' = "select"
  /\ UNCHANGED <<sessionVars, tail, queue, current, timerVars, statVars,
                 pinVars, settings, callVars, result>>

SingleStepAnyway ==
  /\ Idle
  /\ wpc' = "select"
  /\ UNCHANGED <<sessionVars, tail, queue, current, timerVars, statVars,
                 pinVars, settings, callVars, result>>

\* No request is taken in the middle of Open, or there is none to take.
SingleStep ==
  /\ Idle
  /\ state = "SettingUp" \/ queue = <<>>
  /\ wpc' = "select"
  /\ UNCHANGED <<sessionVars, tail, queue, current, timerVars, statVars,
                 pinVars, settings, callVars, result>>

Take(req) ==
  /\ Idle
  /\ state # "SettingUp"
  /\ queue # <<>>
  /\ req = Head(queue)
  /\ queue' = Tail(queue)

ServeOpen(req) ==
  /\ Take(req)
  /\ req.type = "Open"
  /\ state = "Initial"
  /\ state' = "SettingUp"
  /\ OpenUrl({})
  /\ IF Created THEN Adopt(req) ELSE AdoptAndReply(req, "fail")
  /\ UNCHANGED <<numSubsessions, leaked, wpc, statVars, pinVars, settings,
                 callVars>>

ServePlay(req) ==
  /\ Take(req)
  /\ req.type = "Play"
  /\ state = "ReadyToPlay"
  /\ state' = "Playing"
  /\ Adopt(req)
  /\ Play(rtsp.sinks)
  /\ UNCHANGED <<numSubsessions, leaked, wpc, timerVars, statVars, pinVars,
                 settings, callVars>>

ServeReconnect(req) ==
  /\ Take(req)
  /\ req.type = "Reconnect"
  /\ state \in {"Playing", "Reconnecting"}
  /\ state' = "Reconnecting"
  /\ OpenUrl(IF state = "Playing" THEN Timers ELSE {})
  /\ IF Created THEN Adopt(req) ELSE AdoptAndReply(req, "fail")
  /\ leaked' = (leaked \/ (state = "Playing" /\ rtsp.iter # 0))
  /\ UNCHANGED <<numSubsessions, wpc, statVars, pinVars, settings, callVars>>

\* Stop, and Done after which the thread ends: Shutdown.
ServeShutdown(req) ==
  /\ Take(req)
  /\ req.type \in {"Stop", "Done"}
  /\ state # "Initial"
  /\ state' = "Initial"
  /\ UnscheduleAllDelayedTasks
  /\ CloseClient(rtsp.iter)
  /\ AdoptAndReply(req, "ok")
  /\ tail' = "notifyPins"
  /\ wpc' = IF req.type = "Done" THEN "exited" ELSE wpc
  /\ UNCHANGED <<numSubsessions, statVars, pinVars, settings, callVars>>

\* Mutant of ServeStopInInitial: there is nobody to tell.
ServeStopInInitialQuietly(req) ==
  /\ Take(req)
  /\ req.type = "Stop"
  /\ state = "Initial"
  /\ ReplyTo(req, "ok")
  /\ UNCHANGED <<sessionVars, wpc, tail, timerVars, statVars, pinVars,
                 settings, callVars>>

\* The markers are for pins whose threads Pause started although the Run
\* after it failed.
ServeStopInInitial(req) ==
  /\ Take(req)
  /\ req.type = "Stop"
  /\ state = "Initial"
  /\ PushEos
  /\ ReplyTo(req, "ok")
  /\ UNCHANGED <<sessionVars, wpc, tail, timerVars, statVars, pin, settings,
                 callVars>>

\* Mutant of ServeDoneInInitial: done is not set.
ServeDoneAndGoOn(req) ==
  /\ Take(req)
  /\ req.type = "Done"
  /\ state = "Initial"
  /\ ReplyTo(req, "ok")
  /\ UNCHANGED <<sessionVars, wpc, tail, timerVars, statVars, pinVars,
                 settings, callVars>>

ServeDoneInInitial(req) ==
  /\ Take(req)
  /\ req.type = "Done"
  /\ state = "Initial"
  /\ wpc' = "exited"
  /\ ReplyTo(req, "ok")
  /\ UNCHANGED <<sessionVars, tail, timerVars, statVars, pinVars, settings,
                 callVars>>

\* Mutant of WrongStates: Stop is rejected while reconnecting.
WrongStatesForStop(type) ==
  CASE type = "Open"      -> States \ {"Initial"}
    [] type = "Play"      -> States \ {"ReadyToPlay"}
    [] type = "Reconnect" -> States \ {"Playing", "Reconnecting"}
    [] type = "Stop"      -> {"Reconnecting"}
    [] OTHER              -> {}

WrongStates(type) ==
  CASE type = "Open"      -> States \ {"Initial"}
    [] type = "Play"      -> States \ {"ReadyToPlay"}
    [] type = "Reconnect" -> States \ {"Playing", "Reconnecting"}
    [] OTHER              -> {}

Reject(req) ==
  /\ Take(req)
  /\ state \in WrongStates(req.type)
  /\ ReplyTo(req, "fail")
  /\ UNCHANGED <<sessionVars, wpc, tail, timerVars, statVars, pinVars,
                 settings, callVars>>

ServeRequest ==
  \E req \in Requests :
    \/ ServeOpen(req)
    \/ ServePlay(req)
    \/ ServeReconnect(req)
    \/ ServeShutdown(req)
    \/ ServeStopInInitial(req)
    \/ ServeDoneInInitial(req)
    \/ Reject(req)

-----------------------------------------------------------------------------
(* The worker: socket handlers *)

Selecting == wpc = "select" /\ tail = "none" /\ wpc' = "alarm"

NoSocketReady ==
  /\ Selecting
  /\ UNCHANGED <<sessionVars, tail, queue, current, timerVars, statVars,
                 pinVars, settings, callVars, result>>

\* An answer is read from the socket; a failure may also be found by the
\* send itself, inside the handler that sends.
Answered(command) == rtsp.awaiting = command /\ Selecting

Failed(command) ==
  \/ Answered(command)
  \/ /\ rtsp.awaiting = command
     /\ tail = "sendFailed"
     /\ UNCHANGED wpc

\* The answer to DESCRIBE is an error, or a description without subsessions.
DescribeFailed ==
  /\ \/ Failed("DESCRIBE") /\ AttemptFailed(0, {}, {"firstCall"}, FALSE)
     \/ Answered("DESCRIBE") /\ AttemptFailed(0, {}, {"firstCall"}, TRUE)
  /\ UNCHANGED <<numSubsessions, queue, statVars, pinVars, settings, callVars>>

\* SetupSubsession: the next subsession that is supported, can be initiated
\* and for which SETUP can be sent.
SetupNext(sdp, after, sinks) ==
  \E i \in (after + 1)..Len(sdp) :
    /\ sdp[i] \in Media
    /\ rtsp' = [rtsp EXCEPT !.session = sdp, !.iter = i, !.sinks = sinks,
                            !.awaiting = "SETUP"]
    /\ UNCHANGED leaked

\* SetupSubsession behind the last subsession, with n of them set up.
SetupDone(n, sinks, off) ==
  \/ /\ n = 0
     /\ AttemptFailed(0, {}, off, FALSE)
  \/ /\ n # 0
     /\ state # "Reconnecting"
     /\ state' = "ReadyToPlay"
     /\ rtsp' = [rtsp EXCEPT !.iter = 0, !.sinks = sinks, !.awaiting = "none"]
     /\ tail' = "none"
     /\ Reply("ok")
     /\ Retime({}, off, {})
     /\ UNCHANGED leaked
  \/ /\ n # 0
     /\ state = "Reconnecting"
     /\ state' = "Playing"
     /\ Play(sinks)
     /\ Retime({}, off, {})
     /\ UNCHANGED <<leaked, current, result>>

\* Mutant of Described: the count of the session before is kept.
DescribedCountingOn(sdp) ==
  /\ Answered("DESCRIBE")
  /\ sdp # <<>>
  /\ received' = FALSE
  /\ \/ /\ SetupNext(sdp, 0, {})
        /\ Retime({}, {"firstCall"}, {})
        /\ UNCHANGED <<state, tail, current, result>>
     \/ SetupDone(numSubsessions, {}, {"firstCall"})
  /\ UNCHANGED <<numSubsessions, queue, news, pinVars, settings, callVars>>

Described(sdp) ==
  /\ Answered("DESCRIBE")
  /\ sdp # <<>>
  /\ numSubsessions' = 0
  /\ received' = FALSE
  /\ \/ /\ SetupNext(sdp, 0, {})
        /\ Retime({}, {"firstCall"}, {})
        /\ UNCHANGED <<state, tail, current, result>>
     \/ SetupDone(0, {}, {"firstCall"})
  /\ UNCHANGED <<queue, news, pinVars, settings, callVars>>

\* The subsession at the iterator has a sink and a pin now.
SetupAnswered ==
  LET i == rtsp.iter
      sinks == rtsp.sinks \cup {i}
      n == numSubsessions + 1 IN
  /\ Answered("SETUP")
  /\ numSubsessions' = n
  /\ pin' = [m \in Media |->
       IF m = rtsp.session[i] /\ pin[m] = "absent" THEN "inactive" ELSE pin[m]]
  /\ \/ /\ SetupNext(rtsp.session, i, sinks)
        /\ UNCHANGED <<state, tail, timerVars, current, result>>
     \/ SetupDone(n, sinks, {})
  /\ UNCHANGED <<queue, statVars, mediaQueue, settings, callVars>>

\* Mutant of SetupFailed: SetupSubsession is not called again.
SetupFailedForGood ==
  /\ Answered("SETUP")
  /\ rtsp' = [rtsp EXCEPT !.awaiting = "none"]
  /\ UNCHANGED <<state, leaked, tail, timerVars, current, result,
                 numSubsessions, queue, statVars, pinVars, settings, callVars>>

SetupFailed ==
  /\ Answered("SETUP")
  /\ \/ /\ SetupNext(rtsp.session, rtsp.iter, rtsp.sinks)
        /\ UNCHANGED <<state, tail, timerVars, current, result>>
     \/ SetupDone(numSubsessions, rtsp.sinks, {})
  /\ UNCHANGED <<numSubsessions, queue, statVars, pinVars, settings, callVars>>

\* vod: the media has an end.
PlayAnswered(vod) ==
  /\ Answered("PLAY")
  /\ Reply("ok")
  /\ rtsp' = [rtsp EXCEPT !.awaiting = "none"]
  /\ news' = received
  /\ Retime({}, {}, {"gap"} \cup (IF sendLiveness THEN {"liveness"} ELSE {})
                            \cup (IF vod THEN {"session"} ELSE {}))
  /\ UNCHANGED <<state, numSubsessions, leaked, tail, queue, received, pinVars,
                 settings, callVars>>

PlayFailed ==
  /\ Failed("PLAY")
  /\ Reply("fail")
  /\ CloseClient(rtsp.iter)
  /\ \/ /\ autoReconnect
        /\ Retime({}, Timers, {"reconnect"})
        /\ state' = "Reconnecting"
        /\ tail' = "none"
     \/ /\ ~autoReconnect
        /\ UnscheduleAllDelayedTasks
        /\ state' = "Initial"
        /\ tail' = "notifyPins"
  /\ UNCHANGED <<numSubsessions, queue, statVars, pinVars, settings, callVars>>

\* HandleOptionsResponse_Liveness
OptionsAnswered(ok) ==
  /\ Answered("OPTIONS")
  /\ rtsp' = [rtsp EXCEPT !.awaiting = "none"]
  /\ Retime({}, {}, IF ok THEN {"liveness"} ELSE {})
  /\ UNCHANGED <<state, numSubsessions, leaked, tail, queue, current, statVars,
                 pinVars, settings, callVars, result>>

PacketsIn(q) == Cardinality({k \in DOMAIN q : q[k] = "pkt"})

\* The source of subsession i counts a packet; if it completes a frame, the
\* sink pushes the frame, unless it was truncated.
Packet(i) ==
  /\ Selecting
  /\ LET m == rtsp.session[i] IN
       \/ /\ PacketsIn(mediaQueue[m]) < MaxPackets
          /\ mediaQueue' = [mediaQueue EXCEPT ![m] = Append(@, "pkt")]
       \/ UNCHANGED mediaQueue
  /\ received' = TRUE
  /\ news' = TRUE
  /\ UNCHANGED <<sessionVars, tail, queue, current, timerVars, pin, settings,
                 callVars, result>>

\* RTCP BYE, or the source is closed; no request is replied to.
HandleSubsessionFinished(i) ==
  /\ Selecting
  /\ state \in ByeStates
  /\ \/ /\ rtsp.sinks # {i}
        /\ rtsp' = [rtsp EXCEPT !.sinks = @ \ {i}]
        /\ UNCHANGED <<state, leaked, tail, timerVars>>
     \/ /\ rtsp.sinks = {i}
        /\ UnscheduleAllDelayedTasks
        /\ CloseClient(rtsp.iter)
        /\ state' = "Initial"
        /\ tail' = "notifyPins"
  /\ UNCHANGED <<numSubsessions, queue, current, statVars, pinVars, settings,
                 callVars, result>>

HandleSocket ==
  \/ NoSocketReady
  \/ DescribeFailed
  \/ \E sdp \in Sdps : Described(sdp)
  \/ SetupAnswered
  \/ SetupFailed
  \/ \E vod \in BOOLEAN : PlayAnswered(vod)
  \/ PlayFailed
  \/ \E ok \in BOOLEAN : OptionsAnswered(ok)
  \/ \E i \in rtsp.sinks : Packet(i) \/ HandleSubsessionFinished(i)

-----------------------------------------------------------------------------
(* The worker: timer tasks *)

InAlarms == wpc = "alarm" /\ tail = "none" /\ wpc' = "poll"

Due(t) == InAlarms /\ alarms[t] > 0

NoAlarmDue ==
  /\ InAlarms
  /\ UNCHANGED <<sessionVars, tail, queue, current, timerVars, statVars,
                 pinVars, settings, callVars, result>>

DescribeRequestTimeout ==
  /\ Due("firstCall")
  /\ AttemptFailed(rtsp.iter, {"firstCall"}, {"reconnect"}, FALSE)
  /\ UNCHANGED <<numSubsessions, queue, statVars, pinVars, settings, callVars>>

CheckInterPacketGaps ==
  /\ Due("gap")
  /\ news' = FALSE
  /\ \/ /\ news
        /\ Retime({"gap"}, {}, {"gap"})
        /\ UNCHANGED mediaQueue
     \/ /\ ~news /\ ~autoReconnect
        /\ Retime({"gap"}, {"liveness", "session"}, {})
        /\ PushEos
     \/ /\ ~news /\ autoReconnect
        /\ Retime({"gap"}, {"liveness", "session"}, {"reconnect"})
        /\ UNCHANGED mediaQueue
  /\ UNCHANGED <<sessionVars, tail, queue, current, received, pin, settings,
                 callVars, result>>

\* When OPTIONS cannot be sent its handler is called at once and does nothing.
SendLivenessCommand ==
  /\ Due("liveness")
  /\ Retime({"liveness"}, {}, {})
  /\ \/ rtsp' = [rtsp EXCEPT !.awaiting = "OPTIONS"]
     \/ UNCHANGED rtsp
  /\ UNCHANGED <<state, numSubsessions, leaked, tail, queue, current, statVars,
                 pinVars, settings, callVars, result>>

\* Reconnect, HandleMediaEnded: the worker sends itself a request.
RequestItself(t, type) ==
  /\ Due(t)
  /\ Retime({t}, {}, {})
  /\ queue' = Append(queue, Request(type, "worker"))
  /\ UNCHANGED <<sessionVars, tail, current, statVars, pinVars, settings,
                 callVars, result>>

\* Mutant of Reconnect: the request is not made.
ReconnectInVain ==
  /\ Due("reconnect")
  /\ Retime({"reconnect"}, {}, {})
  /\ UNCHANGED <<sessionVars, queue, tail, current, statVars, pinVars, settings,
                 callVars, result>>

Reconnect == RequestItself("reconnect", "Reconnect")

HandleMediaEnded == RequestItself("session", "Stop")

HandleAlarm ==
  \/ NoAlarmDue
  \/ DescribeRequestTimeout
  \/ CheckInterPacketGaps
  \/ SendLivenessCommand
  \/ Reconnect
  \/ HandleMediaEnded

Worker ==
  \/ ResetState
  \/ NotifyPins
  \/ SingleStep
  \/ ServeRequest
  \/ HandleSocket
  \/ HandleAlarm

-----------------------------------------------------------------------------
(* The application's thread *)

unseenByApp == <<sessionVars, wpc, tail, current, timerVars, statVars>>

Push(req) == queue' = Append(queue, req)

\* Push a request and wait for the value of its future.
Call(req, waiting) ==
  /\ Push(req)
  /\ app' = waiting
  /\ UNCHANGED result

Load ==
  /\ app = "idle"
  /\ ~url
  /\ url' = TRUE
  /\ Call(Request("Open", "app"), "loadWait")
  /\ UNCHANGED <<unseenByApp, pinVars, settings, fstate>>

LoadReturn ==
  /\ app = "loadWait"
  /\ result # "none"
  /\ app' = "idle"
  /\ url' = (result = "ok")
  /\ result' = "none"
  /\ UNCHANGED <<unseenByApp, queue, pinVars, settings, fstate>>

\* Run reads the worker's _state without synchronisation.
Run ==
  /\ app = "idle"
  /\ url
  /\ \/ /\ state = "Initial"
        /\ Call(Request("Open", "app"), "runWait")
     \/ /\ state # "Initial"
        /\ app' = "runBase"
        /\ UNCHANGED <<queue, result>>
  /\ UNCHANGED <<unseenByApp, pinVars, settings, fstate, url>>

RunOpened ==
  /\ app = "runWait"
  /\ result # "none"
  /\ app' = IF result = "ok" THEN "runBase" ELSE "idle"
  /\ result' = "none"
  /\ UNCHANGED <<unseenByApp, queue, pinVars, settings, fstate, url>>

\* Pause of a stopped filter: both queues are cleared, then CBaseFilter::Pause
\* starts the threads of the pins.
ActivatePins ==
  IF fstate = "Stopped"
    THEN /\ mediaQueue' = [m \in Media |-> <<>>]
         /\ pin' = [m \in Media |->
              IF pin[m] = "absent" THEN "absent" ELSE "streaming"]
    ELSE UNCHANGED pinVars

\* CBaseFilter::Run pauses a stopped filter first.
RunBase ==
  /\ app = "runBase"
  /\ ActivatePins
  /\ fstate' = "Running"
  /\ app' = "runPlay"
  /\ UNCHANGED <<unseenByApp, queue, settings, url, result>>

RunPlay ==
  /\ app = "runPlay"
  /\ Len(queue) < MaxRequests
  /\ Push(Request("Play", "app"))
  /\ app' = "idle"
  /\ UNCHANGED <<unseenByApp, pinVars, settings, fstate, url, result>>

Pause ==
  /\ app = "idle"
  /\ url
  /\ ActivatePins
  /\ fstate' = "Paused"
  /\ UNCHANGED <<unseenByApp, queue, settings, app, url, result>>

Stop ==
  /\ app = "idle"
  /\ url
  /\ Call(Request("Stop", "app"), "stopWait")
  /\ UNCHANGED <<unseenByApp, pinVars, settings, fstate, url>>

StopReplied ==
  /\ app = "stopWait"
  /\ result # "none"
  /\ app' = "stopBase"
  /\ result' = "none"
  /\ UNCHANGED <<unseenByApp, queue, pinVars, settings, fstate, url>>

\* CBaseFilter::Stop joins the thread of a pin: it must not be in FillBuffer,
\* waiting for a packet.
Joinable(m) == pin[m] = "streaming" => mediaQueue[m] # <<>>

StopBase ==
  /\ app = "stopBase"
  /\ \A m \in Media : Joinable(m)
  /\ pin' = [m \in Media |-> IF pin[m] = "absent" THEN "absent" ELSE "inactive"]
  /\ fstate' = "Stopped"
  /\ app' = "idle"
  /\ UNCHANGED <<unseenByApp, queue, mediaQueue, settings, url, result>>

\* The destructor of a stopped filter: Done, then join.
Destroy ==
  /\ app = "idle"
  /\ fstate = "Stopped"
  /\ Push(Request("Done", "app"))
  /\ app' = "joining"
  /\ UNCHANGED <<unseenByApp, pinVars, settings, fstate, url, result>>

Joined ==
  /\ app = "joining"
  /\ wpc = "exited" /\ tail = "none"
  /\ app' = "gone"
  /\ UNCHANGED <<unseenByApp, queue, pinVars, settings, fstate, url, result>>

SetAutoReconnectionPeriod ==
  /\ app = "idle"
  /\ [autoReconnect |-> ~autoReconnect,
      sendLiveness |-> sendLiveness] \in Settings
  /\ autoReconnect' = ~autoReconnect
  /\ UNCHANGED <<unseenByApp, queue, pinVars, sendLiveness, callVars, result>>

SetSendLivenessCommand ==
  /\ app = "idle"
  /\ [autoReconnect |-> autoReconnect,
      sendLiveness |-> ~sendLiveness] \in Settings
  /\ sendLiveness' = ~sendLiveness
  /\ UNCHANGED <<unseenByApp, queue, pinVars, autoReconnect, callVars, result>>

\* The steps by which a call of the application gets on.
Return ==
  \/ LoadReturn \/ RunOpened \/ RunBase \/ RunPlay
  \/ StopReplied \/ StopBase \/ Joined

App ==
  \/ Return
  \/ Load \/ Run \/ Pause \/ Stop \/ Destroy
  \/ SetAutoReconnectionPeriod \/ SetSendLivenessCommand

-----------------------------------------------------------------------------
(* The threads of the pins *)

\* FillBuffer pops a packet and delivers it, or ends at a marker.
FillBuffer(m) ==
  /\ pin[m] = "streaming"
  /\ mediaQueue[m] # <<>>
  /\ mediaQueue' = [mediaQueue EXCEPT ![m] = Tail(@)]
  /\ pin' = [pin EXCEPT ![m] =
       IF Head(mediaQueue[m]) = "eos" THEN "finished" ELSE @]
  /\ UNCHANGED <<unseenByApp, queue, settings, callVars, result>>

-----------------------------------------------------------------------------
\* The constructor; the application may have called the setters.
Init ==
  /\ state = "Initial"
  /\ wpc = "poll"
  /\ tail = "none"
  /\ queue = <<>>
  /\ current = Replied
  /\ rtsp = NoClient
  /\ numSubsessions = 0
  /\ token = {}
  /\ alarms = [t \in Timers |-> 0]
  /\ leaked = FALSE
  /\ received = FALSE /\ news = FALSE
  /\ mediaQueue = [m \in Media |-> <<>>]
  /\ pin = [m \in Media |-> "absent"]
  /\ \E s \in Settings :
       autoReconnect = s.autoReconnect /\ sendLiveness = s.sendLiveness
  /\ app = "idle"
  /\ result = "none"
  /\ fstate = "Stopped"
  /\ url = FALSE

Next == Worker \/ App \/ \E m \in Media : FillBuffer(m)

Spec == Init /\ [][Next]_vars

\* The threads run: the worker's loop, a call of the application until it
\* returns, and the loops of the pins.
ThreadFairness ==
  /\ WF_vars(Worker)
  /\ WF_vars(Return)
  /\ \A m \in Media : WF_vars(FillBuffer(m))

\* An alarm of the delay queue comes due, unless it is unscheduled.
AlarmFairness ==
  /\ SF_vars(DescribeRequestTimeout)
  /\ SF_vars(CheckInterPacketGaps)
  /\ SF_vars(Reconnect)

\* The server answers SETUP, with success or with an error.
SetupFairness == SF_vars(SetupAnswered \/ SetupFailed)

FairSpec == Spec /\ ThreadFairness

LiveSpec == FairSpec /\ AlarmFairness /\ SetupFairness

-----------------------------------------------------------------------------
(* Type correctness *)

Results == {"none", "ok", "fail", "broken"}

Clients ==
  [open : BOOLEAN,
   awaiting : {"none", "DESCRIBE", "SETUP", "PLAY", "OPTIONS"},
   session : Seq(Media \cup {Unsupported}),
   iter : Nat,
   sinks : SUBSET Nat]

\* Every variable holds a value of its C++ type: the enumerations, the queues
\* and the members of the client and of the current request.
TypeOK ==
  /\ state \in States
  /\ wpc \in {"poll", "select", "alarm", "exited"}
  /\ tail \in {"none", "sendFailed", "resetState", "notifyPins"}
  /\ queue \in Seq(Requests)
  /\ current \in Requests \cup {Replied}
  /\ rtsp \in Clients
  /\ numSubsessions \in Nat
  /\ token \subseteq Timers
  /\ alarms \in [Timers -> Int]
  /\ leaked \in BOOLEAN /\ received \in BOOLEAN /\ news \in BOOLEAN
  /\ mediaQueue \in [Media -> Seq({"pkt", "eos"})]
  /\ pin \in [Media -> {"absent", "inactive", "streaming", "finished"}]
  /\ autoReconnect \in BOOLEAN /\ sendLiveness \in BOOLEAN
  /\ app \in {"idle", "loadWait", "runWait", "runBase", "runPlay", "stopWait",
              "stopBase", "joining", "gone"}
  /\ result \in Results
  /\ fstate \in {"Stopped", "Paused", "Running"}
  /\ url \in BOOLEAN

-----------------------------------------------------------------------------
(* Safety *)

\* A task token is set exactly while its task is in the delay queue, which
\* never holds two tasks of one timer: a token is not overwritten by a second
\* scheduleDelayedTask, so UnscheduleAllDelayedTasks reaches every task.
TimerTokens == \A t \in Timers : alarms[t] = Count(t \in token)

\* A timer task can only come due in the states its handler asserts, and with
\* the client and the session it is going to use.
TimerStates ==
  /\ alarms["firstCall"] > 0 =>
       state \in {"SettingUp", "Reconnecting"} /\ rtsp.awaiting = "DESCRIBE"
  /\ alarms["gap"] > 0 => state = "Playing" /\ rtsp.session # <<>>
  /\ alarms["reconnect"] > 0 =>
       state = "Playing" \/ (state = "Reconnecting" /\ ~rtsp.open)
  /\ alarms["liveness"] > 0 => state = "Playing" /\ rtsp.open
  /\ alarms["session"] > 0 => state = "Playing"

\* An answer can only arrive in a state its handler is written for, and an
\* answer to SETUP while the iterator stands at the subsession it is for.
AnswerStates ==
  /\ rtsp.awaiting = "DESCRIBE" =>
       state \in {"SettingUp", "Reconnecting"} /\ rtsp.session = <<>>
  /\ rtsp.awaiting = "SETUP" =>
       /\ state \in {"SettingUp", "Reconnecting"}
       /\ rtsp.iter \in DOMAIN rtsp.session
       /\ rtsp.session[rtsp.iter] \in Media
       /\ rtsp.iter \notin rtsp.sinks
  /\ rtsp.awaiting \in {"PLAY", "OPTIONS"} => state = "Playing"

\* Whatever the worker may still reply to, it has not replied to yet: no
\* answer, timeout or tail sets the value of a promise for a second time,
\* which would throw in the worker's thread and end the process.
ReplyOwed ==
  rtsp.awaiting \in {"DESCRIBE", "SETUP", "PLAY"} => current # Replied

\* A session belongs to the states that have one: Initial has no client and no
\* timer, ReadyToPlay and Playing have a session with a subsession playing.
SessionStates ==
  /\ state = "Initial" => rtsp = NoClient /\ token = {}
  /\ state \in {"ReadyToPlay", "Playing"} =>
       /\ rtsp.open
       /\ rtsp.iter = 0
       /\ rtsp.sinks # {}
       /\ rtsp.sinks \subseteq DOMAIN rtsp.session

\* A call of Load, Run or Stop that waits has its request in the queue or in
\* the hands of the worker; its promise is never destroyed without a value.
CallNotLost ==
  /\ result # "broken"
  /\ app \in {"loadWait", "runWait", "stopWait"} /\ result = "none" =>
       LET type == IF app = "stopWait" THEN "Stop" ELSE "Open" IN
         \/ \E k \in DOMAIN queue : queue[k] = Request(type, "app")
         \/ current = Request(type, "app")

\* An Open that is not replied to is being worked on: the worker waits for an
\* answer whose handler, or the next one, replies.
OpenAnswerable ==
  Awaited(current) =>
    state = "SettingUp" /\ rtsp.awaiting \in {"DESCRIBE", "SETUP"}

\* The worker has at most one request to itself in the queue, and no Open is
\* queued before it: Reconnect and the end of the media cannot reach a session
\* that is opened after the one they are about.
OwnRequestFirst ==
  \A i, j \in DOMAIN queue :
    i < j /\ queue[j].from = "worker" =>
      queue[i].from = "app" /\ queue[i].type # "Open"

Queued(type) == \E k \in DOMAIN queue : queue[k].type = type

\* While reconnecting exactly one thing gets the worker on: the next attempt
\* is scheduled, or it is queued, or an attempt has a client.  So the worker
\* never stalls, and an attempt never finds the client of another one (the
\* assertion in WorkerThread).
ReconnectGoesOn ==
  state = "Reconnecting" /\ tail # "resetState" =>
    Count("reconnect" \in token) + Count(Queued("Reconnect"))
      + Count(rtsp.open) = 1

\* When Stop has its answer, the worker is in its initial state: no session,
\* no client, no timer, nothing asked of the server.
StopGuarantee ==
  app = "stopBase" => state = "Initial" /\ rtsp = NoClient /\ token = {}

\* CBaseFilter::Stop never joins a pin's thread that waits for a packet for
\* ever: once the worker is through, each has a packet or a marker to wake up.
StopNotBlocked ==
  app = "stopBase" /\ tail = "none" => \A m \in Media : Joinable(m)

HasEos(m) == \E k \in DOMAIN mediaQueue[m] : mediaQueue[m][k] = "eos"

\* A playing session is watched until its pins are told that it is over: an
\* answer to PLAY, a timer or a request of the worker is due, or every pin's
\* thread has ended or has a marker to come.
PlayingIsWatched ==
  state = "Playing" =>
    \/ rtsp.awaiting = "PLAY"
    \/ "gap" \in token \/ "reconnect" \in token
    \/ \E k \in DOMAIN queue : queue[k].from = "worker"
    \/ \A m \in Media : pin[m] = "streaming" => HasEos(m)

-----------------------------------------------------------------------------
(* The inductive invariant: what the safety properties rest on *)

\* Which timers can be running, in terms of the answer awaited: none beside
\* PLAY, so that its answer schedules each of them once.
TimerInv ==
  /\ TimerTokens
  /\ "firstCall" \in token => rtsp.awaiting = "DESCRIBE"
  /\ token \cap {"gap", "liveness", "session"} # {} =>
       state = "Playing" /\ rtsp.awaiting # "PLAY"
  /\ "liveness" \in token => rtsp.awaiting # "OPTIONS"
  /\ "reconnect" \in token =>
       /\ "gap" \notin token
       /\ \/ state = "Playing" /\ rtsp.awaiting # "PLAY"
          \/ state = "Reconnecting" /\ rtsp = NoClient

ClientInv ==
  /\ ~rtsp.open => rtsp = NoClient
  /\ rtsp.sinks \subseteq DOMAIN rtsp.session
  /\ AnswerStates
  /\ SessionStates
  /\ state = "ReadyToPlay" => rtsp.awaiting = "none"
  /\ rtsp.awaiting = "SETUP" =>
       /\ \A i \in rtsp.sinks : i < rtsp.iter
       /\ numSubsessions # 0 => rtsp.sinks # {}
  /\ ReplyOwed

TailInv ==
  /\ tail = "resetState" =>
       /\ state \in {"SettingUp", "Reconnecting"}
       /\ rtsp = NoClient /\ token = {} /\ current = Replied
  /\ tail = "notifyPins" => state = "Initial"

\* A request of the worker to itself is taken before the worker steps its
\* scheduler again.
OwnRequestTaken ==
  \A k \in DOMAIN queue : queue[k].from = "worker" =>
    /\ wpc \in {"poll", "exited"}
    /\ tail \in {"none", "notifyPins"}
    /\ state \in {"Initial", "Playing", "Reconnecting"}

\* An Open is the last request in the queue, and the worker is ready to serve
\* it, or is about to be.
OpenIsLast ==
  \A k \in DOMAIN queue : queue[k].type = "Open" =>
    /\ k = Len(queue)
    /\ state = "Initial" \/ (state = "SettingUp" /\ tail = "resetState")

QueueInv ==
  OwnRequestTaken /\ OwnRequestFirst /\ OpenIsLast /\ ReconnectGoesOn

Waiting(type) ==
  /\ result = "none"
  /\ \/ type = "Open" /\ app \in {"loadWait", "runWait"}
     \/ type = "Stop" /\ app = "stopWait"

\* One call waits at a time: its request is once in the queue, or an Open is
\* in the hands of the worker, and then the queue is empty.
OneCall ==
  /\ \A k \in DOMAIN queue : Awaited(queue[k]) =>
       /\ Waiting(queue[k].type)
       /\ ~Awaited(current)
       /\ \A j \in DOMAIN queue : Awaited(queue[j]) => j = k
  /\ Awaited(current) =>
       /\ current.type = "Open"
       /\ Waiting("Open")
       /\ queue = <<>>
       /\ state \in {"SettingUp", "Initial"}

\* A value is there for a call that waits; Stop gets its value, and a failed
\* Load its own, from a worker in its initial state, or about to be in it.
CallStates ==
  /\ result # "none" => app \in {"loadWait", "runWait", "stopWait"}
  /\ app \in {"loadWait", "runWait"} => url
  /\ app = "stopBase" \/ (app = "stopWait" /\ result # "none") =>
       state = "Initial"
  /\ ~url \/ (app = "loadWait" /\ result = "fail") =>
       state = "Initial" \/ (state = "SettingUp" /\ tail = "resetState")

CallInv == CallNotLost /\ OneCall /\ CallStates

\* Every step of the code keeps this invariant: a handler finds the session,
\* the timers, the queue and the caller as the one before has left them.
IInv == TypeOK /\ TimerInv /\ ClientInv /\ TailInv /\ QueueInv /\ CallInv

\* Every pin's thread that runs has a marker to come.
PinsTold == \A m \in Media : pin[m] = "streaming" => HasEos(m)

\* The value of Stop's future is there, or Stop has seen it.
StopAnswered == app = "stopBase" \/ (app = "stopWait" /\ result # "none")

\* A session plays only in a filter that was started, because Stop overtakes no
\* Play: so Pause never clears the markers of a session that plays.
PlayBeforeStop ==
  /\ fstate = "Stopped" => state \notin {"Playing", "Reconnecting"}
  /\ fstate = "Stopped" \/ StopAnswered => ~Queued("Play")
  /\ app = "runPlay" => fstate # "Stopped"
  /\ \A j, k \in DOMAIN queue :
       queue[j] = Request("Stop", "app") /\ queue[k].type = "Play" => k < j

\* What the pins can rely on, given IInv: a session that plays is watched, and
\* Stop finds them told, or about to be.
PinsInv ==
  /\ PlayBeforeStop
  /\ PlayingIsWatched
  /\ StopAnswered /\ tail # "notifyPins" => PinsTold

-----------------------------------------------------------------------------
(* Liveness *)

\* Stop returns although the server may be silent and no timer may fire: the
\* worker takes the request, and the pins' threads can be joined.
StopReturns == app = "stopWait" ~> app = "idle"

\* The destructor returns: the worker takes Done and ends.
DestructorReturns == app = "joining" ~> app = "gone"

\* Load and a Run that opens the session return if the server answers SETUP;
\* a silent DESCRIBE is ended by _firstCallTimeoutTask.
OpenReturns == app \in {"loadWait", "runWait"} ~> app \in {"idle", "runBase"}

\* A lost session is asked for again, unless the filter gives up.  A request
\* in the queue goes before the timers: an application that calls Run for ever
\* keeps the worker from its alarms.
ReconnectRetried ==
  <>[](app = "idle") =>
    (state = "Reconnecting" /\ ~rtsp.open
       ~> rtsp.awaiting = "DESCRIBE" \/ state # "Reconnecting")

-----------------------------------------------------------------------------
(* What the source says of itself, and what does not hold *)

\* "No request to reply to" (HandleSubsessionFinished): no caller waits for
\* the request that was current when the last subsession ended.
NoRequestToReplyTo ==
  [][\A i \in rtsp.sinks :
       HandleSubsessionFinished(i) /\ state' = "Initial"
         => ~Awaited(current)]_vars

\* "If true, we'd have a memleak" (~RtspClient): a client is closed with its
\* iterator deleted and no subsession in the making.
NoLeak == ~leaked

\* "Guarantees that filter is in initial state when done" (Stop): a filter
\* that is started again after Stop meets no marker of the session before.
StopIsDone ==
  [][fstate = "Stopped" /\ fstate' # "Stopped" => tail # "notifyPins"]_vars

\* "This is only valid if we assume it's called as a first Run() or it is
\* called after Stop()" (Run): a filter that such a Run has started, and that
\* has no session, has told the threads of its pins.
PinsServed ==
  fstate = "Running" /\ app = "idle" /\ queue = <<>> /\ tail = "none"
    /\ state = "Initial"
      => \A m \in Media : pin[m] = "streaming" => HasEos(m)

=============================================================================
