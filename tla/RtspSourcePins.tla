--------------------------- MODULE RtspSourcePins ---------------------------
(* What the pins of RtspSource can rely on: PinsInv, and the safety that     *)
(* rests on it.                                                              *)
EXTENDS RtspSourceProofs

USE DEF sessionVars, timerVars, statVars, pinVars, settings, callVars,
        unseenByApp

-----------------------------------------------------------------------------
(* Markers *)

\* After PushEos every pin has a marker to come.
LEMMA PushEosTells ==
  ASSUME TypeOK, PushEos
  PROVE  PinsTold'
<1>1. ASSUME NEW q \in Seq({"pkt", "eos"})
      PROVE  \E k \in DOMAIN WithEos(q) : WithEos(q)[k] = "eos"
  <2>1. CASE q # <<>> /\ q[Len(q)] = "eos"
    <3>1. WithEos(q) = q /\ Len(q) \in DOMAIN q BY <2>1 DEF WithEos
    <3>2. QED BY <2>1, <3>1
  <2>2. CASE ~(q # <<>> /\ q[Len(q)] = "eos")
    <3>1. WithEos(q) = Append(q, "eos") BY <2>2 DEF WithEos
    <3>2. Len(q) + 1 \in DOMAIN Append(q, "eos")
          /\ Append(q, "eos")[Len(q) + 1] = "eos"
      OBVIOUS
    <3>3. QED BY <3>1, <3>2
  <2>3. QED BY <2>1, <2>2
<1>2. ASSUME NEW m \in Media PROVE HasEos(m)'
  <2>1. mediaQueue[m] \in Seq({"pkt", "eos"}) BY DEF TypeOK
  <2>2. mediaQueue'[m] = WithEos(mediaQueue[m]) BY DEF PushEos
  <2>3. QED BY <1>1, <2>1, <2>2 DEF HasEos
<1>3. QED BY <1>2 DEF PinsTold

\* A pin keeps its marker while its queue is left alone.
LEMMA SameMarkers ==
  ASSUME PinsTold, mediaQueue' = mediaQueue,
         \A m \in Media : pin'[m] = "streaming" => pin[m] = "streaming"
  PROVE  PinsTold'
<1>1. ASSUME NEW m \in Media, HasEos(m) PROVE HasEos(m)'
  BY <1>1 DEF HasEos
<1>2. QED BY <1>1 DEF PinsTold

\* A packet behind a marker does not hide it.
LEMMA PacketBehindMarker ==
  ASSUME TypeOK, PinsTold, NEW i \in rtsp.sinks, Packet(i)
  PROVE  PinsTold'
<1>1. ASSUME NEW q \in Seq({"pkt", "eos"}), \E k \in DOMAIN q : q[k] = "eos"
      PROVE  \E k \in DOMAIN Append(q, "pkt") : Append(q, "pkt")[k] = "eos"
  <2>1. PICK k \in DOMAIN q : q[k] = "eos" BY <1>1
  <2>2. k \in 1..Len(q) /\ Len(q) \in Nat BY <1>1
  <2>3. k \in DOMAIN Append(q, "pkt") /\ Append(q, "pkt")[k] = q[k]
    BY <1>1, <2>2
  <2>4. QED BY <2>1, <2>3
<1> DEFINE n == rtsp.session[i]
<1>2. pin' = pin BY DEF Packet
<1>3. \/ mediaQueue' = mediaQueue
      \/ mediaQueue' = [mediaQueue EXCEPT ![n] = Append(@, "pkt")]
  BY DEF Packet
<1>4. ASSUME NEW m \in Media, HasEos(m) PROVE HasEos(m)'
  <2>1. mediaQueue[m] \in Seq({"pkt", "eos"}) BY DEF TypeOK
  <2>2. mediaQueue'[m] \in {mediaQueue[m], Append(mediaQueue[m], "pkt")}
    <3>1. mediaQueue \in [Media -> Seq({"pkt", "eos"})] BY DEF TypeOK
    <3>2. QED BY <1>3, <3>1
  <2>3. QED BY <1>1, <1>4, <2>1, <2>2 DEF HasEos
<1>5. QED BY <1>2, <1>4 DEF PinsTold

\* A pin's thread takes packets until it takes the marker, and ends there.
LEMMA FillBufferTold ==
  ASSUME TypeOK, PinsTold, NEW n \in Media, FillBuffer(n)
  PROVE  PinsTold'
<1>1. ASSUME NEW q \in Seq({"pkt", "eos"}), q # <<>>, Head(q) # "eos",
             \E k \in DOMAIN q : q[k] = "eos"
      PROVE  \E k \in DOMAIN Tail(q) : Tail(q)[k] = "eos"
  <2>1. PICK k \in DOMAIN q : q[k] = "eos" BY <1>1
  <2>2. k \in 1..Len(q) /\ k # 1 BY <1>1, <2>1
  <2>3. k - 1 \in DOMAIN Tail(q) /\ Tail(q)[k - 1] = q[k]
    BY <1>1, <2>2
  <2>4. QED BY <2>1, <2>3
<1>2. /\ mediaQueue \in [Media -> Seq({"pkt", "eos"})]
      /\ pin \in [Media -> {"absent", "inactive", "streaming", "finished"}]
  BY DEF TypeOK
<1>3. /\ mediaQueue[n] # <<>>
      /\ mediaQueue' = [mediaQueue EXCEPT ![n] = Tail(@)]
      /\ pin' = [pin EXCEPT ![n] =
           IF Head(mediaQueue[n]) = "eos" THEN "finished" ELSE @]
  BY DEF FillBuffer
<1>4. ASSUME NEW m \in Media, pin'[m] = "streaming" PROVE HasEos(m)'
  <2>1. CASE m = n
    <3>1. Head(mediaQueue[n]) # "eos" /\ pin[n] = "streaming"
      BY <1>2, <1>3, <1>4, <2>1
    <3>2. mediaQueue'[n] = Tail(mediaQueue[n]) BY <1>2, <1>3
    <3>3. \E k \in DOMAIN mediaQueue[n] : mediaQueue[n][k] = "eos"
      BY <3>1 DEF PinsTold, HasEos
    <3>4. \E k \in DOMAIN Tail(mediaQueue[n]) : Tail(mediaQueue[n])[k] = "eos"
      BY <1>1, <1>2, <1>3, <3>1, <3>3
    <3>5. QED BY <2>1, <3>2, <3>4 DEF HasEos
  <2>2. CASE m # n
    <3>1. mediaQueue'[m] = mediaQueue[m] /\ pin'[m] = pin[m]
      BY <1>2, <1>3, <2>2
    <3>2. QED BY <1>4, <3>1 DEF PinsTold, HasEos
  <2>3. QED BY <2>1, <2>2
<1>5. QED BY <1>4 DEF PinsTold

\* What the worker does to the media queues and the pins: it leaves them,
\* pushes markers or a packet, or makes a pin that has no thread yet.
LEMMA WorkerMedia ==
  ASSUME TypeOK, Worker
  PROVE  /\ UNCHANGED callVars
         /\ \/ /\ mediaQueue' = mediaQueue
               /\ \A m \in Media : pin'[m] = "streaming" => pin[m] = "streaming"
            \/ PushEos
            \/ \E i \in rtsp.sinks : Packet(i)
<1> DEFINE Left == mediaQueue' = mediaQueue /\ pin' = pin /\ UNCHANGED callVars
<1>1. CASE ResetState \/ NotifyPins \/ SingleStep
  BY <1>1 DEF ResetState, NotifyPins, SingleStep
<1>2. CASE ServeRequest
  BY <1>2
  DEF ServeRequest, ServeOpen, ServePlay, ServeReconnect, ServeShutdown,
      ServeStopInInitial, ServeDoneInInitial, Reject
<1>3. CASE SetupAnswered
  <2>1. /\ mediaQueue' = mediaQueue /\ UNCHANGED callVars
        /\ pin' = [m \in Media |->
             IF m = rtsp.session[rtsp.iter] /\ pin[m] = "absent"
             THEN "inactive" ELSE pin[m]]
    BY <1>3 DEF SetupAnswered
  <2>2. QED BY <2>1
<1>4. ASSUME NEW i \in rtsp.sinks, Packet(i)
      PROVE  UNCHANGED callVars /\ \E j \in rtsp.sinks : Packet(j)
  BY <1>4 DEF Packet
<1>5. CASE HandleSocket
  <2>1. CASE NoSocketReady \/ DescribeFailed \/ SetupFailed \/ PlayFailed
    BY <2>1 DEF NoSocketReady, DescribeFailed, SetupFailed, PlayFailed
  <2>2. ASSUME NEW sdp \in Sdps, Described(sdp) PROVE Left
    BY <2>2 DEF Described
  <2>3. ASSUME NEW vod \in BOOLEAN, PlayAnswered(vod) PROVE Left
    BY <2>3 DEF PlayAnswered
  <2>4. ASSUME NEW ok \in BOOLEAN, OptionsAnswered(ok) PROVE Left
    BY <2>4 DEF OptionsAnswered
  <2>5. ASSUME NEW i \in rtsp.sinks, HandleSubsessionFinished(i) PROVE Left
    BY <2>5 DEF HandleSubsessionFinished
  <2>6. QED
    BY <1>3, <1>4, <1>5, <2>1, <2>2, <2>3, <2>4, <2>5 DEF HandleSocket
<1>6. CASE HandleAlarm
  BY <1>6
  DEF HandleAlarm, NoAlarmDue, DescribeRequestTimeout, CheckInterPacketGaps,
      SendLivenessCommand, Reconnect, HandleMediaEnded, RequestItself
<1>7. QED BY <1>1, <1>2, <1>5, <1>6 DEF Worker

\* No step of the worker takes a marker away.
LEMMA WorkerTold ==
  ASSUME TypeOK, PinsTold, Worker
  PROVE  PinsTold'
BY WorkerMedia, PushEosTells, SameMarkers, PacketBehindMarker
-----------------------------------------------------------------------------
(* Stop *)

\* The step that serves a Stop of the application.
ServesStop ==
  \E req \in Requests :
    req = Request("Stop", "app") /\ (ServeShutdown(req) \/ ServeStopInInitial(req))

\* Only the step that serves it gives Stop its value.
LEMMA StopAnsweredWhenServed ==
  ASSUME IInv, Worker
  PROVE  (StopAnswered' <=> StopAnswered) \/ ServesStop
<1>1. app' = app BY WorkerMedia DEF IInv
<1>2. Awaited(current) => app # "stopWait"
  BY DEF IInv, CallInv, OneCall, Waiting
<1>3. ASSUME \/ result' = result
             \/ \E code : Reply(code)
      PROVE  StopAnswered' <=> StopAnswered
  BY <1>1, <1>2, <1>3 DEF Reply, StopAnswered
<1>4. ASSUME NEW iter, NEW fired, NEW off, NEW early,
             AttemptFailed(iter, fired, off, early)
      PROVE  \E code : Reply(code)
  BY <1>4 DEF AttemptFailed
<1>5. ASSUME NEW n, NEW sinks, NEW off, SetupDone(n, sinks, off)
      PROVE  result' = result \/ \E code : Reply(code)
  BY <1>4, <1>5 DEF SetupDone
<1>6. CASE ResetState \/ NotifyPins \/ SingleStep
  BY <1>3, <1>6 DEF ResetState, NotifyPins, SingleStep
<1>7. ASSUME NEW req \in Requests, Take(req),
             \/ ServeOpen(req) \/ ServePlay(req) \/ ServeReconnect(req)
             \/ ServeShutdown(req) \/ ServeStopInInitial(req)
             \/ ServeDoneInInitial(req) \/ Reject(req)
      PROVE  (StopAnswered' <=> StopAnswered) \/ ServesStop
  <2>1. ~Awaited(current) BY <1>7, TakeEffect DEF IInv, CallInv, OneCall
  <2>2. CASE ServePlay(req)
    <3>1. result' = result BY <2>1, <2>2 DEF ServePlay, Adopt
    <3>2. QED BY <1>3, <3>1
  <2>3. CASE req = Request("Stop", "app")
    <3>1. ServeShutdown(req) \/ ServeStopInInitial(req)
      BY <1>7, <2>3
      DEF ServeOpen, ServePlay, ServeReconnect, ServeDoneInInitial, Reject,
          WrongStates, Request
    <3>2. QED BY <2>3, <3>1 DEF ServesStop
  <2>4. CASE req # Request("Stop", "app") /\ ~ServePlay(req)
    <3>1. \E code : result' = IF Awaited(req) THEN code ELSE result
      BY <1>7, <2>1, <2>4
      DEF ServeOpen, ServeReconnect, ServeShutdown, ServeStopInInitial,
          ServeDoneInInitial, Reject, Adopt, AdoptAndReply, ReplyTo
    <3>2. Awaited(req) => app # "stopWait"
      <4>1. Awaited(req) => req.type = "Open" /\ Waiting(req.type)
        BY <1>7, <2>4, TakeEffect
        DEF IInv, CallInv, OneCall, Awaited, Requests, Request
      <4>2. QED BY <4>1 DEF Waiting
    <3>3. QED BY <1>1, <3>1, <3>2 DEF StopAnswered
  <2>5. QED BY <2>2, <2>3, <2>4
<1>8. CASE ServeRequest
  <2>1. PICK req \in Requests :
          \/ ServeOpen(req) \/ ServePlay(req) \/ ServeReconnect(req)
          \/ ServeShutdown(req) \/ ServeStopInInitial(req)
          \/ ServeDoneInInitial(req) \/ Reject(req)
    BY <1>8 DEF ServeRequest
  <2>2. Take(req)
    BY <2>1
    DEF ServeOpen, ServePlay, ServeReconnect, ServeShutdown,
        ServeStopInInitial, ServeDoneInInitial, Reject
  <2>3. QED BY <1>7, <2>1, <2>2
<1>9. CASE HandleSocket
  <2>1. CASE NoSocketReady BY <1>3, <2>1 DEF NoSocketReady
  <2>2. CASE DescribeFailed BY <1>3, <1>4, <2>2 DEF DescribeFailed
  <2>3. ASSUME NEW sdp \in Sdps, Described(sdp)
        PROVE  StopAnswered' <=> StopAnswered
    BY <1>3, <1>5, <2>3 DEF Described
  <2>4. CASE SetupAnswered \/ SetupFailed
    BY <1>3, <1>5, <2>4 DEF SetupAnswered, SetupFailed
  <2>5. CASE PlayFailed \/ \E vod \in BOOLEAN : PlayAnswered(vod)
    BY <1>3, <2>5 DEF PlayFailed, PlayAnswered
  <2>6. ASSUME NEW ok \in BOOLEAN, OptionsAnswered(ok)
        PROVE  StopAnswered' <=> StopAnswered
    BY <1>3, <2>6 DEF OptionsAnswered
  <2>7. ASSUME NEW i \in rtsp.sinks, Packet(i) \/ HandleSubsessionFinished(i)
        PROVE  StopAnswered' <=> StopAnswered
    BY <1>3, <2>7 DEF Packet, HandleSubsessionFinished
  <2>8. QED
    BY <1>9, <2>1, <2>2, <2>3, <2>4, <2>5, <2>6, <2>7 DEF HandleSocket
<1>10. CASE HandleAlarm
  <2>1. CASE DescribeRequestTimeout
    BY <1>3, <1>4, <2>1 DEF DescribeRequestTimeout
  <2>2. CASE ~DescribeRequestTimeout
    BY <1>3, <1>10, <2>2
    DEF HandleAlarm, NoAlarmDue, CheckInterPacketGaps, SendLivenessCommand,
        Reconnect, HandleMediaEnded, RequestItself
  <2>3. QED BY <2>1, <2>2
<1>11. QED BY <1>6, <1>8, <1>9, <1>10 DEF Worker

\* When Stop has its value, the pins are told or about to be.
LEMMA WorkerTellsStop ==
  ASSUME IInv, Worker,
         StopAnswered /\ tail # "notifyPins" => PinsTold
  PROVE  StopAnswered' /\ tail' # "notifyPins" => PinsTold'
<1> SUFFICES ASSUME StopAnswered', tail' # "notifyPins" PROVE PinsTold'
  OBVIOUS
<1>1. CASE ServesStop
  <2>1. PICK req \in Requests : ServeShutdown(req) \/ ServeStopInInitial(req)
    BY <1>1 DEF ServesStop
  <2>2. ServeStopInInitial(req) BY <2>1 DEF ServeShutdown
  <2>3. QED BY <2>2, PushEosTells DEF ServeStopInInitial, IInv
<1>2. CASE StopAnswered /\ tail # "notifyPins"
  BY <1>2, WorkerTold DEF IInv
<1>3. CASE StopAnswered /\ tail = "notifyPins"
  <2>1. NotifyPins
    <3>1. ~ResetState /\ ~SingleStep BY <1>3 DEF ResetState, SingleStep, Idle
    <3>2. ~ServeRequest
      BY <1>3
      DEF ServeRequest, ServeOpen, ServePlay, ServeReconnect, ServeShutdown,
          ServeStopInInitial, ServeDoneInInitial, Reject, Take, Idle
    <3>3. ~HandleSocket
      BY <1>3
      DEF HandleSocket, NoSocketReady, DescribeFailed, Described,
          SetupAnswered, SetupFailed, PlayAnswered, PlayFailed,
          OptionsAnswered, Packet, HandleSubsessionFinished, Failed, Answered,
          Selecting
    <3>4. ~HandleAlarm
      BY <1>3
      DEF HandleAlarm, NoAlarmDue, DescribeRequestTimeout,
          CheckInterPacketGaps, SendLivenessCommand, Reconnect,
          HandleMediaEnded, RequestItself, Due, InAlarms
    <3>5. QED BY <3>1, <3>2, <3>3, <3>4 DEF Worker
  <2>2. QED BY <2>1, PushEosTells DEF NotifyPins, IInv
<1>4. QED BY <1>1, <1>2, <1>3, StopAnsweredWhenServed

-----------------------------------------------------------------------------
(* Play and Stop in the queue *)

\* The worker takes the first request, adds one of its own or leaves the queue.
LEMMA WorkerQueue ==
  ASSUME TypeOK, Worker
  PROVE  \/ queue' = queue
         \/ \E req \in Requests : Take(req)
         \/ \E type \in {"Reconnect", "Stop"} :
              queue' = Append(queue, Request(type, "worker"))
<1>1. CASE ResetState \/ NotifyPins \/ SingleStep
  BY <1>1 DEF ResetState, NotifyPins, SingleStep
<1>2. CASE ServeRequest
  BY <1>2
  DEF ServeRequest, ServeOpen, ServePlay, ServeReconnect, ServeShutdown,
      ServeStopInInitial, ServeDoneInInitial, Reject
<1>3. CASE HandleSocket
  BY <1>3
  DEF HandleSocket, NoSocketReady, DescribeFailed, Described, SetupAnswered,
      SetupFailed, PlayAnswered, PlayFailed, OptionsAnswered, Packet,
      HandleSubsessionFinished
<1>4. CASE HandleAlarm
  BY <1>4
  DEF HandleAlarm, NoAlarmDue, DescribeRequestTimeout, CheckInterPacketGaps,
      SendLivenessCommand, Reconnect, HandleMediaEnded, RequestItself
<1>5. QED BY <1>1, <1>2, <1>3, <1>4 DEF Worker

\* No Play is queued behind a Stop of the application.
PlaysFirst ==
  \A j, k \in DOMAIN queue :
    queue[j] = Request("Stop", "app") /\ queue[k].type = "Play" => k < j

\* The worker adds no Play, and keeps the order.
LEMMA WorkerPlays ==
  ASSUME TypeOK, PlaysFirst, Worker
  PROVE  PlaysFirst' /\ (Queued("Play")' => Queued("Play"))
<1>1. CASE queue' = queue BY <1>1 DEF PlaysFirst, Queued
<1>2. ASSUME NEW req \in Requests, Take(req)
      PROVE  PlaysFirst' /\ (Queued("Play")' => Queued("Play"))
  <2>1. PlaysFirst'
    <3>1. ASSUME NEW j \in DOMAIN queue', NEW k \in DOMAIN queue',
                 queue'[j] = Request("Stop", "app"), queue'[k].type = "Play"
          PROVE  k < j
      <4>1. /\ j + 1 \in DOMAIN queue /\ queue[j + 1] = queue'[j]
            /\ k + 1 \in DOMAIN queue /\ queue[k + 1] = queue'[k]
            /\ j \in Int /\ k \in Int
        BY <1>2, TakeEffect
      <4>2. k + 1 < j + 1 BY <3>1, <4>1 DEF PlaysFirst
      <4>3. QED BY <4>1, <4>2
    <3>2. QED BY <3>1 DEF PlaysFirst
  <2>2. ASSUME NEW k \in DOMAIN queue', queue'[k].type = "Play"
        PROVE  Queued("Play")
    BY <1>2, <2>2, TakeEffect DEF Queued
  <2>3. QED BY <2>1, <2>2 DEF Queued
<1>3. ASSUME NEW type \in {"Reconnect", "Stop"},
             queue' = Append(queue, Request(type, "worker"))
      PROVE  PlaysFirst' /\ (Queued("Play")' => Queued("Play"))
  <2>1. Request(type, "worker") \in Requests
        /\ Request(type, "worker") # Request("Stop", "app")
        /\ Request(type, "worker").type # "Play"
    BY DEF Request, Requests
  <2>2. QED BY <1>3, <2>1, AppendEffect DEF PlaysFirst, Queued
<1>4. QED BY <1>1, <1>2, <1>3, WorkerQueue

\* The worker plays when it is asked to, or plays or reconnects already.
LEMMA WorkerStates ==
  ASSUME IInv, Worker, state' \in {"Playing", "Reconnecting"}
  PROVE  state \in {"Playing", "Reconnecting"} \/ Queued("Play")
<1>1. ASSUME state' = state PROVE state \in {"Playing", "Reconnecting"}
  BY <1>1
<1>2. ASSUME NEW iter, NEW fired, NEW off, NEW early,
             AttemptFailed(iter, fired, off, early)
      PROVE  state \in {"Playing", "Reconnecting"}
  BY <1>2 DEF AttemptFailed
<1>3. ASSUME NEW n, NEW sinks, NEW off, SetupDone(n, sinks, off)
      PROVE  state \in {"Playing", "Reconnecting"}
  BY <1>2, <1>3 DEF SetupDone
<1>4. CASE ResetState \/ NotifyPins \/ SingleStep
  BY <1>1, <1>4 DEF ResetState, NotifyPins, SingleStep
<1>5. CASE ServeRequest
  <2>1. ASSUME NEW req \in Requests, ServePlay(req) PROVE Queued("Play")
    <3>1. Take(req) /\ req.type = "Play" BY <2>1 DEF ServePlay
    <3>2. QED BY <3>1, TakeEffect DEF Queued, IInv
  <2>2. ASSUME NEW req \in Requests,
               \/ ServeOpen(req) \/ ServeReconnect(req) \/ ServeShutdown(req)
               \/ ServeStopInInitial(req) \/ ServeDoneInInitial(req)
               \/ Reject(req)
        PROVE  state \in {"Playing", "Reconnecting"}
    BY <2>2
    DEF ServeOpen, ServeReconnect, ServeShutdown, ServeStopInInitial,
        ServeDoneInInitial, Reject
  <2>3. QED BY <1>5, <2>1, <2>2 DEF ServeRequest
<1>6. CASE HandleSocket
  <2>1. CASE NoSocketReady BY <1>1, <2>1 DEF NoSocketReady
  <2>2. CASE DescribeFailed BY <1>2, <2>2 DEF DescribeFailed
  <2>3. ASSUME NEW sdp \in Sdps, Described(sdp)
        PROVE  state \in {"Playing", "Reconnecting"}
    BY <1>1, <1>3, <2>3 DEF Described
  <2>4. CASE SetupAnswered \/ SetupFailed
    BY <1>1, <1>3, <2>4 DEF SetupAnswered, SetupFailed
  <2>5. CASE PlayFailed
    BY <2>5 DEF PlayFailed, Failed, Answered, IInv, ClientInv, AnswerStates
  <2>6. ASSUME NEW vod \in BOOLEAN, PlayAnswered(vod) PROVE state' = state
    BY <2>6 DEF PlayAnswered
  <2>7. ASSUME NEW ok \in BOOLEAN, OptionsAnswered(ok) PROVE state' = state
    BY <2>7 DEF OptionsAnswered
  <2>8. ASSUME NEW i \in rtsp.sinks, Packet(i) \/ HandleSubsessionFinished(i)
        PROVE  state' = state
    BY <2>8 DEF Packet, HandleSubsessionFinished
  <2>9. QED
    BY <1>1, <1>6, <2>1, <2>2, <2>3, <2>4, <2>5, <2>6, <2>7, <2>8
    DEF HandleSocket
<1>7. CASE HandleAlarm
  <2>1. CASE DescribeRequestTimeout
    BY <1>2, <2>1 DEF DescribeRequestTimeout
  <2>2. CASE ~DescribeRequestTimeout
    BY <1>1, <1>7, <2>2
    DEF HandleAlarm, NoAlarmDue, CheckInterPacketGaps, SendLivenessCommand,
        Reconnect, HandleMediaEnded, RequestItself
  <2>3. QED BY <2>1, <2>2
<1>8. QED BY <1>4, <1>5, <1>6, <1>7 DEF Worker

\* When Stop has its value no Play is left.
LEMMA ServedStopLeavesNoPlay ==
  ASSUME TypeOK, PlaysFirst, ServesStop
  PROVE  ~Queued("Play")'
<1>1. PICK req \in Requests : req = Request("Stop", "app") /\ Take(req)
  BY DEF ServesStop, ServeShutdown, ServeStopInInitial
<1>2. ASSUME NEW k \in DOMAIN queue' PROVE queue'[k].type # "Play"
  <2>1. /\ k + 1 \in DOMAIN queue /\ queue'[k] = queue[k + 1]
        /\ 1 \in DOMAIN queue /\ queue[1] = req /\ k \in Nat
    BY <1>1, TakeEffect
  <2>2. ~(k + 1 < 1) BY <2>1
  <2>3. QED BY <1>1, <2>1, <2>2 DEF PlaysFirst
<1>3. QED BY <1>2 DEF Queued

\* The worker keeps Play before Stop.
LEMMA WorkerKeepsPlayBeforeStop ==
  ASSUME IInv, Worker, PlayBeforeStop
  PROVE  PlayBeforeStop'
<1>1. UNCHANGED <<app, fstate>> BY WorkerMedia DEF IInv
<1>2. PlaysFirst BY DEF PlayBeforeStop, PlaysFirst
<1>3. PlaysFirst' /\ (Queued("Play")' => Queued("Play"))
  BY <1>2, WorkerPlays DEF IInv
<1>4. fstate' = "Stopped" => state' \notin {"Playing", "Reconnecting"}
  BY <1>1, WorkerStates DEF PlayBeforeStop
<1>5. fstate' = "Stopped" \/ StopAnswered' => ~Queued("Play")'
  BY <1>1, <1>2, <1>3, StopAnsweredWhenServed, ServedStopLeavesNoPlay
  DEF PlayBeforeStop, IInv
<1>6. app' = "runPlay" => fstate' # "Stopped"
  BY <1>1 DEF PlayBeforeStop
<1>7. QED BY <1>3, <1>4, <1>5, <1>6 DEF PlayBeforeStop, PlaysFirst

-----------------------------------------------------------------------------
(* A session that plays is watched *)

\* The worker has a request of its own in the queue.
OwnRequest == \E k \in DOMAIN queue : queue[k].from = "worker"

Watched ==
  \/ rtsp.awaiting = "PLAY"
  \/ "gap" \in token \/ "reconnect" \in token
  \/ OwnRequest
  \/ PinsTold

\* PlayingIsWatched, with its parts named.
LEMMA PlayingWatched == PlayingIsWatched <=> (state = "Playing" => Watched)
BY DEF PlayingIsWatched, Watched, OwnRequest, PinsTold

\* A request that is taken in Playing and is not one of the worker's own leaves
\* those in the queue.
LEMMA OwnRequestStays ==
  ASSUME TypeOK, NEW req \in Requests, Take(req), req.from # "worker", OwnRequest
  PROVE  OwnRequest'
<1>1. PICK k \in DOMAIN queue : queue[k].from = "worker" BY DEF OwnRequest
<1>2. k \in 1..Len(queue) /\ k # 1 BY <1>1, TakeEffect
<1>3. k - 1 \in DOMAIN queue' /\ (k - 1) + 1 = k BY <1>2, TakeEffect
<1>4. queue'[k - 1] = queue[k] BY <1>3, TakeEffect
<1>5. QED BY <1>1, <1>3, <1>4 DEF OwnRequest

\* A request that is served: Play awaits its answer, and the requests of the
\* worker itself end Playing.
LEMMA ServedWatched ==
  ASSUME IInv, state = "Playing" => Watched, ServeRequest, state' = "Playing"
  PROVE  Watched'
<1>1. PICK req \in Requests :
        \/ ServeOpen(req) \/ ServePlay(req) \/ ServeReconnect(req)
        \/ ServeShutdown(req) \/ ServeStopInInitial(req)
        \/ ServeDoneInInitial(req) \/ Reject(req)
  BY DEF ServeRequest
<1>2. CASE ServePlay(req)
  <2>1. rtsp' = [rtsp EXCEPT !.iter = 0, !.sinks = rtsp.sinks, !.awaiting = "PLAY"]
    BY <1>2 DEF ServePlay, Play
  <2>2. rtsp'.awaiting = "PLAY" BY <2>1 DEF IInv, TypeOK, Clients
  <2>3. QED BY <2>2 DEF Watched
<1>3. CASE Reject(req)
  <2>1. Take(req) /\ UNCHANGED <<state, rtsp, token, mediaQueue, pin>>
    BY <1>3 DEF Reject
  <2>2. req.from # "worker"
    BY <1>3, <2>1 DEF Reject, WrongStates, Requests
  <2>3. OwnRequest => OwnRequest' BY <2>1, <2>2, OwnRequestStays DEF IInv
  <2>4. PinsTold => PinsTold' BY <2>1, SameMarkers
  <2>5. QED BY <2>1, <2>3, <2>4 DEF Watched
<1>4. QED
  BY <1>1, <1>2, <1>3
  DEF ServeOpen, ServeReconnect, ServeShutdown, ServeStopInInitial,
      ServeDoneInInitial

\* A step that leaves the state, the timers, the requests and PLAY alone.
LEMMA AloneWatched ==
  ASSUME IInv, state = "Playing" => Watched, state' = "Playing",
         UNCHANGED <<state, token, queue>>, rtsp'.awaiting = rtsp.awaiting,
         PinsTold => PinsTold'
  PROVE  Watched'
BY DEF Watched, OwnRequest

\* An answer to PLAY schedules the gap check, and only PLAY enters Playing.
LEMMA HandledWatched ==
  ASSUME IInv, state = "Playing" => Watched, HandleSocket, state' = "Playing"
  PROVE  Watched'
<1>1. Worker /\ (PinsTold => PinsTold') BY WorkerTold DEF Worker, IInv
<1>2. ASSUME state # "Playing",
             NEW iter, NEW fired, NEW off, NEW early,
             AttemptFailed(iter, fired, off, early)
      PROVE  FALSE
  BY <1>2 DEF AttemptFailed
<1>3. ASSUME state # "Playing", NEW n, NEW sinks, NEW off, SetupDone(n, sinks, off)
      PROVE  Watched'
  <2>1. n # 0 /\ state = "Reconnecting" BY <1>2, <1>3 DEF SetupDone
  <2>2. rtsp' = [rtsp EXCEPT !.iter = 0, !.sinks = sinks, !.awaiting = "PLAY"]
    BY <1>3, <2>1 DEF SetupDone, Play
  <2>3. rtsp'.awaiting = "PLAY" BY <2>2 DEF IInv, TypeOK, Clients
  <2>4. QED BY <2>3 DEF Watched
<1>4. CASE NoSocketReady \/ \E i \in rtsp.sinks : Packet(i)
  BY <1>1, <1>4, AloneWatched DEF NoSocketReady, Packet
<1>5. ASSUME NEW i \in rtsp.sinks, HandleSubsessionFinished(i) PROVE Watched'
  <2>1. /\ rtsp' = [rtsp EXCEPT !.sinks = @ \ {i}]
        /\ UNCHANGED <<state, token, queue>>
    BY <1>5 DEF HandleSubsessionFinished
  <2>2. rtsp'.awaiting = rtsp.awaiting BY <2>1 DEF IInv, TypeOK, Clients
  <2>3. QED BY <1>1, <2>1, <2>2, AloneWatched
<1>6. CASE DescribeFailed
  <2>1. state # "Playing"
    BY <1>6 DEF DescribeFailed, Failed, Answered, IInv, ClientInv, AnswerStates
  <2>2. QED BY <1>2, <1>6, <2>1 DEF DescribeFailed
<1>7. ASSUME NEW sdp \in Sdps, Described(sdp) PROVE Watched'
  <2>1. state # "Playing"
    BY <1>7 DEF Described, Answered, IInv, ClientInv, AnswerStates
  <2>2. QED BY <1>3, <1>7, <2>1 DEF Described
<1>8. CASE SetupAnswered \/ SetupFailed
  <2>1. state # "Playing"
    BY <1>8
    DEF SetupAnswered, SetupFailed, Answered, IInv, ClientInv, AnswerStates
  <2>2. QED BY <1>3, <1>8, <2>1 DEF SetupAnswered, SetupFailed
<1>9. ASSUME NEW vod \in BOOLEAN, PlayAnswered(vod) PROVE Watched'
  BY <1>9 DEF PlayAnswered, Retime, Watched
<1>10. CASE PlayFailed BY <1>10 DEF PlayFailed
<1>11. ASSUME NEW ok \in BOOLEAN, OptionsAnswered(ok) PROVE Watched'
  <2>1. /\ state = "Playing" /\ rtsp.awaiting # "PLAY" /\ queue' = queue
        /\ token \subseteq token'
    BY <1>11 DEF OptionsAnswered, Answered, Retime
  <2>2. QED BY <1>1, <2>1 DEF Watched, OwnRequest
<1>12. QED
  BY <1>4, <1>5, <1>6, <1>7, <1>8, <1>9, <1>10, <1>11 DEF HandleSocket

\* The gap check goes on, tells the pins or schedules the next attempt, and
\* that asks for it.
LEMMA AlarmWatched ==
  ASSUME IInv, state = "Playing" => Watched, HandleAlarm, state' = "Playing"
  PROVE  Watched'
<1>1. PinsTold => PinsTold' BY WorkerTold DEF Worker, IInv
<1>2. TypeOK /\ TimerTokens BY DEF IInv, TimerInv
<1>3. CASE NoAlarmDue BY <1>1, <1>3, AloneWatched DEF NoAlarmDue
<1>4. CASE DescribeRequestTimeout
  <2>1. "firstCall" \in token
    BY <1>2, <1>4, DueToken DEF DescribeRequestTimeout, Timers
  <2>2. state # "Playing"
    BY <2>1 DEF IInv, TimerInv, ClientInv, AnswerStates
  <2>3. QED BY <1>4, <2>2 DEF DescribeRequestTimeout, AttemptFailed
<1>5. CASE CheckInterPacketGaps
  <2>1. CASE PushEos BY <1>2, <2>1, PushEosTells DEF Watched
  <2>2. CASE ~PushEos
    BY <1>5, <2>2 DEF CheckInterPacketGaps, Retime, Watched
  <2>3. QED BY <2>1, <2>2
<1>6. CASE SendLivenessCommand
  <2>1. "liveness" \in token
    BY <1>2, <1>6, DueToken DEF SendLivenessCommand, Timers
  <2>2. state = "Playing" /\ rtsp.awaiting # "PLAY"
    BY <2>1 DEF IInv, TimerInv
  <2>3. queue' = queue /\ token \ {"liveness"} \subseteq token'
    BY <1>6 DEF SendLivenessCommand, Retime
  <2>4. QED BY <1>1, <2>2, <2>3 DEF Watched, OwnRequest
<1>7. CASE Reconnect \/ HandleMediaEnded
  <2>1. PICK type \in {"Reconnect", "Stop"} :
          queue' = Append(queue, Request(type, "worker"))
    BY <1>7 DEF Reconnect, HandleMediaEnded, RequestItself
  <2>2. Request(type, "worker") \in Requests
        /\ Request(type, "worker").from = "worker"
    BY DEF Request, Requests
  <2>3. queue'[Len(queue')] = Request(type, "worker")
        /\ Len(queue') \in DOMAIN queue'
    BY <1>2, <2>1, <2>2, AppendEffect
  <2>4. QED BY <2>2, <2>3 DEF Watched, OwnRequest
<1>8. QED BY <1>3, <1>4, <1>5, <1>6, <1>7 DEF HandleAlarm

\* No step of the worker leaves a session that plays unwatched.
LEMMA WorkerWatched ==
  ASSUME IInv, PlayingIsWatched, Worker
  PROVE  PlayingIsWatched'
<1>1. state = "Playing" => Watched BY PlayingWatched
<1>2. ASSUME state' = "Playing" PROVE Watched'
  <2>1. PinsTold => PinsTold' BY WorkerTold DEF IInv
  <2>2. CASE ResetState BY <1>2, <2>2 DEF ResetState
  <2>3. CASE NotifyPins \/ SingleStep
    BY <1>1, <1>2, <2>1, <2>3, AloneWatched DEF NotifyPins, SingleStep
  <2>4. QED
    BY <1>1, <1>2, <2>2, <2>3, ServedWatched, HandledWatched, AlarmWatched
    DEF Worker
<1>3. (PlayingIsWatched <=> (state = "Playing" => Watched))'
  BY DEF PlayingIsWatched, Watched, OwnRequest, PinsTold
<1>4. QED BY <1>2, <1>3

-----------------------------------------------------------------------------
(* The application and the pins' threads *)

\* A step of another thread that leaves the requests and the markers.
LEMMA UnseenWatched ==
  ASSUME PlayingIsWatched, UNCHANGED <<state, rtsp, token>>,
         OwnRequest => OwnRequest', state = "Playing" /\ PinsTold => PinsTold'
  PROVE  PlayingIsWatched'
<1>1. ASSUME state' = "Playing" PROVE Watched'
  BY <1>1, PlayingWatched DEF Watched
<1>2. (PlayingIsWatched <=> (state = "Playing" => Watched))'
  BY DEF PlayingIsWatched, Watched, OwnRequest, PinsTold
<1>3. QED BY <1>1, <1>2

\* Starting the pins' threads clears no marker of a session that plays.
LEMMA ActivatedTold ==
  ASSUME PlayBeforeStop, ActivatePins, state = "Playing", PinsTold
  PROVE  PinsTold'
<1>1. UNCHANGED <<mediaQueue, pin>> BY DEF ActivatePins, PlayBeforeStop
<1>2. QED BY <1>1, SameMarkers

\* A step of the application that adds no request.
LEMMA AppQuietKeeps ==
  ASSUME IInv, PinsInv, UNCHANGED <<unseenByApp, queue>>,
         state = "Playing" /\ PinsTold => PinsTold',
         StopAnswered' =>
           StopAnswered /\ mediaQueue' = mediaQueue /\ pin' = pin,
         fstate' = "Stopped" => fstate = "Stopped" \/ StopAnswered,
         app' = "runPlay" => fstate' # "Stopped"
  PROVE  PinsInv'
<1>1. Queued("Play")' <=> Queued("Play") BY DEF Queued
<1>2. PlayBeforeStop'
  <2>1. StopAnswered => state = "Initial"
    BY DEF StopAnswered, IInv, CallInv, CallStates
  <2>2. QED BY <1>1, <2>1 DEF PinsInv, PlayBeforeStop
<1>3. PlayingIsWatched' BY UnseenWatched DEF PinsInv, OwnRequest
<1>4. StopAnswered' /\ tail' # "notifyPins" => PinsTold'
  BY SameMarkers DEF PinsInv
<1>5. QED BY <1>2, <1>3, <1>4 DEF PinsInv

\* A request of the application: Play of a filter that was started, or Stop
\* behind every Play.
LEMMA AppPushPins ==
  ASSUME IInv, PinsInv, UNCHANGED <<unseenByApp, pinVars, fstate, result>>,
         NEW type \in {"Open", "Play", "Stop", "Done"},
         queue' = Append(queue, Request(type, "app")),
         app \in {"idle", "runPlay"},
         type = "Play" => app = "runPlay",
         app' \in {"idle", "loadWait", "runWait", "stopWait", "joining"}
  PROVE  PinsInv'
<1> DEFINE req == Request(type, "app")
<1>1. req \in Requests /\ req.type = type BY DEF Request, Requests
<1>2. /\ DOMAIN queue = 1..Len(queue) /\ Len(queue) \in Nat
      /\ Len(queue') = Len(queue) + 1 /\ DOMAIN queue' = 1..Len(queue')
      /\ queue'[Len(queue')] = req
      /\ \A k \in DOMAIN queue : k \in DOMAIN queue' /\ queue'[k] = queue[k]
      /\ \A k \in DOMAIN queue' : k \in DOMAIN queue \/ k = Len(queue')
  BY <1>1, AppendEffect DEF IInv
<1>3. result = "none" /\ \A k \in DOMAIN queue : ~Awaited(queue[k])
  BY DEF IInv, CallInv, CallStates, OneCall, Waiting
<1>4. ~StopAnswered' BY <1>3 DEF StopAnswered
<1>5. Queued("Play")' => Queued("Play") \/ type = "Play"
  BY <1>1, <1>2 DEF Queued
<1>6. PlaysFirst'
  <2>1. \A k \in DOMAIN queue : queue[k] # Request("Stop", "app")
    BY <1>3 DEF Awaited, Request
  <2>2. ASSUME NEW j \in DOMAIN queue', NEW k \in DOMAIN queue',
               queue'[j] = Request("Stop", "app"), queue'[k].type = "Play"
        PROVE  k < j
    <3>1. j = Len(queue') BY <1>2, <2>1, <2>2
    <3>2. type = "Stop" BY <1>2, <2>2, <3>1 DEF Request
    <3>3. k # Len(queue') BY <1>1, <1>2, <2>2, <3>2
    <3>4. QED BY <1>2, <3>1, <3>3
  <2>3. QED BY <2>2 DEF PlaysFirst
<1>7. PlayBeforeStop'
  BY <1>4, <1>5, <1>6 DEF PinsInv, PlayBeforeStop, PlaysFirst
<1>8. PlayingIsWatched'
  <2>1. OwnRequest => OwnRequest' BY <1>2 DEF OwnRequest
  <2>2. PinsTold => PinsTold' BY SameMarkers
  <2>3. QED BY <2>1, <2>2, UnseenWatched DEF PinsInv
<1>9. QED BY <1>4, <1>7, <1>8 DEF PinsInv

\* Every step of the application keeps what the pins rely on.
LEMMA AppKeepsPins ==
  ASSUME IInv, PinsInv, App
  PROVE  PinsInv'
<1>1. CASE Load \/ Stop \/ Destroy \/ RunPlay
  BY <1>1, AppPushPins DEF Load, Stop, Destroy, RunPlay, Call, Push
<1>2. CASE Run
  <2>1. CASE state = "Initial" BY <1>2, <2>1, AppPushPins DEF Run, Call, Push
  <2>2. CASE state # "Initial"
    BY <1>2, <2>2, AppQuietKeeps, SameMarkers DEF Run, StopAnswered
  <2>3. QED BY <2>1, <2>2
<1>3. CASE RunBase \/ Pause
  BY <1>3, AppQuietKeeps, ActivatedTold
  DEF RunBase, Pause, StopAnswered, PinsInv, IInv, CallInv, CallStates
<1>4. CASE StopBase
  <2>1. mediaQueue' = mediaQueue
        /\ pin' = [m \in Media |->
                     IF pin[m] = "absent" THEN "absent" ELSE "inactive"]
    BY <1>4 DEF StopBase
  <2>2. PinsTold => PinsTold' BY <2>1, SameMarkers
  <2>3. QED BY <1>4, <2>2, AppQuietKeeps DEF StopBase, StopAnswered
<1>5. CASE LoadReturn \/ RunOpened \/ StopReplied \/ Joined
  BY <1>5, AppQuietKeeps, SameMarkers
  DEF LoadReturn, RunOpened, StopReplied, Joined, StopAnswered
<1>6. CASE SetAutoReconnectionPeriod \/ SetSendLivenessCommand
  BY <1>6, AppQuietKeeps, SameMarkers
  DEF SetAutoReconnectionPeriod, SetSendLivenessCommand, StopAnswered, PinsInv,
      PlayBeforeStop
<1>7. QED BY <1>1, <1>2, <1>3, <1>4, <1>5, <1>6 DEF App, Return

\* Every step keeps what the pins rely on.
LEMMA NextKeepsPins == IInv /\ PinsInv /\ [Next]_vars => PinsInv'
<1> SUFFICES ASSUME IInv, PinsInv, [Next]_vars PROVE PinsInv'
  OBVIOUS
<1>1. CASE Worker
  BY <1>1, WorkerKeepsPlayBeforeStop, WorkerWatched, WorkerTellsStop DEF PinsInv
<1>2. CASE App BY <1>2, AppKeepsPins
<1>3. ASSUME UNCHANGED <<unseenByApp, queue, app, result, fstate>>,
             PinsTold => PinsTold'
      PROVE  PinsInv'
  <2>1. PlayBeforeStop'
    BY <1>3 DEF PinsInv, PlayBeforeStop, StopAnswered, Queued
  <2>2. PlayingIsWatched' BY <1>3, UnseenWatched DEF PinsInv, OwnRequest
  <2>3. QED BY <1>3, <2>1, <2>2 DEF PinsInv, StopAnswered
<1>4. ASSUME NEW m \in Media, FillBuffer(m) PROVE PinsInv'
  BY <1>3, <1>4, FillBufferTold DEF FillBuffer, IInv
<1>5. CASE UNCHANGED vars
  BY <1>3, <1>5, SameMarkers DEF vars
<1>6. QED BY <1>1, <1>2, <1>4, <1>5 DEF Next

\* The pins can rely on the worker from the beginning.
LEMMA InitPins == Init => PinsInv
BY DEF Init, PinsInv, PlayBeforeStop, PlayingIsWatched, StopAnswered, Queued

-----------------------------------------------------------------------------
(* The theorems *)

\* What the pins rely on: PlayBeforeStop, and markers that are never lost.
THEOREM PinsAreServed == Spec => []PinsInv
BY InitPins, NextKeepsPins, Inductive, PTL DEF Spec

\* A playing session has an answer, a timer or a request to come, or its pins
\* have been told that it is over: the chain from CheckInterPacketGaps to
\* Reconnect never breaks.
THEOREM PlayingAlwaysWatched == Spec => []PlayingIsWatched
<1>1. PinsInv => PlayingIsWatched BY DEF PinsInv
<1>2. QED BY <1>1, PinsAreServed, PTL

\* CBaseFilter::Stop never joins a thread that waits for a packet for ever.
THEOREM StopNeverBlocked == Spec => []StopNotBlocked
<1>1. ASSUME PinsInv PROVE StopNotBlocked
  <2>1. ASSUME NEW m \in Media, HasEos(m) PROVE mediaQueue[m] # <<>>
    BY <2>1 DEF HasEos
  <2>2. QED BY <1>1, <2>1 DEF PinsInv, StopAnswered, PinsTold, StopNotBlocked, Joinable
<1>2. QED BY <1>1, PinsAreServed, PTL
=============================================================================
