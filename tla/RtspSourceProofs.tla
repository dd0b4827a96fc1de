-------------------------- MODULE RtspSourceProofs --------------------------
(* Type correctness of RtspSource, its inductive invariant, and the safety  *)
(* that rests on it, for every value of the constants.                       *)
EXTENDS RtspSource, TLAPS

USE DEF sessionVars, timerVars, statVars, pinVars, settings, callVars,
        unseenByApp

-----------------------------------------------------------------------------
(* The helpers *)

\* Rescheduling timers leaves sets of timers and counts of them.
LEMMA RetimeType ==
  ASSUME TypeOK,
         NEW fired, NEW off, NEW on \in SUBSET Timers,
         Retime(fired, off, on)
  PROVE  token' \in SUBSET Timers /\ alarms' \in [Timers -> Int]
BY DEF TypeOK, Retime, Count

\* A reply leaves no current request, and a value of a future.
LEMMA ReplyType ==
  ASSUME TypeOK, NEW code \in Results, Reply(code)
  PROVE  current' \in Requests \cup {Replied} /\ result' \in Results
BY DEF TypeOK, Reply

\* Markers are added to every media queue.
LEMMA PushEosType ==
  ASSUME TypeOK, PushEos
  PROVE  mediaQueue' \in [Media -> Seq({"pkt", "eos"})]
<1>1. ASSUME NEW q \in Seq({"pkt", "eos"})
      PROVE  WithEos(q) \in Seq({"pkt", "eos"})
  BY <1>1 DEF WithEos
<1>2. QED BY <1>1 DEF TypeOK, PushEos

\* The record that stands for no client is one of a client's records.
LEMMA NoClientType == NoClient \in Clients
BY DEF NoClient, Clients

\* Closing the client leaves none.
LEMMA CloseClientType ==
  ASSUME TypeOK, NEW iter \in Nat, CloseClient(iter)
  PROVE  rtsp' = NoClient /\ rtsp' \in Clients /\ leaked' \in BOOLEAN
BY NoClientType DEF TypeOK, CloseClient

\* The client that an attempt opens.
LEMMA OpenUrlType ==
  ASSUME TypeOK, NEW off, OpenUrl(off)
  PROVE  /\ token' \in SUBSET Timers /\ alarms' \in [Timers -> Int]
         /\ rtsp' \in Clients
         /\ tail' \in {"none", "sendFailed", "resetState"}
<1>1. {"firstCall"} \in SUBSET Timers /\ {} \in SUBSET Timers
  BY DEF Timers
<1>2. token' \in SUBSET Timers /\ alarms' \in [Timers -> Int]
  BY <1>1, RetimeType DEF OpenUrl
<1>3. [NoClient EXCEPT !.open = TRUE, !.awaiting = "DESCRIBE"] \in Clients
  BY NoClientType DEF Clients
<1>4. QED BY <1>2, <1>3, NoClientType DEF OpenUrl, Send

\* The end of an attempt.
LEMMA AttemptFailedType ==
  ASSUME TypeOK, NEW iter \in Nat, NEW fired, NEW off, NEW early \in BOOLEAN,
         AttemptFailed(iter, fired, off, early)
  PROVE  /\ token' \in SUBSET Timers /\ alarms' \in [Timers -> Int]
         /\ rtsp' \in Clients /\ leaked' \in BOOLEAN
         /\ current' \in Requests \cup {Replied} /\ result' \in Results
         /\ tail' \in {"none", "resetState"}
         /\ state' \in {state, "Initial"}
<1>1. {"reconnect"} \in SUBSET Timers /\ {} \in SUBSET Timers
  BY DEF Timers
<1>2. token' \in SUBSET Timers /\ alarms' \in [Timers -> Int]
  BY <1>1, RetimeType DEF AttemptFailed
<1>3. rtsp' \in Clients /\ leaked' \in BOOLEAN
  BY CloseClientType DEF AttemptFailed
<1>4. current' \in Requests \cup {Replied} /\ result' \in Results
  BY ReplyType DEF AttemptFailed, Results
<1>5. QED BY <1>2, <1>3, <1>4 DEF AttemptFailed

\* The client that asks for a subsession.
LEMMA SetupNextType ==
  ASSUME TypeOK,
         NEW sdp \in Seq(Media \cup {Unsupported}), NEW after \in Nat,
         NEW sinks \in SUBSET Nat, SetupNext(sdp, after, sinks)
  PROVE  rtsp' \in Clients /\ leaked' = leaked
<1>1. PICK i \in (after + 1)..Len(sdp) :
        rtsp' = [rtsp EXCEPT !.session = sdp, !.iter = i, !.sinks = sinks,
                             !.awaiting = "SETUP"]
  BY DEF SetupNext
<1>2. i \in Nat /\ rtsp \in Clients BY DEF TypeOK
<1>3. rtsp' \in Clients BY <1>1, <1>2 DEF Clients
<1>4. QED BY <1>3 DEF SetupNext

\* The session when every subsession was asked for.
LEMMA SetupDoneType ==
  ASSUME TypeOK, NEW n \in Nat, NEW sinks \in SUBSET Nat, NEW off,
         SetupDone(n, sinks, off)
  PROVE  /\ token' \in SUBSET Timers /\ alarms' \in [Timers -> Int]
         /\ rtsp' \in Clients /\ leaked' \in BOOLEAN
         /\ current' \in Requests \cup {Replied} /\ result' \in Results
         /\ tail' \in {"none", "sendFailed", "resetState"}
         /\ state' \in States
<1>1. CASE n = 0 /\ AttemptFailed(0, {}, off, FALSE)
  <2>1. 0 \in Nat /\ FALSE \in BOOLEAN OBVIOUS
  <2>2. QED BY <1>1, <2>1, AttemptFailedType DEF TypeOK, States
<1>2. CASE n # 0 /\ state # "Reconnecting" /\ SetupDone(n, sinks, off)
  <2>1. Retime({}, off, {}) /\ Reply("ok") BY <1>2 DEF SetupDone
  <2>2. {} \in SUBSET Timers /\ "ok" \in Results BY DEF Results
  <2>3. rtsp' \in Clients
    <3>1. rtsp' = [rtsp EXCEPT !.iter = 0, !.sinks = sinks, !.awaiting = "none"]
      BY <1>2 DEF SetupDone
    <3>2. QED BY <3>1 DEF TypeOK, Clients
  <2>4. QED
    BY <1>2, <2>1, <2>2, <2>3, RetimeType, ReplyType
    DEF SetupDone, TypeOK, States
<1>3. CASE n # 0 /\ state = "Reconnecting" /\ SetupDone(n, sinks, off)
  <2>1. Retime({}, off, {}) BY <1>3 DEF SetupDone
  <2>2. {} \in SUBSET Timers OBVIOUS
  <2>3. rtsp' \in Clients
    <3>1. rtsp' = [rtsp EXCEPT !.iter = 0, !.sinks = sinks, !.awaiting = "PLAY"]
      BY <1>3 DEF SetupDone, Play
    <3>2. QED BY <3>1 DEF TypeOK, Clients
  <2>4. QED
    BY <1>3, <2>1, <2>2, <2>3, RetimeType
    DEF SetupDone, Play, Send, TypeOK, States
<1>4. QED BY <1>1, <1>2, <1>3 DEF SetupDone

-----------------------------------------------------------------------------
(* Type correctness *)

\* Taking a request leaves a queue of requests.
LEMMA TakeType ==
  ASSUME TypeOK, NEW req \in Requests, Take(req)
  PROVE  queue' \in Seq(Requests)
BY DEF TypeOK, Take

\* Serving a request preserves the types.
LEMMA ServeRequestType == TypeOK /\ ServeRequest => TypeOK'
<1> SUFFICES ASSUME TypeOK, NEW req \in Requests,
                    \/ ServeOpen(req) \/ ServePlay(req)
                    \/ ServeReconnect(req) \/ ServeShutdown(req)
                    \/ ServeStopInInitial(req) \/ ServeDoneInInitial(req)
                    \/ Reject(req)
             PROVE  TypeOK'
  BY DEF ServeRequest
<1>1. CASE ServeOpen(req)
  <2>1. Take(req) /\ OpenUrl({}) BY <1>1 DEF ServeOpen
  <2>2. current' \in Requests \cup {Replied} /\ result' \in Results
    BY <1>1 DEF ServeOpen, Adopt, AdoptAndReply, TypeOK, Results
  <2>3. QED
    BY <1>1, <2>1, <2>2, TakeType, OpenUrlType DEF ServeOpen, TypeOK, States
<1>2. CASE ServePlay(req)
  <2>1. Take(req) BY <1>2 DEF ServePlay
  <2>2. current' \in Requests \cup {Replied} /\ result' \in Results
    BY <1>2 DEF ServePlay, Adopt, TypeOK, Results
  <2>3. rtsp' \in Clients
    <3>1. rtsp' = [rtsp EXCEPT !.iter = 0, !.sinks = rtsp.sinks,
                               !.awaiting = "PLAY"]
      BY <1>2 DEF ServePlay, Play
    <3>2. QED BY <3>1 DEF TypeOK, Clients
  <2>4. QED
    BY <1>2, <2>1, <2>2, <2>3, TakeType
    DEF ServePlay, Play, Send, TypeOK, States
<1>3. CASE ServeReconnect(req)
  <2> DEFINE off == IF state = "Playing" THEN Timers ELSE {}
  <2>1. Take(req) /\ OpenUrl(off) BY <1>3 DEF ServeReconnect
  <2>2. current' \in Requests \cup {Replied} /\ result' \in Results
    BY <1>3 DEF ServeReconnect, Adopt, AdoptAndReply, TypeOK, Results
  <2> HIDE DEF off
  <2>3. QED
    BY <1>3, <2>1, <2>2, TakeType, OpenUrlType
    DEF ServeReconnect, TypeOK, States
<1>4. CASE ServeShutdown(req)
  <2>1. Take(req) /\ Retime({}, Timers, {}) /\ CloseClient(rtsp.iter)
    BY <1>4 DEF ServeShutdown, UnscheduleAllDelayedTasks
  <2>2. {} \in SUBSET Timers /\ rtsp.iter \in Nat BY DEF TypeOK, Clients
  <2>3. current' \in Requests \cup {Replied} /\ result' \in Results
    BY <1>4 DEF ServeShutdown, AdoptAndReply, TypeOK, Results
  <2>4. QED
    BY <1>4, <2>1, <2>2, <2>3, TakeType, RetimeType, CloseClientType
    DEF ServeShutdown, TypeOK, States
<1>5. CASE ServeStopInInitial(req)
  <2>1. Take(req) /\ PushEos BY <1>5 DEF ServeStopInInitial
  <2>2. QED
    BY <1>5, <2>1, TakeType, PushEosType
    DEF ServeStopInInitial, ReplyTo, TypeOK, Results
<1>6. CASE ServeDoneInInitial(req)
  <2>1. Take(req) BY <1>6 DEF ServeDoneInInitial
  <2>2. QED
    BY <1>6, <2>1, TakeType DEF ServeDoneInInitial, ReplyTo, TypeOK, Results
<1>7. CASE Reject(req)
  <2>1. Take(req) BY <1>7 DEF Reject
  <2>2. QED BY <1>7, <2>1, TakeType DEF Reject, ReplyTo, TypeOK, Results
<1>8. QED BY <1>1, <1>2, <1>3, <1>4, <1>5, <1>6, <1>7

\* A socket handler preserves the types.
LEMMA HandleSocketType == TypeOK /\ HandleSocket => TypeOK'
<1> SUFFICES ASSUME TypeOK, HandleSocket PROVE TypeOK'
  OBVIOUS
<1>a. rtsp \in Clients BY DEF TypeOK
<1>b. {} \in SUBSET Timers /\ 0 \in Nat /\ {} \in SUBSET Nat OBVIOUS
<1>1. CASE NoSocketReady
  BY <1>1 DEF NoSocketReady, Selecting, TypeOK
<1>2. CASE DescribeFailed
  <2>1. PICK early \in BOOLEAN : AttemptFailed(0, {}, {"firstCall"}, early)
    BY <1>2 DEF DescribeFailed
  <2>2. wpc' \in {wpc, "alarm"}
    BY <1>2 DEF DescribeFailed, Failed, Answered, Selecting
  <2>3. QED
    BY <1>2, <1>b, <2>1, <2>2, AttemptFailedType
    DEF DescribeFailed, TypeOK, States
<1>3. ASSUME NEW sdp \in Sdps, Described(sdp) PROVE TypeOK'
  <2>1. sdp \in Seq(Media \cup {Unsupported}) BY SdpsAssumption
  <2>2. /\ wpc' = "alarm"
        /\ numSubsessions' \in Nat /\ received' \in BOOLEAN
        /\ UNCHANGED <<queue, news, pinVars, settings, callVars>>
    BY <1>3 DEF Described, Answered, Selecting
  <2>3. CASE SetupDone(0, {}, {"firstCall"})
    BY <1>b, <2>2, <2>3, SetupDoneType, ZenonT(60) DEF TypeOK
  <2>4. CASE /\ SetupNext(sdp, 0, {})
             /\ Retime({}, {"firstCall"}, {})
             /\ UNCHANGED <<state, tail, current, result>>
    <3>1. rtsp' \in Clients /\ leaked' = leaked
      BY <1>b, <2>1, <2>4, SetupNextType
    <3>2. token' \in SUBSET Timers /\ alarms' \in [Timers -> Int]
      BY <1>b, <2>4, RetimeType
    <3>3. UNCHANGED <<state, tail, current, result>> BY <2>4
    <3>4. QED BY <2>2, <3>1, <3>2, <3>3 DEF TypeOK
  <2>5. QED BY <1>3, <2>3, <2>4 DEF Described
<1>4. CASE SetupAnswered
  <2> DEFINE sinks == rtsp.sinks \cup {rtsp.iter}
             n == numSubsessions + 1
  <2>1. /\ wpc' = "alarm" /\ numSubsessions' = n
        /\ UNCHANGED <<queue, statVars, mediaQueue, settings, callVars>>
    BY <1>4 DEF SetupAnswered, Answered, Selecting
  <2>2. pin' \in [Media -> {"absent", "inactive", "streaming", "finished"}]
    BY <1>4 DEF SetupAnswered, TypeOK
  <2>3. /\ n \in Nat /\ sinks \in SUBSET Nat /\ rtsp.iter \in Nat
        /\ rtsp.session \in Seq(Media \cup {Unsupported})
    BY <1>a DEF TypeOK, Clients
  <2>4. \/ /\ SetupNext(rtsp.session, rtsp.iter, sinks)
           /\ UNCHANGED <<state, tail, timerVars, current, result>>
        \/ SetupDone(n, sinks, {})
    BY <1>4 DEF SetupAnswered
  <2> HIDE DEF sinks, n
  <2>5. CASE SetupDone(n, sinks, {})
    BY <2>1, <2>2, <2>3, <2>5, SetupDoneType, ZenonT(60) DEF TypeOK
  <2>6. CASE /\ SetupNext(rtsp.session, rtsp.iter, sinks)
             /\ UNCHANGED <<state, tail, timerVars, current, result>>
    <3>1. rtsp' \in Clients /\ leaked' = leaked
      BY <2>3, <2>6, SetupNextType
    <3>2. QED BY <2>1, <2>2, <2>3, <2>6, <3>1 DEF TypeOK
  <2>7. QED BY <2>4, <2>5, <2>6
<1>5. CASE SetupFailed
  <2>1. /\ wpc' = "alarm"
        /\ UNCHANGED <<numSubsessions, queue, statVars, pinVars, settings,
                        callVars>>
    BY <1>5 DEF SetupFailed, Answered, Selecting
  <2>2. /\ rtsp.sinks \in SUBSET Nat /\ rtsp.iter \in Nat
        /\ rtsp.session \in Seq(Media \cup {Unsupported})
    BY <1>a DEF Clients
  <2>3. CASE SetupDone(numSubsessions, rtsp.sinks, {})
    BY <2>1, <2>2, <2>3, SetupDoneType, ZenonT(60) DEF TypeOK
  <2>4. CASE /\ SetupNext(rtsp.session, rtsp.iter, rtsp.sinks)
             /\ UNCHANGED <<state, tail, timerVars, current, result>>
    <3>1. rtsp' \in Clients /\ leaked' = leaked
      BY <2>2, <2>4, SetupNextType
    <3>2. QED BY <2>1, <2>2, <2>4, <3>1 DEF TypeOK
  <2>5. QED BY <1>5, <2>3, <2>4 DEF SetupFailed
<1>6. ASSUME NEW vod \in BOOLEAN, PlayAnswered(vod) PROVE TypeOK'
  <2>1. wpc' = "alarm" /\ Reply("ok") /\ "ok" \in Results
    BY <1>6 DEF PlayAnswered, Answered, Selecting, Results
  <2>2. rtsp' \in Clients BY <1>6, <1>a DEF PlayAnswered, Clients
  <2>3. PICK on \in SUBSET Timers : Retime({}, {}, on)
    BY <1>6 DEF PlayAnswered, Timers
  <2>4. QED
    BY <1>6, <2>1, <2>2, <2>3, RetimeType, ReplyType DEF PlayAnswered, TypeOK
<1>7. CASE PlayFailed
  <2>1. Reply("fail") /\ CloseClient(rtsp.iter) /\ "fail" \in Results
    BY <1>7 DEF PlayFailed, Results
  <2>2. wpc' \in {wpc, "alarm"}
    BY <1>7 DEF PlayFailed, Failed, Answered, Selecting
  <2>3. PICK on \in SUBSET Timers : Retime({}, Timers, on)
    BY <1>7, <1>b DEF PlayFailed, UnscheduleAllDelayedTasks, Timers
  <2>4. rtsp.iter \in Nat BY <1>a DEF Clients
  <2>5. QED
    BY <1>7, <2>1, <2>2, <2>3, <2>4, ReplyType, CloseClientType, RetimeType
    DEF PlayFailed, TypeOK, States
<1>8. ASSUME NEW ok \in BOOLEAN, OptionsAnswered(ok) PROVE TypeOK'
  <2>1. wpc' = "alarm" BY <1>8 DEF OptionsAnswered, Answered, Selecting
  <2>2. rtsp' \in Clients BY <1>8, <1>a DEF OptionsAnswered, Clients
  <2>3. PICK on \in SUBSET Timers : Retime({}, {}, on)
    BY <1>8 DEF OptionsAnswered, Timers
  <2>4. QED BY <1>8, <2>1, <2>2, <2>3, RetimeType DEF OptionsAnswered, TypeOK
<1>9. ASSUME NEW i \in rtsp.sinks, Packet(i) PROVE TypeOK'
  <2>1. wpc' = "alarm" BY <1>9 DEF Packet, Selecting
  <2>2. mediaQueue' \in [Media -> Seq({"pkt", "eos"})]
    <3>1. CASE UNCHANGED mediaQueue BY <3>1 DEF TypeOK
    <3>2. ASSUME NEW m,
                 mediaQueue' = [mediaQueue EXCEPT ![m] = Append(@, "pkt")]
          PROVE  mediaQueue' \in [Media -> Seq({"pkt", "eos"})]
      <4>1. CASE m \in Media
        <5>1. mediaQueue[m] \in Seq({"pkt", "eos"}) BY <4>1 DEF TypeOK
        <5>2. Append(mediaQueue[m], "pkt") \in Seq({"pkt", "eos"}) BY <5>1
        <5>3. QED BY <3>2, <4>1, <5>2 DEF TypeOK
      <4>2. CASE m \notin Media BY <3>2, <4>2 DEF TypeOK
      <4>3. QED BY <4>1, <4>2
    <3>3. QED BY <1>9, <3>1, <3>2 DEF Packet
  <2>3. QED BY <1>9, <2>1, <2>2 DEF Packet, TypeOK
<1>10. ASSUME NEW i \in rtsp.sinks, HandleSubsessionFinished(i) PROVE TypeOK'
  <2>1. wpc' = "alarm" BY <1>10 DEF HandleSubsessionFinished, Selecting
  <2>2. CASE rtsp.sinks # {i}
    <3>1. rtsp' \in Clients
      BY <1>a, <1>10, <2>2 DEF HandleSubsessionFinished, Clients
    <3>2. QED BY <1>10, <2>1, <2>2, <3>1 DEF HandleSubsessionFinished, TypeOK
  <2>3. CASE rtsp.sinks = {i}
    <3>1. Retime({}, Timers, {}) /\ CloseClient(rtsp.iter)
      BY <1>10, <2>3
      DEF HandleSubsessionFinished, UnscheduleAllDelayedTasks
    <3>2. rtsp.iter \in Nat BY <1>a DEF Clients
    <3>3. QED
      BY <1>b, <1>10, <2>1, <2>3, <3>1, <3>2, RetimeType, CloseClientType
      DEF HandleSubsessionFinished, TypeOK, States
  <2>4. QED BY <2>2, <2>3
<1>11. QED
  BY <1>1, <1>2, <1>3, <1>4, <1>5, <1>6, <1>7, <1>8, <1>9, <1>10
  DEF HandleSocket

\* A timer task preserves the types.
LEMMA HandleAlarmType == TypeOK /\ HandleAlarm => TypeOK'
<1> SUFFICES ASSUME TypeOK, HandleAlarm PROVE TypeOK'
  OBVIOUS
<1>a. {} \in SUBSET Timers /\ {"gap"} \in SUBSET Timers
      /\ {"reconnect"} \in SUBSET Timers
  BY DEF Timers
<1>1. CASE NoAlarmDue
  BY <1>1 DEF NoAlarmDue, InAlarms, TypeOK
<1>2. CASE DescribeRequestTimeout
  <2>1. wpc' = "poll" BY <1>2 DEF DescribeRequestTimeout, Due, InAlarms
  <2>2. PICK early \in BOOLEAN :
          AttemptFailed(rtsp.iter, {"firstCall"}, {"reconnect"}, early)
    BY <1>2 DEF DescribeRequestTimeout
  <2>3. rtsp.iter \in Nat BY DEF TypeOK, Clients
  <2>4. QED
    BY <1>2, <2>1, <2>2, <2>3, AttemptFailedType
    DEF DescribeRequestTimeout, TypeOK, States
<1>3. CASE CheckInterPacketGaps
  <2>1. wpc' = "poll" /\ news' \in BOOLEAN
    BY <1>3 DEF CheckInterPacketGaps, Due, InAlarms
  <2>2. PICK off, on \in SUBSET Timers : Retime({"gap"}, off, on)
    BY <1>a, <1>3 DEF CheckInterPacketGaps, Timers
  <2>3. mediaQueue' \in [Media -> Seq({"pkt", "eos"})]
    <3>1. PushEos \/ UNCHANGED mediaQueue BY <1>3 DEF CheckInterPacketGaps
    <3>2. QED BY <3>1, PushEosType DEF TypeOK
  <2>4. token' \in SUBSET Timers /\ alarms' \in [Timers -> Int]
    BY <1>a, <2>2, RetimeType
  <2>5. QED BY <1>3, <2>1, <2>3, <2>4 DEF CheckInterPacketGaps, TypeOK
<1>4. CASE SendLivenessCommand
  <2>1. wpc' = "poll" BY <1>4 DEF SendLivenessCommand, Due, InAlarms
  <2>2. rtsp' \in Clients BY <1>4 DEF SendLivenessCommand, TypeOK, Clients
  <2>3. Retime({"liveness"}, {}, {}) BY <1>4 DEF SendLivenessCommand
  <2>4. QED
    BY <1>a, <1>4, <2>1, <2>2, <2>3, RetimeType
    DEF SendLivenessCommand, TypeOK
<1>5. ASSUME NEW t, NEW type \in {"Reconnect", "Stop"}, RequestItself(t, type)
      PROVE  TypeOK'
  <2>1. wpc' = "poll" BY <1>5 DEF RequestItself, Due, InAlarms
  <2>2. Request(type, "worker") \in Requests BY <1>5 DEF Request, Requests
  <2>3. queue' \in Seq(Requests) BY <1>5, <2>2 DEF RequestItself, TypeOK
  <2>4. Retime({t}, {}, {}) BY <1>5 DEF RequestItself
  <2>5. QED
    BY <1>a, <1>5, <2>1, <2>3, <2>4, RetimeType DEF RequestItself, TypeOK
<1>6. QED
  BY <1>1, <1>2, <1>3, <1>4, <1>5
  DEF HandleAlarm, Reconnect, HandleMediaEnded

\* The requests of the application are requests.
LEMMA RequestType ==
  \A type \in {"Open", "Play", "Stop", "Done"} : Request(type, "app") \in Requests
BY DEF Request, Requests

\* A step of the application's thread preserves the types.
LEMMA AppType == TypeOK /\ App => TypeOK'
<1> SUFFICES ASSUME TypeOK, App PROVE TypeOK'
  OBVIOUS
<1>1. CASE Load
  BY <1>1, RequestType DEF Load, Call, Push, TypeOK
<1>2. CASE LoadReturn
  BY <1>2 DEF LoadReturn, TypeOK, Results
<1>3. CASE Run
  <2>1. queue' \in Seq(Requests)
    <3>1. \/ queue' = Append(queue, Request("Open", "app"))
          \/ queue' = queue
      BY <1>3 DEF Run, Call, Push
    <3>2. Request("Open", "app") \in Requests BY RequestType
    <3>3. queue \in Seq(Requests) BY DEF TypeOK
    <3>4. QED BY <3>1, <3>2, <3>3
  <2>2. QED BY <1>3, <2>1 DEF Run, Call, TypeOK
<1>4. CASE RunOpened
  BY <1>4 DEF RunOpened, TypeOK, Results
<1>5. ASSUME ActivatePins
      PROVE  /\ mediaQueue' \in [Media -> Seq({"pkt", "eos"})]
             /\ pin' \in [Media -> {"absent", "inactive", "streaming", "finished"}]
  <2>1. CASE fstate = "Stopped"
    <3>1. mediaQueue' \in [Media -> Seq({"pkt", "eos"})]
      <4>1. mediaQueue' = [m \in Media |-> <<>>]
        BY <1>5, <2>1 DEF ActivatePins
      <4>2. <<>> \in Seq({"pkt", "eos"}) OBVIOUS
      <4>3. QED BY <4>1, <4>2
    <3>2. QED BY <1>5, <2>1, <3>1 DEF ActivatePins, TypeOK
  <2>2. CASE fstate # "Stopped" BY <1>5, <2>2 DEF ActivatePins, TypeOK
  <2>3. QED BY <2>1, <2>2
<1>6. CASE RunBase
  BY <1>5, <1>6 DEF RunBase, TypeOK
<1>7. CASE RunPlay
  BY <1>7, RequestType DEF RunPlay, Push, TypeOK
<1>8. CASE Pause
  BY <1>5, <1>8 DEF Pause, TypeOK
<1>9. CASE Stop
  BY <1>9, RequestType DEF Stop, Call, Push, TypeOK
<1>10. CASE StopReplied
  BY <1>10 DEF StopReplied, TypeOK, Results
<1>11. CASE StopBase
  BY <1>11 DEF StopBase, TypeOK
<1>12. CASE Destroy
  BY <1>12, RequestType DEF Destroy, Push, TypeOK
<1>13. CASE Joined
  BY <1>13 DEF Joined, TypeOK
<1>14. CASE SetAutoReconnectionPeriod \/ SetSendLivenessCommand
  <2>1. CASE SetAutoReconnectionPeriod
    BY <2>1 DEF SetAutoReconnectionPeriod, TypeOK
  <2>2. CASE SetSendLivenessCommand
    BY <2>2 DEF SetSendLivenessCommand, TypeOK
  <2>3. QED BY <1>14, <2>1, <2>2
<1>15. QED
  BY <1>1, <1>2, <1>3, <1>4, <1>6, <1>7, <1>8, <1>9, <1>10, <1>11, <1>12,
     <1>13, <1>14
  DEF App, Return

\* Every step preserves the types.
LEMMA NextType == TypeOK /\ [Next]_vars => TypeOK'
<1> SUFFICES ASSUME TypeOK, [Next]_vars PROVE TypeOK'
  OBVIOUS
<1>1. CASE ResetState
  BY <1>1 DEF ResetState, TypeOK, States
<1>2. CASE NotifyPins
  BY <1>2, PushEosType DEF NotifyPins, TypeOK
<1>3. CASE SingleStep
  BY <1>3 DEF SingleStep, TypeOK
<1>4. ASSUME NEW m \in Media, FillBuffer(m) PROVE TypeOK'
  <2>1. mediaQueue[m] \in Seq({"pkt", "eos"}) BY DEF TypeOK
  <2>2. Tail(mediaQueue[m]) \in Seq({"pkt", "eos"})
    BY <1>4, <2>1 DEF FillBuffer
  <2>3. mediaQueue' \in [Media -> Seq({"pkt", "eos"})]
    BY <1>4, <2>2 DEF FillBuffer, TypeOK
  <2>4. QED BY <1>4, <2>3 DEF FillBuffer, TypeOK
<1>5. CASE UNCHANGED vars
  BY <1>5 DEF vars, TypeOK
<1>6. QED
  BY <1>1, <1>2, <1>3, <1>4, <1>5, ServeRequestType, HandleSocketType,
     HandleAlarmType, AppType
  DEF Next, Worker

\* The initial state has the types.
LEMMA InitType == Init => TypeOK
<1> SUFFICES ASSUME Init PROVE TypeOK
  OBVIOUS
<1>1. autoReconnect \in BOOLEAN /\ sendLiveness \in BOOLEAN
  BY SettingsAssumption DEF Init
<1>2. rtsp \in Clients BY NoClientType DEF Init
<1>3. alarms \in [Timers -> Int] BY DEF Init
<1>4. /\ mediaQueue \in [Media -> Seq({"pkt", "eos"})]
      /\ queue \in Seq(Requests)
  BY DEF Init
<1>5. QED BY <1>1, <1>2, <1>3, <1>4 DEF Init, TypeOK, States, Results

\* Every variable always holds a value of its type: the states, requests and
\* client records that the worker, the handlers and the application assign in
\* RtspSource.cpp.
THEOREM TypeCorrect == Spec => []TypeOK
BY InitType, NextType, PTL DEF Spec

-----------------------------------------------------------------------------
(* What the helpers do to the tokens, the client and the current request *)

\* A timer that has fired or is unscheduled loses its token and its entry;
\* one that is scheduled gains both if it had none.
LEMMA RetimeTokens ==
  ASSUME TypeOK, TimerTokens,
         NEW fired \in SUBSET token, NEW off, NEW on,
         on \cap (token \ (fired \cup off)) = {},
         Retime(fired, off, on)
  PROVE  TimerTokens' /\ token' = (token \ (fired \cup off)) \cup on
BY DEF TypeOK, TimerTokens, Retime, Count

\* A timer whose alarm is due has its token.
LEMMA DueToken ==
  ASSUME TimerTokens, NEW t \in Timers, Due(t)
  PROVE  t \in token /\ wpc = "alarm" /\ tail = "none" /\ wpc' = "poll"
BY DEF TimerTokens, Due, InAlarms, Count

\* OpenUrl waits for DESCRIBE with its timer running, or has no client.
LEMMA OpenUrlEffect ==
  ASSUME TypeOK, TimerTokens, NEW off, token \ off = {}, OpenUrl(off)
  PROVE  /\ TimerTokens'
         /\ \/ /\ token' = {"firstCall"}
               /\ rtsp'.open /\ rtsp'.awaiting = "DESCRIBE"
               /\ rtsp'.session = <<>> /\ rtsp'.iter = 0 /\ rtsp'.sinks = {}
               /\ tail' \in {"none", "sendFailed"}
            \/ token' = {} /\ rtsp' = NoClient /\ tail' = "resetState"
<1>1. {"firstCall"} \cap (token \ ({} \cup off)) = {} /\ {} \in SUBSET token
  OBVIOUS
<1>2. CASE Retime({}, off, {"firstCall"})
           /\ rtsp' = [NoClient EXCEPT !.open = TRUE, !.awaiting = "DESCRIBE"]
           /\ Send
  <2>1. TimerTokens' /\ token' = {"firstCall"}
    BY <1>1, <1>2, RetimeTokens
  <2>2. QED BY <1>2, <2>1 DEF NoClient, Send
<1>3. CASE Retime({}, off, {}) /\ rtsp' = NoClient /\ tail' = "resetState"
  BY <1>1, <1>3, RetimeTokens
<1>4. QED BY <1>2, <1>3 DEF OpenUrl

\* A failed attempt closes the client and either schedules the next attempt or
\* returns, at once or in the tail of the handler, to Initial.
LEMMA AttemptFailedEffect ==
  ASSUME TypeOK, TimerTokens, NEW iter, NEW fired \in SUBSET token, NEW off,
         NEW early, token \ (fired \cup off) = {},
         AttemptFailed(iter, fired, off, early)
  PROVE  /\ TimerTokens' /\ rtsp' = NoClient /\ current' = Replied
         /\ \/ /\ state = "Reconnecting" /\ state' = state
               /\ token' = {"reconnect"} /\ tail' = "none"
            \/ /\ state # "Reconnecting" /\ token' = {}
               /\ \/ tail' = "none" /\ state' = "Initial"
                  \/ tail' = "resetState" /\ state' = state
<1>1. {"reconnect"} \cap (token \ (fired \cup off)) = {} OBVIOUS
<1>2. rtsp' = NoClient /\ current' = Replied
  BY DEF AttemptFailed, CloseClient, Reply
<1>3. CASE state = "Reconnecting"
  <2>1. Retime(fired, off, {"reconnect"}) /\ tail' = "none" /\ state' = state
    BY <1>3 DEF AttemptFailed
  <2>2. QED BY <1>1, <1>2, <1>3, <2>1, RetimeTokens
<1>4. CASE state # "Reconnecting"
  <2>1. /\ Retime(fired, off, {})
        /\ \/ tail' = "none" /\ state' = "Initial"
           \/ tail' = "resetState" /\ state' = state
    BY <1>4 DEF AttemptFailed
  <2>2. QED BY <1>1, <1>2, <1>4, <2>1, RetimeTokens
<1>5. QED BY <1>3, <1>4

\* The next SETUP keeps the description and stands at a supported subsession.
LEMMA SetupNextEffect ==
  ASSUME TypeOK,
         NEW sdp \in Seq(Media \cup {Unsupported}), NEW after \in Nat,
         NEW sinks, SetupNext(sdp, after, sinks)
  PROVE  /\ rtsp'.open = rtsp.open /\ rtsp'.awaiting = "SETUP"
         /\ rtsp'.session = sdp /\ rtsp'.sinks = sinks
         /\ rtsp'.iter \in DOMAIN sdp /\ rtsp'.iter > after
         /\ sdp[rtsp'.iter] \in Media
<1>1. PICK i \in (after + 1)..Len(sdp) :
        /\ sdp[i] \in Media
        /\ rtsp' = [rtsp EXCEPT !.session = sdp, !.iter = i, !.sinks = sinks,
                                !.awaiting = "SETUP"]
  BY DEF SetupNext
<1>2. i \in DOMAIN sdp /\ i > after OBVIOUS
<1>3. QED BY <1>1, <1>2 DEF TypeOK, Clients

\* After the last subsession the session is ready, or played again while
\* reconnecting, or none of its subsessions could be set up.
LEMMA SetupDoneEffect ==
  ASSUME TypeOK, TimerTokens, NEW n, NEW sinks, NEW off, token \ off = {},
         SetupDone(n, sinks, off)
  PROVE  /\ TimerTokens'
         /\ \/ /\ n = 0 /\ rtsp' = NoClient /\ current' = Replied
               /\ \/ /\ state = "Reconnecting" /\ state' = state
                     /\ token' = {"reconnect"} /\ tail' = "none"
                  \/ /\ state # "Reconnecting" /\ token' = {}
                     /\ \/ tail' = "none" /\ state' = "Initial"
                        \/ tail' = "resetState" /\ state' = state
            \/ /\ n # 0 /\ token' = {}
               /\ rtsp'.open = rtsp.open /\ rtsp'.session = rtsp.session
               /\ rtsp'.iter = 0 /\ rtsp'.sinks = sinks
               /\ \/ /\ state # "Reconnecting" /\ state' = "ReadyToPlay"
                     /\ rtsp'.awaiting = "none" /\ tail' = "none"
                     /\ current' = Replied
                  \/ /\ state = "Reconnecting" /\ state' = "Playing"
                     /\ rtsp'.awaiting = "PLAY"
                     /\ tail' \in {"none", "sendFailed"}
                     /\ UNCHANGED <<current, result>>
<1>1. {} \in SUBSET token /\ token \ ({} \cup off) = {} OBVIOUS
<1>2. CASE n = 0 /\ AttemptFailed(0, {}, off, FALSE)
  BY <1>1, <1>2, AttemptFailedEffect
<1>3. ASSUME n # 0, Retime({}, off, {}) PROVE TimerTokens' /\ token' = {}
  BY <1>1, <1>3, RetimeTokens
<1>4. CASE n # 0 /\ state # "Reconnecting" /\ SetupDone(n, sinks, off)
  <2>1. rtsp' = [rtsp EXCEPT !.iter = 0, !.sinks = sinks, !.awaiting = "none"]
    BY <1>4 DEF SetupDone
  <2>2. Retime({}, off, {}) /\ state' = "ReadyToPlay" /\ tail' = "none"
        /\ current' = Replied
    BY <1>4 DEF SetupDone, Reply
  <2>3. QED BY <1>3, <1>4, <2>1, <2>2 DEF TypeOK, Clients
<1>5. CASE n # 0 /\ state = "Reconnecting" /\ SetupDone(n, sinks, off)
  <2>1. rtsp' = [rtsp EXCEPT !.iter = 0, !.sinks = sinks, !.awaiting = "PLAY"]
    BY <1>5 DEF SetupDone, Play
  <2>2. Retime({}, off, {}) /\ state' = "Playing"
        /\ tail' \in {"none", "sendFailed"} /\ UNCHANGED <<current, result>>
    BY <1>5 DEF SetupDone, Play, Send
  <2>3. QED BY <1>3, <1>5, <2>1, <2>2 DEF TypeOK, Clients
<1>6. QED BY <1>2, <1>4, <1>5 DEF SetupDone

-----------------------------------------------------------------------------
(* Requests *)

\* The parts of the inductive invariant, beside the types, after a step.
Kept == TimerInv' /\ ClientInv' /\ TailInv' /\ QueueInv' /\ CallInv'

\* A sequence without elements is the empty one.
LEMMA EmptySeq ==
  ASSUME NEW S, NEW q \in Seq(S), Len(q) = 0
  PROVE  q = <<>>
OBVIOUS

\* What Take finds, and what it leaves in the queue.
LEMMA TakeEffect ==
  ASSUME TypeOK, NEW req \in Requests, Take(req)
  PROVE  /\ wpc = "poll" /\ tail = "none" /\ state # "SettingUp"
         /\ 1 \in DOMAIN queue /\ req = queue[1]
         /\ Len(queue') = Len(queue) - 1 /\ Len(queue') \in Nat
         /\ DOMAIN queue' = 1..Len(queue') /\ DOMAIN queue = 1..Len(queue)
         /\ \A k \in DOMAIN queue' :
              /\ k + 1 \in DOMAIN queue
              /\ queue'[k] = queue[k + 1]
<1>1. queue \in Seq(Requests) /\ queue # <<>> /\ queue' = Tail(queue)
  BY DEF TypeOK, Take
<1>2. Len(queue) \in Nat /\ Len(queue) > 0 /\ DOMAIN queue = 1..Len(queue)
  BY <1>1
<1>3. Len(queue') = Len(queue) - 1 /\ DOMAIN queue' = 1..Len(queue')
  BY <1>1, <1>2
<1>4. \A k \in DOMAIN queue' :
        k + 1 \in DOMAIN queue /\ queue'[k] = queue[k + 1]
  BY <1>1, <1>2, <1>3
<1>5. QED BY <1>1, <1>2, <1>3, <1>4 DEF Take, Idle

\* Behind a request of the worker there is no other, and behind an Open there
\* is none at all; the order of the rest is kept.
LEMMA TakeQueue ==
  ASSUME TypeOK, QueueInv, NEW req \in Requests, Take(req)
  PROVE  /\ OwnRequestFirst'
         /\ req.from = "worker" =>
              \A k \in DOMAIN queue' : queue'[k].from # "worker"
         /\ req.type = "Open" => queue' = <<>>
         /\ \A k \in DOMAIN queue' : queue'[k].type = "Open" =>
              k = Len(queue') /\ state = "Initial"
         /\ \A k \in DOMAIN queue' : queue'[k].from = "worker" =>
              state \in {"Initial", "Playing", "Reconnecting"}
         /\ Queued("Reconnect")' <=>
              Queued("Reconnect") /\ req.type # "Reconnect"
<1>1. OwnRequestFirst'
  BY TakeEffect DEF QueueInv, OwnRequestFirst
<1>2. ASSUME req.from = "worker", NEW k \in DOMAIN queue'
      PROVE  queue'[k].from # "worker"
  BY <1>2, TakeEffect DEF QueueInv, OwnRequestFirst, Requests
<1>3. ASSUME req.type = "Open" PROVE queue' = <<>>
  <2>1. Len(queue) = 1 BY <1>3, TakeEffect DEF QueueInv, OpenIsLast
  <2>2. Len(queue') = 0 BY <2>1, TakeEffect
  <2>3. QED BY <2>2, TakeType, EmptySeq
<1>4. ASSUME NEW k \in DOMAIN queue', queue'[k].type = "Open"
      PROVE  k = Len(queue') /\ state = "Initial"
  BY <1>4, TakeEffect DEF QueueInv, OpenIsLast
<1>5. ASSUME NEW k \in DOMAIN queue', queue'[k].from = "worker"
      PROVE  state \in {"Initial", "Playing", "Reconnecting"}
  BY <1>5, TakeEffect DEF QueueInv, OwnRequestTaken
<1>6. Queued("Reconnect")' <=> Queued("Reconnect") /\ req.type # "Reconnect"
  <2>1. ASSUME NEW k \in DOMAIN queue', queue'[k].type = "Reconnect"
        PROVE  Queued("Reconnect") /\ req.type # "Reconnect"
    <3>1. queue[k + 1] \in Requests BY TakeEffect DEF TypeOK
    <3>2. queue[k + 1].type = "Reconnect" BY <2>1, TakeEffect
    <3>3. queue[k + 1].from = "worker" BY <3>1, <3>2 DEF Requests
    <3>4. 1 < k + 1 /\ k + 1 \in DOMAIN queue BY TakeEffect
    <3>5. req.from = "app"
      BY <3>3, <3>4, TakeEffect DEF QueueInv, OwnRequestFirst
    <3>6. QED BY <3>2, <3>4, <3>5 DEF Queued, Requests
  <2>2. ASSUME NEW k \in DOMAIN queue, queue[k].type = "Reconnect",
               req.type # "Reconnect"
        PROVE  Queued("Reconnect")'
    <3>1. k # 1 /\ k \in 1..Len(queue) BY <2>2, TakeEffect
    <3>2. k - 1 \in DOMAIN queue' /\ (k - 1) + 1 = k
      BY <3>1, TakeEffect
    <3>3. queue'[k - 1] = queue[k] BY <3>2, TakeEffect
    <3>4. QED BY <2>2, <3>2, <3>3 DEF Queued
  <2>3. QED BY <2>1, <2>2 DEF Queued
<1>7. QED BY <1>1, <1>2, <1>3, <1>4, <1>5, <1>6

\* A call that waits has its request still in the queue, or served: taken over
\* as the current one, or replied to.
LEMMA TakeCall ==
  ASSUME TypeOK, CallInv, NEW req \in Requests, Take(req),
         app' = app, url' = url,
         NEW code \in {"ok", "fail"},
         \/ /\ current' = req /\ result' = result
            /\ Awaited(req) => req.type = "Open" /\ queue' = <<>>
         \/ /\ current' \in {current, Replied}
            /\ result' = IF Awaited(req) THEN code ELSE result,
         req.type = "Open" =>
           \/ state' = "Initial"
           \/ state' = "SettingUp" /\ current' = req
           \/ state' = "SettingUp" /\ tail' = "resetState",
         req.type = "Stop" => state' = "Initial",
         req.type \in {"Play", "Reconnect", "Done"} /\ state = "Initial" =>
           state' = "Initial"
  PROVE  CallInv'
<1>1. ~Awaited(current) BY TakeEffect DEF CallInv, OneCall
<1>2. ~Awaited(Replied) BY DEF Awaited, Replied, Request
<1>3. Awaited(req) => /\ Waiting(req.type)
                      /\ \A k \in DOMAIN queue' : ~Awaited(queue'[k])
  BY TakeEffect DEF CallInv, OneCall
<1>4. CallNotLost'
  <2>1. result' # "broken" BY DEF CallInv, CallNotLost
  <2>2. ASSUME NEW type \in {"Open", "Stop"},
               app = "stopWait" <=> type = "Stop",
               app \in {"loadWait", "runWait", "stopWait"}, result' = "none"
        PROVE  \/ \E k \in DOMAIN queue' : queue'[k] = Request(type, "app")
               \/ current' = Request(type, "app")
    <3>1. result = "none" BY <2>2, <1>3 DEF Waiting
    <3>2. Awaited(Request(type, "app")) BY <2>2 DEF Awaited, Request
    <3>3. PICK k \in DOMAIN queue : queue[k] = Request(type, "app")
      BY <1>1, <2>2, <3>1, <3>2 DEF CallInv, CallNotLost
    <3>4. CASE k = 1
      BY <2>2, <3>2, <3>3, <3>4, TakeEffect
    <3>5. CASE k # 1
      <4>1. k - 1 \in DOMAIN queue' /\ (k - 1) + 1 = k
        BY <3>5, TakeEffect
      <4>2. queue'[k - 1] = queue[k] BY <4>1, TakeEffect
      <4>3. QED BY <3>3, <4>1, <4>2
    <3>6. QED BY <3>4, <3>5
  <2>3. QED BY <2>1, <2>2 DEF CallNotLost
<1>5. OneCall'
  <2>1. ASSUME NEW k \in DOMAIN queue', Awaited(queue'[k])
        PROVE  /\ Waiting(queue[k].type)'
               /\ ~Awaited(current')
               /\ \A j \in DOMAIN queue' : Awaited(queue'[j]) => j = k
    <3>1. ~Awaited(req) BY <1>3, <2>1
    <3>2. Waiting(queue'[k].type)
      BY <2>1, TakeEffect DEF CallInv, OneCall
    <3>3. Waiting(queue[k].type)' BY <3>1, <3>2 DEF Waiting
    <3>4. ASSUME NEW j \in DOMAIN queue', Awaited(queue'[j]) PROVE j = k
      <4>1. j + 1 = k + 1
        BY <2>1, <3>4, TakeEffect DEF CallInv, OneCall
      <4>2. QED BY <4>1, TakeEffect
    <3>5. QED BY <1>1, <1>2, <3>1, <3>3, <3>4
  <2>2. ASSUME Awaited(current')
        PROVE  /\ current'.type = "Open" /\ Waiting("Open")'
               /\ queue' = <<>> /\ state' \in {"SettingUp", "Initial"}
    <3>1. current' = req /\ req.type = "Open" BY <1>1, <1>2, <2>2
    <3>2. QED BY <1>1, <1>2, <1>3, <2>2, <3>1 DEF Waiting
  <2>3. QED BY <2>1, <2>2 DEF OneCall
<1>6. CallStates'
  <2>1. result' # "none" => app \in {"loadWait", "runWait", "stopWait"}
    BY <1>3 DEF CallInv, CallStates, Waiting
  <2>2. app = "stopBase" \/ (app = "stopWait" /\ result' # "none") =>
          state' = "Initial"
    <3>1. CASE req.type = "Stop" BY <3>1
    <3>2. CASE req.type = "Open"
      <4>1. CASE Awaited(req)
        <5>1. app \in {"loadWait", "runWait"} BY <1>3, <3>2, <4>1 DEF Waiting
        <5>2. QED BY <5>1
      <4>2. QED BY <3>2, <4>1 DEF Awaited, Requests
    <3>3. CASE req.type \in {"Play", "Reconnect", "Done"}
      BY <3>3 DEF CallInv, CallStates, Awaited
    <3>4. QED BY <3>1, <3>2, <3>3 DEF Requests
  <2>3. ~url \/ (app = "loadWait" /\ result' = "fail") =>
          state' = "Initial" \/ (state' = "SettingUp" /\ tail' = "resetState")
    <3>1. CASE req.type = "Stop" BY <3>1
    <3>2. CASE req.type = "Open"
      <4>1. Awaited(req) BY <3>2 DEF Awaited, Requests
      <4>2. result = "none" /\ url
        BY <1>3, <3>2, <4>1 DEF Waiting, CallInv, CallStates
      <4>3. QED BY <1>1, <1>2, <3>2, <4>1, <4>2
    <3>3. CASE req.type \in {"Play", "Reconnect", "Done"}
      <4>1. ~Awaited(req) BY <3>3 DEF Awaited
      <4>2. result' = result BY <4>1
      <4>3. QED BY <3>3, <4>2, TakeEffect DEF CallInv, CallStates
    <3>4. QED BY <3>1, <3>2, <3>3 DEF Requests
  <2>4. QED BY <2>1, <2>2, <2>3 DEF CallInv, CallStates
<1>7. QED BY <1>4, <1>5, <1>6 DEF CallInv

\* Serving Open preserves the invariant.
LEMMA ServeOpenKeeps ==
  ASSUME IInv, NEW req \in Requests, ServeOpen(req)
  PROVE  Kept
<1>1. /\ Take(req) /\ req.type = "Open" /\ OpenUrl({})
      /\ state = "Initial" /\ state' = "SettingUp"
      /\ UNCHANGED <<numSubsessions, wpc, callVars>>
  BY DEF ServeOpen
<1>2. token = {} /\ token \ {} = {} BY <1>1 DEF IInv, ClientInv, SessionStates
<1>3. /\ TimerTokens'
      /\ \/ /\ token' = {"firstCall"}
            /\ rtsp'.open /\ rtsp'.awaiting = "DESCRIBE"
            /\ rtsp'.session = <<>> /\ rtsp'.iter = 0 /\ rtsp'.sinks = {}
            /\ tail' \in {"none", "sendFailed"}
         \/ token' = {} /\ rtsp' = NoClient /\ tail' = "resetState"
  BY <1>1, <1>2, OpenUrlEffect DEF IInv, TimerInv
<1>4. queue' = <<>> /\ wpc = "poll" /\ tail = "none"
  BY <1>1, TakeQueue, TakeEffect DEF IInv
<1>5. /\ Created => /\ current' = req
                    /\ result' = IF Awaited(current) THEN "broken" ELSE result
      /\ ~Created => /\ current' = Replied
                     /\ tail' = "resetState"
  BY <1>3 DEF ServeOpen, Adopt, AdoptAndReply, Created
<1>6. req # Replied BY DEF Requests, Replied, Request
<1>7. TimerInv' BY <1>1, <1>3 DEF TimerInv, NoClient
<1>8. ClientInv'
  BY <1>1, <1>3, <1>5, <1>6
  DEF ClientInv, AnswerStates, SessionStates, ReplyOwed, NoClient, Created
<1>9. TailInv' BY <1>1, <1>3, <1>5 DEF TailInv, Created, NoClient
<1>10. QueueInv'
  BY <1>1, <1>4
  DEF QueueInv, OwnRequestTaken, OwnRequestFirst, OpenIsLast, ReconnectGoesOn
<1>11. CallInv'
  <2>1. ~Awaited(current) BY <1>1, TakeEffect DEF IInv, CallInv, OneCall
  <2>2. \/ current' = req /\ result' = result
        \/ /\ current' = Replied
           /\ result' = IF Awaited(req) THEN "fail" ELSE result
    BY <1>5, <2>1 DEF ServeOpen, AdoptAndReply
  <2>3. QED BY <1>1, <1>4, <1>5, <2>2, TakeCall DEF IInv, Created
<1>12. QED BY <1>7, <1>8, <1>9, <1>10, <1>11 DEF Kept

\* Serving Play preserves the invariant.
LEMMA ServePlayKeeps ==
  ASSUME IInv, NEW req \in Requests, ServePlay(req)
  PROVE  Kept
<1>1. /\ Take(req) /\ req.type = "Play"
      /\ state = "ReadyToPlay" /\ state' = "Playing"
      /\ rtsp' = [rtsp EXCEPT !.iter = 0, !.sinks = rtsp.sinks,
                              !.awaiting = "PLAY"]
      /\ tail' \in {"none", "sendFailed"}
      /\ Adopt(req)
      /\ UNCHANGED <<numSubsessions, wpc, timerVars, callVars>>
  BY DEF ServePlay, Play, Send
<1>2. /\ rtsp'.open = rtsp.open /\ rtsp'.awaiting = "PLAY"
      /\ rtsp'.session = rtsp.session /\ rtsp'.iter = 0
      /\ rtsp'.sinks = rtsp.sinks
  BY <1>1 DEF IInv, TypeOK, Clients
<1>3. token = {}
  BY <1>1 DEF IInv, TypeOK, Timers, TimerInv, ClientInv
<1>4. TimerInv'
  BY <1>1, <1>2, <1>3 DEF IInv, TimerInv, TimerTokens
<1>5. ClientInv'
  <2>1. current' # Replied
    BY <1>1 DEF Adopt, Requests, Replied, Request
  <2>2. QED
    BY <1>1, <1>2, <2>1
    DEF IInv, ClientInv, AnswerStates, SessionStates, ReplyOwed, NoClient
<1>6. TailInv' BY <1>1 DEF TailInv
<1>7. QueueInv'
  BY <1>1, TakeEffect, TakeQueue
  DEF IInv, QueueInv, OwnRequestTaken, OpenIsLast, ReconnectGoesOn
<1>8. CallInv'
  <2>1. ~Awaited(current) BY <1>1, TakeEffect DEF IInv, CallInv, OneCall
  <2>2. ~Awaited(req) BY <1>1 DEF Awaited
  <2>3. current' = req /\ result' = result BY <1>1, <2>1 DEF Adopt
  <2>4. "ok" \in {"ok", "fail"} OBVIOUS
  <2>5. QED BY <1>1, <2>2, <2>3, <2>4, TakeCall DEF IInv
<1>9. QED BY <1>4, <1>5, <1>6, <1>7, <1>8 DEF Kept

\* Serving Reconnect preserves the invariant.
LEMMA ServeReconnectKeeps ==
  ASSUME IInv, NEW req \in Requests, ServeReconnect(req)
  PROVE  Kept
<1> DEFINE off == IF state = "Playing" THEN Timers ELSE {}
<1>1. /\ Take(req) /\ req.type = "Reconnect" /\ req.from = "worker"
      /\ state \in {"Playing", "Reconnecting"} /\ state' = "Reconnecting"
      /\ OpenUrl(off)
      /\ UNCHANGED <<numSubsessions, wpc, callVars>>
  BY DEF ServeReconnect, Requests
<1>2. token \ off = {}
  <2>1. CASE state = "Playing" BY <2>1 DEF IInv, TypeOK
  <2>2. CASE state = "Reconnecting"
    <3>1. Queued("Reconnect") /\ tail = "none"
      BY <1>1, TakeEffect DEF IInv, Queued
    <3>2. "reconnect" \notin token /\ ~rtsp.open
      BY <2>2, <3>1 DEF IInv, QueueInv, ReconnectGoesOn, Count
    <3>3. QED
      BY <2>2, <3>2 DEF IInv, TypeOK, Timers, TimerInv, ClientInv, NoClient
  <2>3. QED BY <1>1, <2>1, <2>2
<1> HIDE DEF off
<1>3. /\ TimerTokens'
      /\ \/ /\ token' = {"firstCall"}
            /\ rtsp'.open /\ rtsp'.awaiting = "DESCRIBE"
            /\ rtsp'.session = <<>> /\ rtsp'.iter = 0 /\ rtsp'.sinks = {}
            /\ tail' \in {"none", "sendFailed"}
         \/ token' = {} /\ rtsp' = NoClient /\ tail' = "resetState"
  BY <1>1, <1>2, OpenUrlEffect DEF IInv, TimerInv
<1>4. ~Awaited(req) /\ req # Replied /\ ~Awaited(current)
  BY <1>1, TakeEffect DEF Awaited, Replied, Request, IInv, CallInv, OneCall
<1>5. /\ Created => current' = req
      /\ ~Created => current' = Replied
      /\ result' = result
  BY <1>4 DEF ServeReconnect, Adopt, AdoptAndReply
<1>6. TimerInv' BY <1>1, <1>3 DEF TimerInv, NoClient
<1>7. ClientInv'
  BY <1>1, <1>3, <1>4, <1>5
  DEF ClientInv, AnswerStates, SessionStates, ReplyOwed, NoClient, Created
<1>8. TailInv' BY <1>1, <1>3, <1>5 DEF TailInv, Created, NoClient
<1>9. QueueInv'
  <2>1. ~Queued("Reconnect")' BY <1>1, TakeQueue DEF IInv
  <2>2. ReconnectGoesOn'
    BY <1>3, <2>1 DEF ReconnectGoesOn, Count
  <2>3. QED
    BY <1>1, <2>2, TakeEffect, TakeQueue
    DEF IInv, QueueInv, OwnRequestTaken, OpenIsLast
<1>10. CallInv'
  <2>1. "ok" \in {"ok", "fail"} OBVIOUS
  <2>2. QED BY <1>1, <1>4, <1>5, <2>1, TakeCall DEF IInv
<1>11. QED BY <1>6, <1>7, <1>8, <1>9, <1>10 DEF Kept

\* Shutting down closes the client and unschedules every timer.
LEMMA ServeShutdownKeeps ==
  ASSUME IInv, NEW req \in Requests, ServeShutdown(req)
  PROVE  Kept
<1>1. /\ Take(req) /\ req.type \in {"Stop", "Done"}
      /\ state' = "Initial" /\ tail' = "notifyPins"
      /\ rtsp' = NoClient /\ current' = Replied
      /\ wpc' \in {wpc, "exited"}
      /\ Retime({}, Timers, {})
      /\ UNCHANGED callVars
  BY DEF ServeShutdown, UnscheduleAllDelayedTasks, CloseClient, AdoptAndReply
<1>2. TimerTokens' /\ token' = {}
  <2>1. {} \in SUBSET token /\ {} \cap (token \ ({} \cup Timers)) = {}
    OBVIOUS
  <2>2. token \ ({} \cup Timers) = {} BY DEF IInv, TypeOK
  <2>3. QED BY <1>1, <2>1, <2>2, RetimeTokens DEF IInv, TimerInv
<1>3. TimerInv' BY <1>2 DEF TimerInv
<1>4. ClientInv'
  BY <1>1, <1>2
  DEF ClientInv, AnswerStates, SessionStates, ReplyOwed, NoClient
<1>5. TailInv' BY <1>1 DEF TailInv
<1>6. QueueInv'
  BY <1>1, TakeEffect, TakeQueue
  DEF IInv, QueueInv, OwnRequestTaken, OpenIsLast, ReconnectGoesOn
<1>7. CallInv'
  <2>1. ~Awaited(current) BY <1>1, TakeEffect DEF IInv, CallInv, OneCall
  <2>2. result' = IF Awaited(req) THEN "ok" ELSE result
    BY <2>1 DEF ServeShutdown, AdoptAndReply
  <2>3. "ok" \in {"ok", "fail"} OBVIOUS
  <2>4. QED BY <1>1, <2>2, <2>3, TakeCall DEF IInv
<1>8. QED BY <1>3, <1>4, <1>5, <1>6, <1>7 DEF Kept

\* A request that is replied to without a change of the session preserves the
\* invariant: Stop and Done in Initial, and a request in a wrong state.
LEMMA ServedAtOnceKeeps ==
  ASSUME IInv, NEW req \in Requests, Take(req), NEW code \in {"ok", "fail"},
         ReplyTo(req, code),
         req.type = "Open" => state # "Initial",
         req.type = "Stop" => state = "Initial",
         req.type = "Reconnect" => state # "Reconnecting",
         wpc' \in {wpc, "exited"},
         UNCHANGED <<sessionVars, tail, timerVars, callVars>>
  PROVE  Kept
<1>1. current' = current /\ result' = IF Awaited(req) THEN code ELSE result
  BY DEF ReplyTo
<1>2. req.type # "Open" BY TakeEffect DEF IInv, QueueInv, OpenIsLast
<1>3. TimerInv' BY DEF IInv, TimerInv, TimerTokens
<1>4. ClientInv'
  BY <1>1 DEF IInv, ClientInv, AnswerStates, SessionStates, ReplyOwed
<1>5. TailInv' BY <1>1 DEF IInv, TailInv
<1>6. QueueInv'
  <2>1. ReconnectGoesOn'
    <3>1. CASE req.type = "Reconnect" BY <3>1 DEF ReconnectGoesOn
    <3>2. CASE req.type # "Reconnect"
      <4>1. Queued("Reconnect")' <=> Queued("Reconnect")
        BY <3>2, TakeQueue DEF IInv
      <4>2. QED BY <4>1 DEF IInv, QueueInv, ReconnectGoesOn, Count
    <3>3. QED BY <3>1, <3>2
  <2>2. QED
    BY <2>1, TakeEffect, TakeQueue
    DEF IInv, QueueInv, OwnRequestTaken, OpenIsLast
<1>7. CallInv' BY <1>1, <1>2, TakeCall DEF IInv, Requests
<1>8. QED BY <1>3, <1>4, <1>5, <1>6, <1>7 DEF Kept

\* Serving a request preserves the invariant.
LEMMA ServeRequestKeeps ==
  ASSUME IInv, ServeRequest
  PROVE  Kept
<1>1. PICK req \in Requests :
        \/ ServeOpen(req) \/ ServePlay(req)
        \/ ServeReconnect(req) \/ ServeShutdown(req)
        \/ ServeStopInInitial(req) \/ ServeDoneInInitial(req)
        \/ Reject(req)
  BY DEF ServeRequest
<1>2. CASE ServeStopInInitial(req)
  BY <1>2, ServedAtOnceKeeps DEF ServeStopInInitial
<1>3. CASE ServeDoneInInitial(req)
  BY <1>3, ServedAtOnceKeeps DEF ServeDoneInInitial
<1>4. CASE Reject(req)
  BY <1>4, ServedAtOnceKeeps DEF Reject, WrongStates
<1>5. QED
  BY <1>1, <1>2, <1>3, <1>4, ServeOpenKeeps, ServePlayKeeps,
     ServeReconnectKeeps, ServeShutdownKeeps

-----------------------------------------------------------------------------
(* Socket handlers and timer tasks *)

\* The worker is in its scheduler, or in a handler whose send has failed.
InHandler ==
  (wpc \in {"select", "alarm"} /\ tail = "none") \/ tail = "sendFailed"

\* In a handler no request of the worker to itself is in the queue.
LEMMA NoOwnRequest ==
  ASSUME TypeOK, QueueInv, InHandler
  PROVE  /\ \A k \in DOMAIN queue : queue[k].from # "worker"
         /\ ~Queued("Reconnect")
<1>1. \A k \in DOMAIN queue : queue[k].from # "worker"
  BY DEF QueueInv, OwnRequestTaken, InHandler
<1>2. QED BY <1>1 DEF TypeOK, Queued, Requests

\* A handler that leaves the queue alone.
LEMMA HandlerQueue ==
  ASSUME TypeOK, QueueInv, InHandler, queue' = queue,
         state = "Initial" => state' = "Initial",
         state' = "Reconnecting" /\ tail' # "resetState" =>
           ("reconnect" \in token' <=> ~rtsp'.open)
  PROVE  QueueInv'
<1>1. OwnRequestTaken' BY NoOwnRequest DEF OwnRequestTaken
<1>2. OwnRequestFirst' BY DEF QueueInv, OwnRequestFirst
<1>3. OpenIsLast' BY DEF QueueInv, OpenIsLast, InHandler
<1>4. ReconnectGoesOn'
  <2>1. ~Queued("Reconnect")' BY NoOwnRequest DEF Queued
  <2>2. QED BY <2>1 DEF ReconnectGoesOn, Count
<1>5. QED BY <1>1, <1>2, <1>3, <1>4 DEF QueueInv

\* A handler that replies to no one.
LEMMA SilentHandlerCall ==
  ASSUME CallInv, InHandler, queue' = queue,
         UNCHANGED <<current, result, callVars>>,
         state = "Initial" => state' = "Initial",
         Awaited(current) => state' \in {"SettingUp", "Initial"}
  PROVE  CallInv'
<1>1. CallNotLost' BY DEF CallInv, CallNotLost
<1>2. OneCall' BY DEF CallInv, OneCall, Waiting
<1>3. CallStates' BY DEF CallInv, CallStates, InHandler
<1>4. QED BY <1>1, <1>2, <1>3 DEF CallInv

\* A handler that replies to the current request.
LEMMA ReplyingHandlerCall ==
  ASSUME CallInv, InHandler, queue' = queue, UNCHANGED callVars,
         NEW code \in {"ok", "fail"}, Reply(code),
         state = "Initial" => state' = "Initial",
         Awaited(current) /\ code = "fail" =>
           state' = "Initial" \/ (state' = "SettingUp" /\ tail' = "resetState")
  PROVE  CallInv'
<1>1. ~Awaited(current') BY DEF Reply, Awaited, Replied, Request
<1>2. CallNotLost'
  <2>1. CASE Awaited(current)
    BY <2>1 DEF Reply, CallInv, CallNotLost, OneCall, Waiting
  <2>2. CASE ~Awaited(current)
    <3>1. result' = result BY <2>2 DEF Reply
    <3>2. current # Request("Open", "app") /\ current # Request("Stop", "app")
      BY <2>2 DEF Awaited, Request
    <3>3. QED BY <3>1, <3>2 DEF CallInv, CallNotLost
  <2>3. QED BY <2>1, <2>2
<1>3. OneCall'
  <2>1. CASE Awaited(current)
    BY <1>1, <2>1 DEF CallInv, OneCall
  <2>2. CASE ~Awaited(current)
    <3>1. result' = result BY <2>2 DEF Reply
    <3>2. QED BY <1>1, <3>1 DEF CallInv, OneCall, Waiting
  <2>3. QED BY <2>1, <2>2
<1>4. CallStates'
  BY DEF Reply, CallInv, CallStates, OneCall, Waiting, InHandler
<1>5. QED BY <1>2, <1>3, <1>4 DEF CallInv

\* A handler that leaves the session, the timers and the queue alone.
LEMMA IdleHandlerKeeps ==
  ASSUME IInv, InHandler,
         UNCHANGED <<sessionVars, tail, queue, current, timerVars, callVars,
                     result>>
  PROVE  Kept
<1>1. TimerInv' BY DEF IInv, TimerInv, TimerTokens
<1>2. ClientInv'
  BY DEF IInv, ClientInv, AnswerStates, SessionStates, ReplyOwed
<1>3. TailInv' BY DEF IInv, TailInv
<1>4. QueueInv'
  <2>1. ~Queued("Reconnect") BY NoOwnRequest DEF IInv
  <2>2. state = "Reconnecting" /\ tail # "resetState" =>
          ("reconnect" \in token <=> ~rtsp.open)
    BY <2>1 DEF IInv, QueueInv, ReconnectGoesOn, Count
  <2>3. QED BY <2>2, HandlerQueue DEF IInv
<1>5. CallInv' BY SilentHandlerCall DEF IInv, CallInv, OneCall
<1>6. QED BY <1>1, <1>2, <1>3, <1>4, <1>5 DEF Kept

\* While a url is being opened only its timeout can be running.
LEMMA OpeningFacts ==
  ASSUME IInv, rtsp.awaiting \in {"DESCRIBE", "SETUP"}
  PROVE  /\ state \in {"SettingUp", "Reconnecting"} /\ rtsp.open
         /\ current # Replied
         /\ Awaited(current) => state = "SettingUp"
         /\ token \subseteq {"firstCall"}
         /\ rtsp.awaiting = "SETUP" => token = {}
<1>1. state \in {"SettingUp", "Reconnecting"} /\ current # Replied
  BY DEF IInv, ClientInv, AnswerStates, ReplyOwed
<1>2. rtsp.open BY DEF IInv, TypeOK, Clients, ClientInv, NoClient
<1>3. Awaited(current) => state = "SettingUp"
  BY <1>1 DEF IInv, CallInv, OneCall
<1>4. token \subseteq {"firstCall"} /\ (rtsp.awaiting = "SETUP" => token = {})
  <2>1. token \cap {"gap", "liveness", "session"} = {}
    BY <1>1 DEF IInv, TimerInv
  <2>2. "reconnect" \notin token BY <1>1, <1>2 DEF IInv, TimerInv, NoClient
  <2>3. rtsp.awaiting = "SETUP" => "firstCall" \notin token
    BY DEF IInv, TimerInv
  <2>4. token \subseteq Timers BY DEF IInv, TypeOK
  <2>5. QED BY <2>1, <2>2, <2>3, <2>4 DEF Timers
<1>5. QED BY <1>1, <1>2, <1>3, <1>4

\* An attempt that fails preserves the invariant.
LEMMA AttemptFailedKeeps ==
  ASSUME IInv, InHandler, rtsp.awaiting \in {"DESCRIBE", "SETUP"},
         NEW iter, NEW fired \in SUBSET token, NEW off, NEW early,
         AttemptFailed(iter, fired, off, early),
         token \ (fired \cup off) = {},
         queue' = queue, UNCHANGED callVars
  PROVE  Kept
<1>1. /\ TimerTokens' /\ rtsp' = NoClient /\ current' = Replied
      /\ \/ /\ state = "Reconnecting" /\ state' = state
            /\ token' = {"reconnect"} /\ tail' = "none"
         \/ /\ state # "Reconnecting" /\ token' = {}
            /\ \/ tail' = "none" /\ state' = "Initial"
               \/ tail' = "resetState" /\ state' = state
  BY AttemptFailedEffect DEF IInv, TimerInv
<1>2. TimerInv' BY <1>1 DEF TimerInv
<1>3. ClientInv'
  BY <1>1, OpeningFacts
  DEF ClientInv, AnswerStates, SessionStates, ReplyOwed, NoClient
<1>4. TailInv' BY <1>1, OpeningFacts DEF TailInv
<1>5. QueueInv'
  BY <1>1, OpeningFacts, HandlerQueue DEF IInv, NoClient
<1>6. CallInv'
  <2>1. Reply("fail") /\ "fail" \in {"ok", "fail"} BY DEF AttemptFailed
  <2>2. QED
    BY <1>1, <2>1, OpeningFacts, ReplyingHandlerCall DEF IInv
<1>7. QED BY <1>2, <1>3, <1>4, <1>5, <1>6 DEF Kept

\* Asking for the next subsession preserves the invariant.
LEMMA SetupNextKeeps ==
  ASSUME IInv, InHandler, rtsp.awaiting \in {"DESCRIBE", "SETUP"},
         NEW sdp \in Seq(Media \cup {Unsupported}), NEW after \in Nat,
         NEW sinks, SetupNext(sdp, after, sinks),
         sinks \subseteq DOMAIN sdp, \A i \in sinks : i <= after,
         numSubsessions' # 0 => sinks # {},
         TimerTokens', token' = {},
         UNCHANGED <<state, tail, queue, current, callVars, result>>
  PROVE  Kept
<1>1. /\ rtsp'.open = rtsp.open /\ rtsp'.awaiting = "SETUP"
      /\ rtsp'.session = sdp /\ rtsp'.sinks = sinks
      /\ rtsp'.iter \in DOMAIN sdp /\ rtsp'.iter > after
      /\ sdp[rtsp'.iter] \in Media
  BY SetupNextEffect DEF IInv
<1>2. \A i \in sinks : i < rtsp'.iter
  BY <1>1
<1>3. TimerInv' BY DEF TimerInv
<1>4. ClientInv'
  BY <1>1, <1>2, OpeningFacts
  DEF ClientInv, AnswerStates, SessionStates, ReplyOwed
<1>5. TailInv'
  BY OpeningFacts DEF TailInv, IInv, InHandler
<1>6. QueueInv'
  BY <1>1, OpeningFacts, HandlerQueue DEF IInv
<1>7. CallInv' BY OpeningFacts, SilentHandlerCall DEF IInv
<1>8. QED BY <1>3, <1>4, <1>5, <1>6, <1>7 DEF Kept

\* The end of the SETUPs preserves the invariant.
LEMMA SetupDoneKeeps ==
  ASSUME IInv, InHandler, rtsp.awaiting \in {"DESCRIBE", "SETUP"},
         NEW n, NEW sinks, NEW off, SetupDone(n, sinks, off),
         token \ off = {},
         n # 0 => sinks # {} /\ sinks \subseteq DOMAIN rtsp.session,
         queue' = queue, UNCHANGED callVars
  PROVE  Kept
<1>1. CASE n = 0
  <2>1. AttemptFailed(0, {}, off, FALSE) BY <1>1 DEF SetupDone
  <2>2. {} \in SUBSET token /\ token \ ({} \cup off) = {} OBVIOUS
  <2>3. QED BY <2>1, <2>2, AttemptFailedKeeps
<1>2. CASE n # 0
  <2>1. /\ TimerTokens' /\ token' = {}
        /\ rtsp'.open /\ rtsp'.session = rtsp.session
        /\ rtsp'.iter = 0 /\ rtsp'.sinks = sinks
        /\ \/ /\ state # "Reconnecting" /\ state' = "ReadyToPlay"
              /\ rtsp'.awaiting = "none" /\ tail' = "none"
              /\ current' = Replied
           \/ /\ state = "Reconnecting" /\ state' = "Playing"
              /\ rtsp'.awaiting = "PLAY"
              /\ tail' \in {"none", "sendFailed"}
              /\ UNCHANGED <<current, result>>
    BY <1>2, SetupDoneEffect, OpeningFacts DEF IInv, TimerInv
  <2>2. TimerInv' BY <2>1 DEF TimerInv
  <2>3. ClientInv'
    BY <1>2, <2>1, OpeningFacts
    DEF ClientInv, AnswerStates, SessionStates, ReplyOwed
  <2>4. TailInv' BY <2>1 DEF TailInv
  <2>5. QueueInv' BY <2>1, OpeningFacts, HandlerQueue DEF IInv
  <2>6. CallInv'
    <3>1. CASE state # "Reconnecting"
      <4>1. Reply("ok") /\ "ok" \in {"ok", "fail"}
        BY <1>2, <3>1 DEF SetupDone
      <4>2. QED BY <4>1, OpeningFacts, ReplyingHandlerCall DEF IInv
    <3>2. CASE state = "Reconnecting"
      BY <2>1, <3>2, OpeningFacts, SilentHandlerCall DEF IInv
    <3>3. QED BY <3>1, <3>2
  <2>7. QED BY <2>2, <2>3, <2>4, <2>5, <2>6 DEF Kept
<1>3. QED BY <1>1, <1>2


\* The answers to DESCRIBE and SETUP preserve the invariant.
LEMMA OpeningKeeps ==
  ASSUME IInv,
         \/ DescribeFailed \/ SetupAnswered \/ SetupFailed
         \/ \E sdp \in Sdps : Described(sdp)
  PROVE  Kept
<1>1. CASE DescribeFailed
  <2>1. rtsp.awaiting = "DESCRIBE" /\ InHandler
    BY <1>1 DEF DescribeFailed, Failed, Answered, Selecting, InHandler
  <2>2. PICK early : AttemptFailed(0, {}, {"firstCall"}, early)
    BY <1>1 DEF DescribeFailed
  <2>3. {} \in SUBSET token /\ token \ ({} \cup {"firstCall"}) = {}
    BY <2>1, OpeningFacts
  <2>4. queue' = queue /\ UNCHANGED callVars BY <1>1 DEF DescribeFailed
  <2>5. QED BY <2>1, <2>2, <2>3, <2>4, AttemptFailedKeeps
<1>2. ASSUME NEW sdp \in Sdps, Described(sdp) PROVE Kept
  <2>1. /\ rtsp.awaiting = "DESCRIBE" /\ InHandler /\ numSubsessions' = 0
        /\ queue' = queue /\ UNCHANGED callVars
    BY <1>2 DEF Described, Answered, Selecting, InHandler
  <2>2. token \ {"firstCall"} = {} BY <2>1, OpeningFacts
  <2>3. CASE SetupDone(0, {}, {"firstCall"})
    BY <2>1, <2>2, <2>3, SetupDoneKeeps
  <2>4. CASE /\ SetupNext(sdp, 0, {})
             /\ Retime({}, {"firstCall"}, {})
             /\ UNCHANGED <<state, tail, current, result>>
    <3>1. {} \in SUBSET token /\ token \ ({} \cup {"firstCall"}) = {}
      BY <2>2
    <3>2. TimerTokens' /\ token' = {}
      BY <2>4, <3>1, RetimeTokens DEF IInv, TimerInv
    <3>3. sdp \in Seq(Media \cup {Unsupported}) /\ 0 \in Nat
      BY SdpsAssumption
    <3>4. QED BY <2>1, <2>4, <3>2, <3>3, SetupNextKeeps
  <2>5. QED BY <1>2, <2>3, <2>4 DEF Described
<1>3. ASSUME rtsp.awaiting = "SETUP"
      PROVE  /\ token = {} /\ token \ {} = {}
             /\ rtsp.iter \in Nat /\ rtsp.iter \in DOMAIN rtsp.session
             /\ rtsp.session \in Seq(Media \cup {Unsupported})
             /\ rtsp.sinks \subseteq DOMAIN rtsp.session
             /\ \A i \in rtsp.sinks : i < rtsp.iter /\ i \in Nat
             /\ numSubsessions \in Nat
             /\ numSubsessions # 0 => rtsp.sinks # {}
  BY <1>3, OpeningFacts DEF IInv, TypeOK, Clients, ClientInv, AnswerStates
<1>4. ASSUME UNCHANGED timerVars PROVE TimerTokens' <=> TimerTokens
  BY <1>4 DEF TimerTokens
<1>5. CASE SetupAnswered
  <2> DEFINE sinks == rtsp.sinks \cup {rtsp.iter}
             n == numSubsessions + 1
  <2>1. /\ rtsp.awaiting = "SETUP" /\ InHandler /\ numSubsessions' = n
        /\ queue' = queue /\ UNCHANGED callVars
    BY <1>5 DEF SetupAnswered, Answered, Selecting, InHandler
  <2>2. /\ sinks # {} /\ sinks \subseteq DOMAIN rtsp.session
        /\ \A i \in sinks : i <= rtsp.iter
    BY <1>3, <2>1
  <2>3. \/ /\ SetupNext(rtsp.session, rtsp.iter, sinks)
           /\ UNCHANGED <<state, tail, timerVars, current, result>>
        \/ SetupDone(n, sinks, {})
    BY <1>5 DEF SetupAnswered
  <2> HIDE DEF sinks, n
  <2>4. CASE SetupDone(n, sinks, {})
    BY <1>3, <2>1, <2>2, <2>4, SetupDoneKeeps
  <2>5. CASE /\ SetupNext(rtsp.session, rtsp.iter, sinks)
             /\ UNCHANGED <<state, tail, timerVars, current, result>>
    <3>1. TimerTokens' /\ token' = {}
      BY <1>3, <1>4, <2>1, <2>5 DEF IInv, TimerInv
    <3>2. QED BY <1>3, <2>1, <2>2, <2>5, <3>1, SetupNextKeeps
  <2>6. QED BY <2>3, <2>4, <2>5
<1>6. CASE SetupFailed
  <2>1. /\ rtsp.awaiting = "SETUP" /\ InHandler
        /\ UNCHANGED numSubsessions
        /\ queue' = queue /\ UNCHANGED callVars
    BY <1>6 DEF SetupFailed, Answered, Selecting, InHandler
  <2>2. CASE SetupDone(numSubsessions, rtsp.sinks, {})
    BY <1>3, <2>1, <2>2, SetupDoneKeeps
  <2>3. CASE /\ SetupNext(rtsp.session, rtsp.iter, rtsp.sinks)
             /\ UNCHANGED <<state, tail, timerVars, current, result>>
    <3>1. TimerTokens' /\ token' = {}
      BY <1>3, <1>4, <2>1, <2>3 DEF IInv, TimerInv
    <3>2. \A i \in rtsp.sinks : i <= rtsp.iter BY <1>3, <2>1
    <3>3. QED BY <1>3, <2>1, <2>3, <3>1, <3>2, SetupNextKeeps
  <2>4. QED BY <1>6, <2>2, <2>3 DEF SetupFailed
<1>7. QED BY <1>1, <1>2, <1>5, <1>6


\* In a handler, reconnecting means: an attempt scheduled, or one under way.
LEMMA ReconnectingFacts ==
  ASSUME IInv, InHandler, tail # "resetState"
  PROVE  state = "Reconnecting" => ("reconnect" \in token <=> ~rtsp.open)
BY NoOwnRequest DEF IInv, QueueInv, ReconnectGoesOn, Count

\* While PLAY is awaited no timer is running.
LEMMA PlayFacts ==
  ASSUME IInv, rtsp.awaiting = "PLAY"
  PROVE  /\ state = "Playing" /\ token = {} /\ current # Replied
         /\ ~Awaited(current)
<1>1. state = "Playing" /\ current # Replied
  BY DEF IInv, ClientInv, AnswerStates, ReplyOwed
<1>2. token = {}
  BY <1>1 DEF IInv, TypeOK, Timers, TimerInv
<1>3. QED BY <1>1, <1>2 DEF IInv, CallInv, OneCall

\* The answers to PLAY and OPTIONS preserve the invariant.
LEMMA PlayingKeeps ==
  ASSUME IInv,
         \/ \E vod \in BOOLEAN : PlayAnswered(vod)
         \/ PlayFailed
         \/ \E ok \in BOOLEAN : OptionsAnswered(ok)
  PROVE  Kept
<1>1. ASSUME NEW vod \in BOOLEAN, PlayAnswered(vod) PROVE Kept
  <2>1. /\ rtsp.awaiting = "PLAY" /\ InHandler /\ tail = "none"
        /\ rtsp' = [rtsp EXCEPT !.awaiting = "none"]
        /\ Reply("ok")
        /\ UNCHANGED <<state, numSubsessions, tail, queue, callVars>>
    BY <1>1 DEF PlayAnswered, Answered, Selecting, InHandler
  <2>2. PICK on \in SUBSET {"gap", "liveness", "session"} : Retime({}, {}, on)
    BY <1>1 DEF PlayAnswered
  <2>3. /\ rtsp'.open = rtsp.open /\ rtsp'.awaiting = "none"
        /\ rtsp'.session = rtsp.session /\ rtsp'.iter = rtsp.iter
        /\ rtsp'.sinks = rtsp.sinks
    BY <2>1 DEF IInv, TypeOK, Clients
  <2>4. TimerTokens' /\ token' = on
    <3>1. {} \in SUBSET token /\ on \cap (token \ ({} \cup {})) = {}
      BY <2>1, PlayFacts
    <3>2. QED BY <2>1, <2>2, <3>1, PlayFacts, RetimeTokens DEF IInv, TimerInv
  <2>5. TimerInv' BY <2>1, <2>3, <2>4, PlayFacts DEF TimerInv
  <2>6. ClientInv'
    BY <2>1, <2>3, PlayFacts
    DEF IInv, ClientInv, AnswerStates, SessionStates, ReplyOwed, NoClient
  <2>7. TailInv' BY <2>1 DEF TailInv
  <2>8. QueueInv' BY <2>1, PlayFacts, HandlerQueue DEF IInv
  <2>9. "ok" \in {"ok", "fail"} OBVIOUS
  <2>10. CallInv' BY <2>1, <2>9, PlayFacts, ReplyingHandlerCall DEF IInv
  <2>11. QED BY <2>5, <2>6, <2>7, <2>8, <2>10 DEF Kept
<1>2. CASE PlayFailed
  <2>1. /\ rtsp.awaiting = "PLAY" /\ InHandler
        /\ rtsp' = NoClient /\ Reply("fail")
        /\ UNCHANGED <<numSubsessions, queue, callVars>>
    BY <1>2 DEF PlayFailed, Failed, Answered, Selecting, InHandler, CloseClient
  <2>2. ASSUME NEW on, Retime({}, Timers, on)
        PROVE  TimerTokens' /\ token' = on
    <3>1. {} \in SUBSET token /\ on \cap (token \ ({} \cup Timers)) = {}
          /\ token \ ({} \cup Timers) = {}
      BY <2>1, PlayFacts
    <3>2. QED BY <2>2, <3>1, RetimeTokens DEF IInv, TimerInv
  <2>3. /\ TimerTokens'
        /\ \/ /\ token' = {"reconnect"} /\ state' = "Reconnecting"
              /\ tail' = "none"
           \/ /\ token' = {} /\ state' = "Initial" /\ tail' = "notifyPins"
    BY <1>2, <2>2 DEF PlayFailed, UnscheduleAllDelayedTasks
  <2>4. current' = Replied BY <2>1 DEF Reply
  <2>5. TimerInv' BY <2>1, <2>3 DEF TimerInv
  <2>6. ClientInv'
    BY <2>1, <2>3, <2>4
    DEF ClientInv, AnswerStates, SessionStates, ReplyOwed, NoClient
  <2>7. TailInv' BY <2>3 DEF TailInv
  <2>8. QueueInv' BY <2>1, <2>3, PlayFacts, HandlerQueue DEF IInv, NoClient
  <2>9. "fail" \in {"ok", "fail"} OBVIOUS
  <2>10. CallInv' BY <2>1, <2>9, PlayFacts, ReplyingHandlerCall DEF IInv
  <2>11. QED BY <2>5, <2>6, <2>7, <2>8, <2>10 DEF Kept
<1>3. ASSUME NEW ok \in BOOLEAN, OptionsAnswered(ok) PROVE Kept
  <2>1. /\ rtsp.awaiting = "OPTIONS" /\ InHandler /\ tail = "none"
        /\ rtsp' = [rtsp EXCEPT !.awaiting = "none"]
        /\ UNCHANGED <<state, numSubsessions, tail, queue, current, callVars,
                       result>>
    BY <1>3 DEF OptionsAnswered, Answered, Selecting, InHandler
  <2>2. PICK on \in SUBSET {"liveness"} : Retime({}, {}, on)
    BY <1>3 DEF OptionsAnswered
  <2>3. /\ rtsp'.open = rtsp.open /\ rtsp'.awaiting = "none"
        /\ rtsp'.session = rtsp.session /\ rtsp'.iter = rtsp.iter
        /\ rtsp'.sinks = rtsp.sinks
    BY <2>1 DEF IInv, TypeOK, Clients
  <2>4. state = "Playing" /\ "liveness" \notin token /\ "firstCall" \notin token
    BY <2>1 DEF IInv, ClientInv, AnswerStates, TimerInv
  <2>5. TimerTokens' /\ token' = token \cup on
    <3>1. {} \in SUBSET token /\ on \cap (token \ ({} \cup {})) = {}
      BY <2>4
    <3>2. QED BY <2>2, <3>1, RetimeTokens DEF IInv, TimerInv
  <2>6. TimerInv' BY <2>1, <2>3, <2>4, <2>5 DEF IInv, TimerInv
  <2>7. ClientInv'
    BY <2>1, <2>3, <2>4
    DEF IInv, ClientInv, AnswerStates, SessionStates, ReplyOwed, NoClient
  <2>8. TailInv' BY <2>1 DEF TailInv
  <2>9. QueueInv' BY <2>1, <2>4, HandlerQueue DEF IInv
  <2>10. Awaited(current) => state \in {"SettingUp", "Initial"}
    BY DEF IInv, CallInv, OneCall
  <2>11. CallInv' BY <2>1, <2>10, SilentHandlerCall DEF IInv
  <2>12. QED BY <2>6, <2>7, <2>8, <2>9, <2>11 DEF Kept
<1>4. QED BY <1>1, <1>2, <1>3

\* The end of a subsession preserves the invariant.
LEMMA SubsessionFinishedKeeps ==
  ASSUME IInv, NEW i \in rtsp.sinks, HandleSubsessionFinished(i)
  PROVE  Kept
<1>1. /\ InHandler /\ tail = "none"
      /\ UNCHANGED <<numSubsessions, queue, current, callVars, result>>
  BY DEF HandleSubsessionFinished, Selecting, InHandler
<1>2. Awaited(current) => state \in {"SettingUp", "Initial"}
  BY DEF IInv, CallInv, OneCall
<1>3. CASE rtsp.sinks # {i}
  <2>1. /\ rtsp' = [rtsp EXCEPT !.sinks = @ \ {i}]
        /\ UNCHANGED <<state, tail, timerVars>>
    BY <1>3 DEF HandleSubsessionFinished
  <2>2. /\ rtsp'.open = rtsp.open /\ rtsp'.awaiting = rtsp.awaiting
        /\ rtsp'.session = rtsp.session /\ rtsp'.iter = rtsp.iter
        /\ rtsp'.sinks = rtsp.sinks \ {i} /\ rtsp'.sinks # {}
    BY <1>3, <2>1 DEF IInv, TypeOK, Clients
  <2>3. rtsp # NoClient /\ rtsp.open BY DEF NoClient, IInv, ClientInv
  <2>4. TimerInv'
    BY <2>1, <2>2, <2>3 DEF IInv, TimerInv, TimerTokens
  <2>5. ClientInv'
    BY <1>1, <2>1, <2>2, <2>3
    DEF IInv, ClientInv, AnswerStates, SessionStates, ReplyOwed
  <2>6. TailInv' BY <1>1, <2>1 DEF TailInv
  <2>7. QueueInv'
    BY <1>1, <2>1, <2>2, ReconnectingFacts, HandlerQueue DEF IInv
  <2>8. CallInv' BY <1>1, <1>2, <2>1, SilentHandlerCall DEF IInv
  <2>9. QED BY <2>4, <2>5, <2>6, <2>7, <2>8 DEF Kept
<1>4. CASE rtsp.sinks = {i}
  <2>1. /\ Retime({}, Timers, {}) /\ rtsp' = NoClient
        /\ state' = "Initial" /\ tail' = "notifyPins"
    BY <1>4
    DEF HandleSubsessionFinished, UnscheduleAllDelayedTasks, CloseClient
  <2>2. TimerTokens' /\ token' = {}
    <3>1. {} \in SUBSET token /\ {} \cap (token \ ({} \cup Timers)) = {}
          /\ token \ ({} \cup Timers) = {}
      BY DEF IInv, TypeOK
    <3>2. QED BY <2>1, <3>1, RetimeTokens DEF IInv, TimerInv
  <2>3. TimerInv' BY <2>2 DEF TimerInv
  <2>4. ClientInv'
    BY <2>1, <2>2
    DEF ClientInv, AnswerStates, SessionStates, ReplyOwed, NoClient
  <2>5. TailInv' BY <2>1 DEF TailInv
  <2>6. QueueInv' BY <1>1, <2>1, HandlerQueue DEF IInv
  <2>7. CallInv' BY <1>1, <2>1, SilentHandlerCall DEF IInv
  <2>8. QED BY <2>3, <2>4, <2>5, <2>6, <2>7 DEF Kept
<1>5. QED BY <1>3, <1>4

\* Every socket handler preserves the invariant.
LEMMA HandleSocketKeeps ==
  ASSUME IInv, HandleSocket
  PROVE  Kept
<1>1. CASE NoSocketReady
  BY <1>1, IdleHandlerKeeps DEF NoSocketReady, Selecting, InHandler
<1>2. ASSUME NEW i \in rtsp.sinks, Packet(i) PROVE Kept
  BY <1>2, IdleHandlerKeeps DEF Packet, Selecting, InHandler
<1>3. QED
  BY <1>1, <1>2, OpeningKeeps, PlayingKeeps, SubsessionFinishedKeeps
  DEF HandleSocket


\* A request is queued behind all the others.
LEMMA AppendEffect ==
  ASSUME TypeOK, NEW req \in Requests, queue' = Append(queue, req)
  PROVE  /\ Len(queue) \in Nat /\ Len(queue') = Len(queue) + 1
         /\ DOMAIN queue = 1..Len(queue) /\ DOMAIN queue' = 1..Len(queue')
         /\ queue'[Len(queue')] = req
         /\ \A k \in DOMAIN queue : k \in DOMAIN queue' /\ queue'[k] = queue[k]
         /\ \A k \in DOMAIN queue' : k \in DOMAIN queue \/ k = Len(queue')
<1>1. queue \in Seq(Requests) BY DEF TypeOK
<1>2. Len(queue) \in Nat /\ DOMAIN queue = 1..Len(queue) BY <1>1
<1>3. Len(queue') = Len(queue) + 1 /\ DOMAIN queue' = 1..Len(queue')
  BY <1>1, <1>2
<1>4. /\ queue'[Len(queue')] = req
      /\ \A k \in DOMAIN queue : queue'[k] = queue[k]
  BY <1>1, <1>2, <1>3
<1>5. QED BY <1>2, <1>3, <1>4

\* A request that a timer task makes of the worker preserves the invariant.
LEMMA RequestItselfKeeps ==
  ASSUME IInv, NEW t \in Timers, NEW type \in {"Reconnect", "Stop"},
         <<t, type>> \in {<<"reconnect", "Reconnect">>, <<"session", "Stop">>},
         RequestItself(t, type)
  PROVE  Kept
<1> DEFINE req == Request(type, "worker")
<1>1. /\ Due(t) /\ Retime({t}, {}, {}) /\ queue' = Append(queue, req)
      /\ UNCHANGED <<sessionVars, tail, current, callVars, result>>
  BY DEF RequestItself
<1>2. /\ req \in Requests /\ req.type = type /\ req.from = "worker"
      /\ ~Awaited(req)
  BY DEF Request, Requests, Awaited
<1>3. /\ t \in token /\ wpc = "alarm" /\ tail = "none" /\ wpc' = "poll"
      /\ InHandler
  BY <1>1, DueToken DEF IInv, TimerInv, InHandler
<1>4. TimerTokens' /\ token' = token \ {t}
  <2>1. {t} \in SUBSET token /\ {} \cap (token \ ({t} \cup {})) = {}
    BY <1>3
  <2>2. TimerTokens' /\ token' = (token \ ({t} \cup {})) \cup {}
    BY <1>1, <2>1, RetimeTokens, ZenonT(60) DEF IInv, TimerInv
  <2>3. QED BY <2>2
<1>5. /\ t = "reconnect" =>
           state = "Playing" \/ (state = "Reconnecting" /\ rtsp = NoClient)
      /\ t = "session" => state = "Playing"
  BY <1>3 DEF IInv, TimerInv
<1>6. state \in {"Playing", "Reconnecting"} /\ ~Awaited(current)
  BY <1>5 DEF IInv, CallInv, OneCall
<1>7. TimerInv' BY <1>1, <1>4 DEF IInv, TimerInv
<1>8. ClientInv'
  BY <1>1, <1>4
  DEF IInv, ClientInv, AnswerStates, SessionStates, ReplyOwed
<1>9. TailInv' BY <1>1, <1>3 DEF TailInv
<1>10. QueueInv'
  <2>1. /\ \A k \in DOMAIN queue : queue[k].from # "worker"
        /\ ~Queued("Reconnect")
    BY <1>3, NoOwnRequest DEF IInv
  <2>2. \A k \in DOMAIN queue : queue[k].type # "Open"
    BY <1>3, <1>6 DEF IInv, QueueInv, OpenIsLast
  <2>3. OwnRequestTaken' BY <1>1, <1>3, <1>6 DEF OwnRequestTaken
  <2>4. OwnRequestFirst'
    BY <1>1, <1>2, <2>1, <2>2, AppendEffect
    DEF IInv, TypeOK, Requests, OwnRequestFirst
  <2>5. OpenIsLast'
    BY <1>1, <1>2, <2>2, AppendEffect DEF IInv, OpenIsLast
  <2>6. ReconnectGoesOn'
    <3>1. CASE t = "reconnect"
      <4>1. Queued("Reconnect")'
        BY <1>1, <1>2, <3>1, AppendEffect DEF IInv, Queued
      <4>2. "reconnect" \notin token' /\ (state = "Reconnecting" => ~rtsp.open)
        BY <1>4, <1>5, <3>1 DEF NoClient
      <4>3. QED BY <1>1, <4>1, <4>2 DEF ReconnectGoesOn, Count
    <3>2. CASE t = "session" BY <1>1, <1>5, <3>2 DEF ReconnectGoesOn
    <3>3. QED BY <3>1, <3>2
  <2>7. QED BY <2>3, <2>4, <2>5, <2>6 DEF QueueInv
<1>11. CallInv'
  <2>1. CallNotLost'
    BY <1>1, <1>2, AppendEffect DEF IInv, CallInv, CallNotLost
  <2>2. OneCall'
    BY <1>1, <1>2, <1>6, AppendEffect DEF IInv, CallInv, OneCall, Waiting
  <2>3. CallStates' BY <1>1 DEF IInv, CallInv, CallStates
  <2>4. QED BY <2>1, <2>2, <2>3 DEF CallInv
<1>12. QED BY <1>7, <1>8, <1>9, <1>10, <1>11 DEF Kept

\* The tasks that time a playing session preserve the invariant.
LEMMA PlayingTaskKeeps ==
  ASSUME IInv, CheckInterPacketGaps \/ SendLivenessCommand
  PROVE  Kept
<1>1. Awaited(current) => state \in {"SettingUp", "Initial"}
  BY DEF IInv, CallInv, OneCall
<1>2. CASE CheckInterPacketGaps
  <2>1. /\ Due("gap") /\ "gap" \in Timers
        /\ UNCHANGED <<sessionVars, tail, queue, current, callVars, result>>
    BY <1>2 DEF CheckInterPacketGaps, Timers
  <2>2. "gap" \in token /\ tail = "none" /\ InHandler
    BY <2>1, DueToken DEF IInv, TimerInv, InHandler
  <2>3. /\ state = "Playing" /\ rtsp.awaiting # "PLAY"
        /\ "reconnect" \notin token
    BY <2>2 DEF IInv, TimerInv
  <2>4. PICK off, on : /\ Retime({"gap"}, off, on)
                       /\ on \in {{}, {"gap"}, {"reconnect"}}
    BY <1>2 DEF CheckInterPacketGaps
  <2>5. TimerTokens' /\ token' = (token \ ({"gap"} \cup off)) \cup on
    <3>1. {"gap"} \in SUBSET token
          /\ on \cap (token \ ({"gap"} \cup off)) = {}
      BY <2>2, <2>3, <2>4
    <3>2. QED BY <2>4, <3>1, RetimeTokens DEF IInv, TimerInv
  <2>6. TimerInv' BY <2>1, <2>3, <2>4, <2>5 DEF IInv, TimerInv
  <2>7. ClientInv'
    BY <2>1, <2>3
    DEF IInv, ClientInv, AnswerStates, SessionStates, ReplyOwed
  <2>8. TailInv' BY <2>1, <2>2 DEF TailInv
  <2>9. QueueInv' BY <2>1, <2>2, <2>3, HandlerQueue DEF IInv
  <2>10. CallInv' BY <1>1, <2>1, <2>2, SilentHandlerCall DEF IInv
  <2>11. QED BY <2>6, <2>7, <2>8, <2>9, <2>10 DEF Kept
<1>3. CASE SendLivenessCommand
  <2>1. /\ Due("liveness") /\ "liveness" \in Timers
        /\ Retime({"liveness"}, {}, {})
        /\ \/ rtsp' = [rtsp EXCEPT !.awaiting = "OPTIONS"]
           \/ rtsp' = rtsp
        /\ UNCHANGED <<state, numSubsessions, tail, queue, current, callVars,
                       result>>
    BY <1>3 DEF SendLivenessCommand, Timers
  <2>2. "liveness" \in token /\ tail = "none" /\ InHandler
    BY <2>1, DueToken DEF IInv, TimerInv, InHandler
  <2>3. state = "Playing" /\ rtsp.awaiting \notin {"PLAY", "DESCRIBE", "SETUP"}
        /\ rtsp.open
    BY <2>2
    DEF IInv, TimerInv, ClientInv, AnswerStates, SessionStates
  <2>4. /\ rtsp'.open = rtsp.open
        /\ rtsp'.awaiting \in {rtsp.awaiting, "OPTIONS"}
        /\ rtsp'.session = rtsp.session /\ rtsp'.iter = rtsp.iter
        /\ rtsp'.sinks = rtsp.sinks
    BY <2>1 DEF IInv, TypeOK, Clients
  <2>5. TimerTokens' /\ token' = token \ {"liveness"}
    <3>1. {"liveness"} \in SUBSET token
          /\ {} \cap (token \ ({"liveness"} \cup {})) = {}
      BY <2>2
    <3>2. QED BY <2>1, <3>1, RetimeTokens DEF IInv, TimerInv
  <2>6. TimerInv' BY <2>1, <2>3, <2>4, <2>5 DEF IInv, TimerInv
  <2>7. ClientInv'
    BY <2>1, <2>3, <2>4
    DEF IInv, ClientInv, AnswerStates, SessionStates, ReplyOwed, NoClient
  <2>8. TailInv' BY <2>1, <2>2 DEF TailInv
  <2>9. QueueInv' BY <2>1, <2>2, <2>3, HandlerQueue DEF IInv
  <2>10. CallInv' BY <1>1, <2>1, <2>2, SilentHandlerCall DEF IInv
  <2>11. QED BY <2>6, <2>7, <2>8, <2>9, <2>10 DEF Kept
<1>4. QED BY <1>2, <1>3

\* Every timer task preserves the invariant.
LEMMA HandleAlarmKeeps ==
  ASSUME IInv, HandleAlarm
  PROVE  Kept
<1>1. CASE NoAlarmDue
  BY <1>1, IdleHandlerKeeps DEF NoAlarmDue, InAlarms, InHandler
<1>2. CASE DescribeRequestTimeout
  <2>1. /\ Due("firstCall") /\ "firstCall" \in Timers
        /\ AttemptFailed(rtsp.iter, {"firstCall"}, {"reconnect"}, FALSE)
        /\ queue' = queue /\ UNCHANGED callVars
    BY <1>2 DEF DescribeRequestTimeout, Timers
  <2>2. "firstCall" \in token /\ InHandler
    BY <2>1, DueToken DEF IInv, TimerInv, InHandler
  <2>3. rtsp.awaiting = "DESCRIBE" BY <2>2 DEF IInv, TimerInv
  <2>4. {"firstCall"} \in SUBSET token
        /\ token \ ({"firstCall"} \cup {"reconnect"}) = {}
    BY <2>2, <2>3, OpeningFacts
  <2>5. QED BY <2>1, <2>2, <2>3, <2>4, AttemptFailedKeeps
<1>3. CASE Reconnect
  BY <1>3, RequestItselfKeeps DEF Reconnect, Timers
<1>4. CASE HandleMediaEnded
  BY <1>4, RequestItselfKeeps DEF HandleMediaEnded, Timers
<1>5. QED
  BY <1>1, <1>2, <1>3, <1>4, PlayingTaskKeeps DEF HandleAlarm


-----------------------------------------------------------------------------
(* The application's thread, and the rest *)

\* A step that the worker does not see: the queue and the call are left.
LEMMA UnseenKeeps ==
  ASSUME IInv, UNCHANGED unseenByApp, QueueInv', CallInv'
  PROVE  Kept
<1>1. TimerInv' BY DEF IInv, TimerInv, TimerTokens
<1>2. ClientInv'
  BY DEF IInv, ClientInv, AnswerStates, SessionStates, ReplyOwed
<1>3. TailInv' BY DEF IInv, TailInv
<1>4. QED BY <1>1, <1>2, <1>3 DEF Kept

\* The queue is left alone as well.
LEMMA SameQueue ==
  ASSUME IInv, UNCHANGED unseenByApp, queue' = queue
  PROVE  QueueInv'
<1>1. Queued("Reconnect")' <=> Queued("Reconnect") BY DEF Queued
<1>2. OwnRequestTaken' /\ OwnRequestFirst' /\ OpenIsLast'
  BY DEF IInv, QueueInv, OwnRequestTaken, OwnRequestFirst, OpenIsLast
<1>3. ReconnectGoesOn'
  BY <1>1 DEF IInv, QueueInv, ReconnectGoesOn, Count
<1>4. QED BY <1>2, <1>3 DEF QueueInv

\* Queueing a request of the application preserves the invariant: an Open is
\* queued where the worker is in Initial, or is about to be.
LEMMA AppPushKeeps ==
  ASSUME IInv, UNCHANGED <<unseenByApp, result>>,
         NEW type \in {"Open", "Play", "Stop", "Done"},
         queue' = Append(queue, Request(type, "app")),
         app \in {"idle", "runPlay"},
         type = "Open" => /\ app' \in {"loadWait", "runWait"} /\ url'
                          /\ ~url \/ state = "Initial",
         type = "Stop" => app' = "stopWait" /\ url' = url,
         type \in {"Play", "Done"} => app' \in {"idle", "joining"} /\ url' = url
  PROVE  Kept
<1> DEFINE req == Request(type, "app")
<1>1. req \in Requests /\ req.type = type /\ req.from = "app"
  BY DEF Request, Requests
<1>2. result = "none" BY DEF IInv, CallInv, CallStates
<1>3. /\ ~Awaited(current)
      /\ \A k \in DOMAIN queue : ~Awaited(queue[k])
  BY DEF IInv, CallInv, OneCall, Waiting
<1>4. \A k \in DOMAIN queue : queue[k].type # "Open"
  BY <1>3, SMTT(30) DEF IInv, TypeOK, Requests, Awaited
<1>5. QueueInv'
  <2>1. OwnRequestTaken'
    BY <1>1, AppendEffect DEF IInv, QueueInv, OwnRequestTaken
  <2>2. OwnRequestFirst'
    BY <1>1, AppendEffect DEF IInv, QueueInv, OwnRequestFirst
  <2>3. OpenIsLast'
    <3>1. type = "Open" =>
            state = "Initial" \/ (state = "SettingUp" /\ tail = "resetState")
      BY DEF IInv, CallInv, CallStates
    <3>2. QED BY <1>1, <1>4, <3>1, AppendEffect DEF IInv, OpenIsLast
  <2>4. ReconnectGoesOn'
    <3>1. Queued("Reconnect")' <=> Queued("Reconnect")
      BY <1>1, AppendEffect DEF IInv, Queued
    <3>2. QED BY <3>1 DEF IInv, QueueInv, ReconnectGoesOn, Count
  <2>5. QED BY <2>1, <2>2, <2>3, <2>4 DEF QueueInv
<1>6. CallInv'
  <2>1. CallNotLost'
    <3>1. queue'[Len(queue')] = req /\ Len(queue') \in DOMAIN queue'
      BY <1>1, AppendEffect DEF IInv
    <3>2. QED BY <1>2, <3>1 DEF CallNotLost
  <2>2. OneCall'
    BY <1>1, <1>2, <1>3, AppendEffect DEF IInv, OneCall, Waiting, Awaited
  <2>3. CallStates' BY <1>2 DEF IInv, CallInv, CallStates
  <2>4. QED BY <2>1, <2>2, <2>3 DEF CallInv
<1>7. QED BY <1>5, <1>6, UnseenKeeps

\* A step that neither calls nor returns a value.
LEMMA AppIdleKeeps ==
  ASSUME IInv, UNCHANGED <<unseenByApp, queue, url, result>>,
         \/ app' = app
         \/ app \in {"idle", "runBase", "stopBase", "joining"}
              /\ app' \in {"idle", "runBase", "runPlay", "gone"}
  PROVE  Kept
<1>1. CallNotLost' BY DEF IInv, CallInv, CallNotLost
<1>2. OneCall' BY DEF IInv, CallInv, OneCall, Waiting
<1>3. CallStates' BY DEF IInv, CallInv, CallStates
<1>4. QED BY <1>1, <1>2, <1>3, SameQueue, UnseenKeeps DEF CallInv

\* The return of a call that has its value.
LEMMA ReturnKeeps ==
  ASSUME IInv, UNCHANGED <<unseenByApp, queue>>, result # "none",
         result' = "none",
         \/ app = "loadWait" /\ app' = "idle" /\ url' = (result = "ok")
         \/ app = "runWait" /\ app' \in {"runBase", "idle"} /\ url' = url
         \/ app = "stopWait" /\ app' = "stopBase" /\ url' = url
  PROVE  Kept
<1>1. ~Awaited(current) /\ \A k \in DOMAIN queue : ~Awaited(queue[k])
  BY DEF IInv, CallInv, OneCall, Waiting
<1>2. CallNotLost' BY DEF CallNotLost
<1>3. OneCall' BY <1>1 DEF OneCall
<1>4. CallStates'
  BY DEF IInv, TypeOK, Results, CallInv, CallStates, CallNotLost
<1>5. QED BY <1>2, <1>3, <1>4, SameQueue, UnseenKeeps DEF CallInv

\* Every step of the application's thread preserves the invariant.
LEMMA AppKeeps ==
  ASSUME IInv, App
  PROVE  Kept
<1>1. CASE Load
  BY <1>1, AppPushKeeps DEF Load, Call, Push
<1>2. CASE LoadReturn
  BY <1>2, ReturnKeeps DEF LoadReturn
<1>3. CASE Run
  <2>1. CASE state = "Initial"
    BY <1>3, <2>1, AppPushKeeps DEF Run, Call, Push, IInv, TypeOK
  <2>2. CASE state # "Initial"
    BY <1>3, <2>2, AppIdleKeeps DEF Run
  <2>3. QED BY <2>1, <2>2
<1>4. CASE RunOpened
  BY <1>4, ReturnKeeps DEF RunOpened
<1>5. CASE RunPlay
  BY <1>5, AppPushKeeps DEF RunPlay, Push
<1>6. CASE Stop
  BY <1>6, AppPushKeeps DEF Stop, Call, Push
<1>7. CASE StopReplied
  BY <1>7, ReturnKeeps DEF StopReplied
<1>8. CASE Destroy
  BY <1>8, AppPushKeeps DEF Destroy, Push
<1>9. CASE RunBase \/ Pause \/ StopBase \/ Joined
  BY <1>9, AppIdleKeeps DEF RunBase, Pause, StopBase, Joined
<1>10. CASE SetAutoReconnectionPeriod \/ SetSendLivenessCommand
  BY <1>10, AppIdleKeeps DEF SetAutoReconnectionPeriod, SetSendLivenessCommand
<1>11. QED
  BY <1>1, <1>2, <1>3, <1>4, <1>5, <1>6, <1>7, <1>8, <1>9, <1>10
  DEF App, Return


\* The end of a handler, and a step without a request, preserve the invariant.
LEMMA TailKeeps ==
  ASSUME IInv, ResetState \/ NotifyPins \/ SingleStep
  PROVE  Kept
<1>1. CASE ResetState
  <2>1. /\ tail = "resetState" /\ tail' = "none" /\ state' = "Initial"
        /\ UNCHANGED <<rtsp, numSubsessions, wpc, queue, current, timerVars,
                       callVars, result>>
    BY <1>1 DEF ResetState
  <2>2. rtsp = NoClient /\ token = {} /\ current = Replied
    BY <2>1 DEF IInv, TailInv
  <2>3. TimerInv' BY <2>1, <2>2 DEF IInv, TimerInv, TimerTokens
  <2>4. ClientInv'
    BY <2>1, <2>2
    DEF ClientInv, AnswerStates, SessionStates, ReplyOwed, NoClient
  <2>5. TailInv' BY <2>1 DEF TailInv
  <2>6. QueueInv'
    BY <2>1
    DEF IInv, QueueInv, OwnRequestTaken, OwnRequestFirst, OpenIsLast,
        ReconnectGoesOn
  <2>7. CallInv'
    <3>1. CallNotLost' BY <2>1 DEF IInv, CallInv, CallNotLost
    <3>2. OneCall' BY <2>1 DEF IInv, CallInv, OneCall, Waiting
    <3>3. CallStates' BY <2>1 DEF IInv, CallInv, CallStates
    <3>4. QED BY <3>1, <3>2, <3>3 DEF CallInv
  <2>8. QED BY <2>3, <2>4, <2>5, <2>6, <2>7 DEF Kept
<1>2. CASE NotifyPins \/ SingleStep
  <2>1. /\ tail \in {"notifyPins", "none"} /\ tail' = "none"
        /\ UNCHANGED <<sessionVars, queue, current, timerVars, callVars,
                       result>>
        /\ \/ wpc' = wpc
           \/ state = "SettingUp" \/ queue = <<>>
    BY <1>2 DEF NotifyPins, SingleStep, Idle
  <2>2. TimerInv' BY <2>1 DEF IInv, TimerInv, TimerTokens
  <2>3. ClientInv'
    BY <2>1 DEF IInv, ClientInv, AnswerStates, SessionStates, ReplyOwed
  <2>4. TailInv' BY <2>1 DEF TailInv
  <2>5. QueueInv'
    <3>1. OwnRequestTaken' BY <2>1 DEF IInv, QueueInv, OwnRequestTaken
    <3>2. OwnRequestFirst' /\ OpenIsLast'
      BY <2>1 DEF IInv, QueueInv, OwnRequestFirst, OpenIsLast
    <3>3. Queued("Reconnect")' <=> Queued("Reconnect") BY <2>1 DEF Queued
    <3>4. ReconnectGoesOn'
      BY <2>1, <3>3 DEF IInv, QueueInv, ReconnectGoesOn, Count
    <3>5. QED BY <3>1, <3>2, <3>4 DEF QueueInv
  <2>6. CallInv'
    <3>1. CallNotLost' BY <2>1 DEF IInv, CallInv, CallNotLost
    <3>2. OneCall' BY <2>1 DEF IInv, CallInv, OneCall, Waiting
    <3>3. CallStates' BY <2>1 DEF IInv, CallInv, CallStates
    <3>4. QED BY <3>1, <3>2, <3>3 DEF CallInv
  <2>7. QED BY <2>2, <2>3, <2>4, <2>5, <2>6 DEF Kept
<1>3. QED BY <1>1, <1>2

\* Every step preserves the inductive invariant.
LEMMA NextInductive == IInv /\ [Next]_vars => IInv'
<1> SUFFICES ASSUME IInv, [Next]_vars PROVE IInv'
  OBVIOUS
<1>1. TypeOK' BY NextType DEF IInv
<1>2. ASSUME NEW m \in Media, FillBuffer(m) PROVE Kept
  BY <1>2, AppIdleKeeps DEF FillBuffer
<1>3. ASSUME UNCHANGED vars PROVE Kept
  <2>1. UNCHANGED <<unseenByApp, queue, url, result>> /\ app' = app
    BY <1>3 DEF vars
  <2>2. QED BY <2>1, AppIdleKeeps
<1>4. ASSUME Worker PROVE Kept
  BY <1>4, TailKeeps, ServeRequestKeeps, HandleSocketKeeps, HandleAlarmKeeps
  DEF Worker
<1>5. Kept BY <1>2, <1>3, <1>4, AppKeeps DEF Next
<1>6. QED BY <1>1, <1>5 DEF IInv, Kept

\* The initial state satisfies the inductive invariant.
LEMMA InitInductive == Init => IInv
<1> SUFFICES ASSUME Init PROVE IInv
  OBVIOUS
<1>1. TypeOK BY InitType
<1>2. TimerInv BY DEF Init, TimerInv, TimerTokens, Count
<1>3. ClientInv
  BY DEF Init, ClientInv, AnswerStates, SessionStates, ReplyOwed, NoClient
<1>4. TailInv BY DEF Init, TailInv
<1>5. QueueInv
  BY DEF Init, QueueInv, OwnRequestTaken, OwnRequestFirst, OpenIsLast,
         ReconnectGoesOn
<1>6. CallInv
  BY DEF Init, CallInv, CallNotLost, OneCall, CallStates, Awaited, Replied,
         Request
<1>7. QED BY <1>1, <1>2, <1>3, <1>4, <1>5, <1>6 DEF IInv

-----------------------------------------------------------------------------
(* The theorems *)

\* The invariant holds whatever the server answers or leaves unanswered and
\* whatever the application calls: see the parts of IInv.
THEOREM Inductive == Spec => []IInv
BY InitInductive, NextInductive, PTL DEF Spec

\* No task of the delay queue is ever orphaned: a handler of RtspSource.cpp
\* that schedules a task never overwrites the token of one that still runs.
THEOREM NoOrphanedTask == Spec => []TimerTokens
<1>1. IInv => TimerTokens BY DEF IInv, TimerInv
<1>2. QED BY <1>1, Inductive, PTL

\* A timer task comes due only in the states its handler asserts, and with the
\* client that it is going to use.
THEOREM TimersInTheirStates == Spec => []TimerStates
<1>1. ASSUME IInv PROVE TimerStates
  <2>1. \A t \in Timers : alarms[t] > 0 => t \in token
    BY <1>1 DEF IInv, TimerInv, TimerTokens, Count
  <2>2. QED
    BY <1>1, <2>1
    DEF IInv, TimerInv, ClientInv, AnswerStates, SessionStates, NoClient,
        Timers, TimerStates
<1>2. QED BY <1>1, Inductive, PTL

\* An answer of the server is handled only in a state its handler is for.
THEOREM AnswersInTheirStates == Spec => []AnswerStates
<1>1. IInv => AnswerStates BY DEF IInv, ClientInv
<1>2. QED BY <1>1, Inductive, PTL

\* No promise is given its value a second time.
THEOREM NoSecondReply == Spec => []ReplyOwed
<1>1. IInv => ReplyOwed BY DEF IInv, ClientInv
<1>2. QED BY <1>1, Inductive, PTL

\* The worker has a client, a session and timers in the states that have them.
THEOREM SessionsInTheirStates == Spec => []SessionStates
<1>1. IInv => SessionStates BY DEF IInv, ClientInv
<1>2. QED BY <1>1, Inductive, PTL

\* The request of a call that waits is never dropped, and its promise is never
\* destroyed without a value.
THEOREM NoCallLost == Spec => []CallNotLost
<1>1. IInv => CallNotLost BY DEF IInv, CallInv
<1>2. QED BY <1>1, Inductive, PTL

\* A request of the worker to itself reaches the session it was made for.
THEOREM OwnRequestsInTime == Spec => []OwnRequestFirst
<1>1. IInv => OwnRequestFirst BY DEF IInv, QueueInv
<1>2. QED BY <1>1, Inductive, PTL

\* While reconnecting exactly one thing gets the worker on.
THEOREM ReconnectNeverStalls == Spec => []ReconnectGoesOn
<1>1. IInv => ReconnectGoesOn BY DEF IInv, QueueInv
<1>2. QED BY <1>1, Inductive, PTL

\* What the comment of Stop guarantees of the worker.
THEOREM StopGuaranteed == Spec => []StopGuarantee
<1>1. IInv => StopGuarantee
  BY DEF IInv, CallInv, CallStates, ClientInv, SessionStates, StopGuarantee
<1>2. QED BY <1>1, Inductive, PTL


-----------------------------------------------------------------------------
(* An Open that is being served *)

\* A request that is taken leaves only an Open as a current one that a caller
\* waits for, and the worker then waits for the answer to DESCRIBE.
LEMMA ServedOpenAnswerable ==
  ASSUME IInv, ServeRequest
  PROVE  OpenAnswerable'
<1>1. PICK req \in Requests :
        \/ ServeOpen(req) \/ ServePlay(req)
        \/ ServeReconnect(req) \/ ServeShutdown(req)
        \/ ServeStopInInitial(req) \/ ServeDoneInInitial(req)
        \/ Reject(req)
  BY DEF ServeRequest
<1>2. Take(req)
  BY <1>1
  DEF ServeOpen, ServePlay, ServeReconnect, ServeShutdown,
      ServeStopInInitial, ServeDoneInInitial, Reject
<1>3. ~Awaited(current) /\ ~Awaited(Replied)
  BY <1>2, TakeEffect
  DEF IInv, CallInv, OneCall, Awaited, Replied, Request
<1>4. CASE ServeOpen(req)
  <2>1. CASE Created
    <3>1. OpenUrl({}) /\ state' = "SettingUp" /\ token \ {} = {}
      BY <1>4 DEF ServeOpen, IInv, ClientInv, SessionStates
    <3>2. rtsp'.awaiting = "DESCRIBE"
      BY <2>1, <3>1, OpenUrlEffect DEF IInv, TimerInv, Created, NoClient
    <3>3. QED BY <3>1, <3>2 DEF OpenAnswerable
  <2>2. CASE ~Created
    BY <1>3, <1>4, <2>2 DEF ServeOpen, AdoptAndReply, OpenAnswerable
  <2>3. QED BY <2>1, <2>2
<1>5. CASE ServePlay(req) \/ ServeReconnect(req) \/ ServeShutdown(req)
  <2>1. current' \in {req, Replied}
    BY <1>5
    DEF ServePlay, ServeReconnect, ServeShutdown, Adopt, AdoptAndReply
  <2>2. ServeShutdown(req) => current' = Replied
    BY DEF ServeShutdown, AdoptAndReply
  <2>3. ~Awaited(current')
    BY <1>3, <1>5, <2>1, <2>2 DEF ServePlay, ServeReconnect, Awaited
  <2>4. QED BY <2>3 DEF OpenAnswerable
<1>6. CASE ServeStopInInitial(req) \/ ServeDoneInInitial(req) \/ Reject(req)
  <2>1. current' = current
    BY <1>6 DEF ServeStopInInitial, ServeDoneInInitial, Reject, ReplyTo
  <2>2. QED BY <1>3, <2>1 DEF OpenAnswerable
<1>7. QED BY <1>1, <1>4, <1>5, <1>6

\* An answer or the timeout replies, or the worker waits for the next answer.
LEMMA HandledOpenAnswerable ==
  ASSUME IInv, OpenAnswerable, "SettingUp" \notin ByeStates,
         HandleSocket \/ HandleAlarm
  PROVE  OpenAnswerable'
<1>1. ~Awaited(Replied) BY DEF Awaited, Replied, Request
<1>2. ASSUME ~Awaited(current), current' \in {current, Replied}
      PROVE  OpenAnswerable'
  BY <1>1, <1>2 DEF OpenAnswerable
<1>3. ASSUME current' = Replied PROVE OpenAnswerable'
  BY <1>1, <1>3 DEF OpenAnswerable
<1>4. ASSUME UNCHANGED <<state, current>>,
             rtsp'.awaiting \in {rtsp.awaiting, "SETUP"}
      PROVE  OpenAnswerable'
  BY <1>4 DEF OpenAnswerable
<1>5. ASSUME NEW iter, NEW fired, NEW off, NEW early,
             AttemptFailed(iter, fired, off, early)
      PROVE  OpenAnswerable'
  BY <1>3, <1>5 DEF AttemptFailed, Reply
<1>6. ASSUME NEW sdp \in Seq(Media \cup {Unsupported}), NEW after \in Nat,
             NEW sinks, SetupNext(sdp, after, sinks),
             UNCHANGED <<state, current>>
      PROVE  OpenAnswerable'
  BY <1>4, <1>6, SetupNextEffect DEF IInv
<1>7. ASSUME NEW n, NEW sinks, NEW off, SetupDone(n, sinks, off)
      PROVE  OpenAnswerable'
  <2>1. CASE n = 0 BY <1>5, <1>7, <2>1 DEF SetupDone
  <2>2. CASE n # 0 /\ state # "Reconnecting"
    BY <1>3, <1>7, <2>2 DEF SetupDone, Reply
  <2>3. CASE n # 0 /\ state = "Reconnecting"
    <3>1. ~Awaited(current) BY <2>3 DEF OpenAnswerable
    <3>2. current' = current BY <1>7, <2>3 DEF SetupDone
    <3>3. QED BY <1>2, <3>1, <3>2
  <2>4. QED BY <2>1, <2>2, <2>3
<1>8. rtsp.session \in Seq(Media \cup {Unsupported}) /\ rtsp.iter \in Nat
  BY DEF IInv, TypeOK, Clients
<1>9. CASE DescribeFailed \/ DescribeRequestTimeout
  BY <1>5, <1>9 DEF DescribeFailed, DescribeRequestTimeout
<1>10. ASSUME NEW sdp \in Sdps, Described(sdp) PROVE OpenAnswerable'
  <2>1. sdp \in Seq(Media \cup {Unsupported}) /\ 0 \in Nat
    BY SdpsAssumption
  <2>2. QED BY <1>6, <1>7, <1>10, <2>1 DEF Described
<1>11. CASE SetupAnswered \/ SetupFailed
  BY <1>6, <1>7, <1>8, <1>11 DEF SetupAnswered, SetupFailed
<1>12. CASE PlayFailed \/ \E vod \in BOOLEAN : PlayAnswered(vod)
  BY <1>3, <1>12 DEF PlayFailed, PlayAnswered, Reply
<1>13. ASSUME state = "Playing", current' = current PROVE OpenAnswerable'
  BY <1>2, <1>13 DEF OpenAnswerable
<1>14. ASSUME NEW ok \in BOOLEAN, OptionsAnswered(ok) PROVE OpenAnswerable'
  BY <1>13, <1>14
  DEF OptionsAnswered, Answered, IInv, ClientInv, AnswerStates
<1>15. CASE SendLivenessCommand
  <2>1. "liveness" \in token
    BY <1>15, DueToken DEF SendLivenessCommand, IInv, TimerInv, Timers
  <2>2. QED BY <1>13, <1>15, <2>1 DEF SendLivenessCommand, IInv, TimerInv
<1>16. CASE \/ NoSocketReady \/ NoAlarmDue \/ CheckInterPacketGaps
            \/ Reconnect \/ HandleMediaEnded
            \/ \E i \in rtsp.sinks : Packet(i)
  BY <1>4, <1>16
  DEF NoSocketReady, NoAlarmDue, CheckInterPacketGaps, Reconnect,
      HandleMediaEnded, RequestItself, Packet
<1>17. ASSUME NEW i \in rtsp.sinks, HandleSubsessionFinished(i)
       PROVE  OpenAnswerable'
  BY <1>2, <1>17 DEF HandleSubsessionFinished, OpenAnswerable
<1>18. QED
  BY <1>9, <1>10, <1>11, <1>12, <1>14, <1>15, <1>16, <1>17
  DEF HandleSocket, HandleAlarm

\* If no subsession ends while the session is set up, an Open that is being
\* served can always be replied to: DESCRIBE or SETUP is awaited.
THEOREM OpenIsAnswerable ==
  ASSUME "SettingUp" \notin ByeStates
  PROVE  Spec => []OpenAnswerable
<1>1. Init => OpenAnswerable
  BY DEF Init, OpenAnswerable, Awaited, Replied, Request
<1>2. ASSUME IInv, OpenAnswerable, [Next]_vars PROVE OpenAnswerable'
  <2>1. CASE UNCHANGED <<state, rtsp, current>>
    BY <1>2, <2>1 DEF OpenAnswerable
  <2>2. CASE App
    BY <2>1, <2>2
    DEF App, Return, Load, LoadReturn, Run, RunOpened, RunBase, RunPlay,
        Pause, Stop, StopReplied, StopBase, Destroy, Joined,
        SetAutoReconnectionPeriod, SetSendLivenessCommand
  <2>3. ASSUME NEW m \in Media, FillBuffer(m) PROVE OpenAnswerable'
    BY <2>1, <2>3 DEF FillBuffer
  <2>4. CASE ResetState
    <3>1. current' = Replied BY <1>2, <2>4 DEF ResetState, IInv, TailInv
    <3>2. QED BY <3>1 DEF OpenAnswerable, Awaited, Replied, Request
  <2>5. CASE NotifyPins \/ SingleStep
    BY <2>1, <2>5 DEF NotifyPins, SingleStep
  <2>6. CASE UNCHANGED vars BY <2>1, <2>6 DEF vars
  <2>7. QED
    BY <1>2, <2>2, <2>3, <2>4, <2>5, <2>6, ServedOpenAnswerable,
       HandledOpenAnswerable
    DEF Next, Worker
<1>3. QED BY <1>1, <1>2, Inductive, PTL DEF Spec

=============================================================================
