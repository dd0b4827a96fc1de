-------------------------- MODULE RtspClientWaits --------------------------
(* What the requests of RtspClient wait for, and in which order the answers  *)
(* come: no request is stranded, and each handler gets its own answer.       *)
EXTENDS RtspClientProofs

-----------------------------------------------------------------------------
(* Sets of steps *)

\* What the program sends; the only other request is the GET.
Commands == [id : Ids, cseq : Nat \ {0}]

\* The step goes on with the GET.
ForGET(e) == e.do \in {"send", "resend", "call"} /\ e.req = GET

\* The step sends a request, or goes on with the GET.
Works(e) == e.do \in {"send", "resend"} \/ ForGET(e)

Plain == {e \in Steps : ~ForGET(e)}
Quiet == {e \in Steps : ~Works(e)}

QuietBehind(t) == t # <<>> => Tail(t) \in Seq(Quiet)

LEMMA CommandFacts ==
  /\ Commands \subseteq Requests /\ GET \in Requests /\ GET \notin Commands
  /\ \A r \in Requests : r \in Commands \/ r = GET
  /\ \A r \in Commands : r # GET /\ r.id \in Ids
<1>1. \A r \in Commands : r.id \in Ids BY DEF Commands
<1>2. GET.id \notin Ids BY StepFacts
<1>3. Requests = Commands \cup {GET} BY DEF Requests, Commands
<1>4. QED BY <1>1, <1>2, <1>3

\* A quiet step is plain, and both are steps.
LEMMA QuietIsPlain ==
  ASSUME NEW t \in Seq(Quiet)
  PROVE  t \in Seq(Plain) /\ QuietBehind(t) /\ (t # <<>> => ~Works(Head(t)))
<1>1. Quiet \subseteq Plain BY DEF Quiet, Plain, Works
<1>2. \A e \in Quiet : ~Works(e) BY DEF Quiet
<1>3. t \in Seq(Plain) BY <1>1
<1>4. t # <<>> => Head(t) \in Quiet /\ Tail(t) \in Seq(Quiet) OBVIOUS
<1>5. QED BY <1>2, <1>3, <1>4 DEF QuietBehind

LEMMA ConcatSeq ==
  ASSUME NEW S, NEW s \in Seq(S), NEW t \in Seq(S)
  PROVE  s \o t \in Seq(S)
OBVIOUS

LEMMA FrontOne ==
  ASSUME NEW S, NEW e, NEW t \in Seq(S)
  PROVE  /\ <<e>> \o t # <<>> /\ Head(<<e>> \o t) = e /\ Tail(<<e>> \o t) = t
         /\ e \in S => <<e>> \o t \in Seq(S)
<1>1. Len(<<e>> \o t) = 1 + Len(t) /\ Len(t) \in Nat OBVIOUS
<1>2. <<e>> \o t # <<>> /\ Head(<<e>> \o t) = e BY <1>1
<1>3. Tail(<<e>> \o t) = t OBVIOUS
<1>4. ASSUME e \in S PROVE <<e>> \o t \in Seq(S)
  <2>1. <<e>> \in Seq(S) BY <1>4
  <2>2. QED BY <2>1
<1>5. QED BY <1>2, <1>3, <1>4

\* Steps that are not about the GET.
LEMMA PlainFacts ==
  /\ HandlerRuns \in Quiet /\ ParseFirst \in Quiet /\ ParseMore \in Quiet
  /\ \A r \in Commands : Entry("send", r) \in Plain /\ Entry("resend", r) \in Plain
  /\ \A r \in Requests : Entry("again", r) \in Quiet
  /\ \A r \in Commands : \A from \in 0..MaxRequests + 1 : \A ok \in BOOLEAN :
       Call(r, from, ok) \in Quiet
<1>1. HandlerRuns \in Quiet /\ ParseFirst \in Quiet /\ ParseMore \in Quiet
  BY StepFacts DEF Quiet, Works, ForGET
<1>2. ASSUME NEW r \in Commands
      PROVE  Entry("send", r) \in Plain /\ Entry("resend", r) \in Plain
  <2>1. r \in Requests /\ r # GET BY CommandFacts
  <2>2. QED BY <2>1, EntryFacts DEF Plain, ForGET
<1>3. ASSUME NEW r \in Requests PROVE Entry("again", r) \in Quiet
  BY EntryFacts DEF Quiet, Works, ForGET
<1>4. ASSUME NEW r \in Commands, NEW from \in 0..MaxRequests + 1, NEW ok \in BOOLEAN
      PROVE  Call(r, from, ok) \in Quiet
  <2>1. r \in Requests /\ r # GET BY CommandFacts
  <2>2. Call(r, from, ok) \in Steps BY <2>1, CallFacts
  <2>3. Call(r, from, ok).do = "call" /\ Call(r, from, ok).req = r BY DEF Call
  <2>4. QED BY <2>1, <2>2, <2>3 DEF Quiet, Works, ForGET
<1>5. QED BY <1>1, <1>2, <1>3, <1>4

\* Sending and failing a queue of commands.
LEMMA EachFacts ==
  ASSUME NEW q \in Seq(Commands)
  PROVE  Each("send", q) \in Seq(Plain) /\ Errors(q) \in Seq(Quiet)
<1>1. \A i \in 1..Len(q) : q[i] \in Commands OBVIOUS
<1>2. Failure \in 0..MaxRequests + 1 /\ FALSE \in BOOLEAN BY StepFacts
<1>3. \A i \in 1..Len(q) : /\ Entry("send", q[i]) \in Plain
                           /\ Call(q[i], Failure, FALSE) \in Quiet
  BY <1>1, <1>2, PlainFacts
<1>4. Each("send", q) \in [1..Len(q) -> Plain] /\ Errors(q) \in [1..Len(q) -> Quiet]
  BY <1>3 DEF Each, Errors
<1>5. Len(q) \in Nat OBVIOUS
<1>6. QED BY <1>4, <1>5

\* What is left to do when sending failed: quiet for a command, and for the GET
\* its call, and then quiet.
LEMMA FailedSteps ==
  ASSUME NEW e \in Steps
  PROVE  /\ e.req \in Commands => Failed(e) \in Seq(Quiet)
         /\ \A t \in Seq(Quiet) :
              /\ Failed(e) \o t # <<>>
              /\ Head(Failed(e) \o t) = Call(e.req, Failure, FALSE)
              /\ Tail(Failed(e) \o t) \in Seq(Quiet)
<1> DEFINE c == Call(e.req, Failure, FALSE)
           a == Entry("again", e.req)
           s == IF e.do = "resend" THEN <<a>> ELSE <<>>
<1>1. e.req \in Requests BY DEF Steps
<1>2. a \in Quiet BY <1>1, PlainFacts
<1>3. Failed(e) = <<c>> \o s BY DEF Failed
<1>4. e.req \in Commands => c \in Quiet BY StepFacts, PlainFacts
<1> HIDE DEF c, a
<1>5. s \in Seq(Quiet) BY <1>2
<1> HIDE DEF s
<1>6. e.req \in Commands => Failed(e) \in Seq(Quiet) BY <1>3, <1>4, <1>5
<1>7. ASSUME NEW t \in Seq(Quiet)
      PROVE  Failed(e) \o t = <<c>> \o (s \o t) /\ s \o t \in Seq(Quiet)
  <2>1. s \o t \in Seq(Quiet) BY <1>5
  <2>2. (<<c>> \o s) \o t = <<c>> \o (s \o t)
    <3>1. \A x : <<x>> \in Seq({x}) OBVIOUS
    <3>2. QED BY <1>5
  <2>3. QED BY <1>3, <2>1, <2>2
<1>8. ASSUME NEW t \in Seq(Quiet)
      PROVE  /\ Failed(e) \o t # <<>> /\ Head(Failed(e) \o t) = c
             /\ Tail(Failed(e) \o t) \in Seq(Quiet)
  <2> DEFINE r == s \o t
  <2>1. Failed(e) \o t = <<c>> \o r /\ r \in Seq(Quiet) BY <1>7
  <2> HIDE DEF r
  <2>2. <<c>> \o r # <<>> /\ Head(<<c>> \o r) = c /\ Tail(<<c>> \o r) = r
    BY <2>1, FrontOne
  <2>3. QED BY <2>1, <2>2
<1>9. QED BY <1>6, <1>8 DEF c
-----------------------------------------------------------------------------
(* What waits for what *)

\* Without a tunnel: what waits for the connection has it pending.
Direct ==
  /\ ~tunnel /\ output = "same" /\ ~tunnelPending /\ awaitingTunneling = <<>>
  /\ awaitingConnection \in Seq(Commands) /\ awaitingResponse \in Seq(Commands)
  /\ todo \in Seq(Plain)
  /\ input = "connecting" <=> awaitingConnection # <<>>
  /\ Parses(todo) => input = "open"
  /\ awaitingResponse # <<>> /\ redirects = 0 => input = "open"

\* The responses to the GET have no CSeq.
Unnumbered == {r \in Responses : r.cseq = 0}

\* What the server has of a tunnel that is not open is the GET, and the running
\* handler sends one request at a time.
BeforeTunnel ==
  /\ tunnel /\ unanswered \in Seq({GET}) /\ buffer \in Seq(Unnumbered)
  /\ QuietBehind(todo)

\* What the head of todo is about.
Working == todo # <<>> /\ Works(Head(todo))
OnGET   == todo # <<>> /\ ForGET(Head(todo))
GETSent == OnGET /\ Head(todo).do # "call"
GETGood == OnGET /\ Head(todo).do = "call" /\ Head(todo).good

\* The first connection of a tunnel: one request is being sent, and it is the GET
\* if others wait for the tunnel.
TunnelFirst ==
  /\ BeforeTunnel
  /\ output = "same" /\ ~tunnelPending
  /\ awaitingTunneling \in Seq(Commands)
  /\ Working => awaitingConnection = <<>> /\ awaitingResponse = <<>>
  /\ awaitingConnection # <<>> =>
       awaitingResponse = <<>> /\ Len(awaitingConnection) = 1
  /\ awaitingResponse # <<>> => awaitingResponse = <<GET>> /\ input = "open"
  /\ input = "connecting" <=> awaitingConnection # <<>>
  /\ awaitingTunneling # <<>> =>
       awaitingConnection = <<GET>> \/ awaitingResponse = <<GET>> \/ OnGET
  /\ awaitingConnection = <<GET>> \/ awaitingResponse = <<GET>> \/ GETSent \/ GETGood
       => awaitingTunneling # <<>>
  /\ GETGood => input = "open"

\* All that waits waits for the second connection of the tunnel.
AllForSecond ==
  /\ BeforeTunnel
  /\ tunnelPending
  /\ awaitingConnection # <<>> /\ awaitingConnection \in Seq(Commands)
  /\ awaitingTunneling = <<>> /\ awaitingResponse = <<>>
  /\ todo \in Seq(Plain)

TunnelSecond == AllForSecond /\ output = "connecting" /\ input = "open"

\* The first connection was lost while the second was pending.
TunnelStuck == AllForSecond /\ output = "same" /\ input = "none"

TunnelOpen ==
  /\ tunnel /\ output = "own" /\ input = "open" /\ ~tunnelPending
  /\ awaitingConnection = <<>> /\ awaitingTunneling = <<>>
  /\ awaitingResponse \in Seq(Commands) /\ todo \in Seq(Plain)

Waits ==
  ~broken => Direct \/ TunnelFirst \/ TunnelSecond \/ TunnelStuck \/ TunnelOpen

\* A redirection over a tunnel answers the only request there is, and the loop that
\* comes to it has handled nothing yet.
RedirectAlone ==
  ~broken /\ tunnel /\ (\E i \in 1..Len(buffer) : buffer[i].code = "redirect") =>
    /\ Doing("parse") /\ Head(todo) = ParseFirst
    /\ Len(awaitingResponse) = 1
    /\ Len(buffer) = 1 \/ Head(buffer).code = "request"

\* The program has crashed.
BrokenStops == broken => todo = <<>>

WInv == Waits /\ RedirectAlone /\ BrokenStops

-----------------------------------------------------------------------------
(* Sending *)

\* A sequence of steps that starts with one that is not about the GET.
LEMMA QuietHead ==
  ASSUME NEW t \in Seq(Steps), QuietBehind(t), t # <<>> => ~Works(Head(t))
  PROVE  t \in Seq(Quiet)
<1>1. CASE t = <<>> BY <1>1
<1>2. CASE t # <<>>
  <2>1. Head(t) \in Steps /\ ~Works(Head(t)) /\ Tail(t) \in Seq(Quiet)
    BY <1>2 DEF QuietBehind
  <2>2. Head(t) \in Quiet BY <2>1 DEF Quiet
  <2>3. <<Head(t)>> \in Seq(Quiet) BY <2>2
  <2>4. t = <<Head(t)>> \o Tail(t) BY <1>2
  <2>5. <<Head(t)>> \o Tail(t) \in Seq(Quiet) BY <2>1, <2>3
  <2>6. QED BY <2>4, <2>5
<1>3. QED BY <1>1, <1>2

LEMMA SendCommandWaits ==
  ASSUME IInv, Waits, ~broken, SendCommand
  PROVE  Waits'
<1> DEFINE r == [id |-> sent', cseq |-> cseq']
           e == Entry("send", r)
<1>1. /\ e \in Plain /\ e.do = "send" /\ ~ForGET(e)
  <2>1. sent' \in Ids /\ cseq' \in Nat \ {0}
    BY RtspClientAssumption DEF IInv, TypeOK, SendCommand, Ids
  <2>2. r \in Commands BY <2>1 DEF Commands
  <2> HIDE DEF r
  <2>3. e \in Plain BY <2>2, PlainFacts
  <2>4. e.do = "send" BY DEF Entry
  <2> HIDE DEF e
  <2>5. QED BY <2>3, <2>4 DEF Plain
<1>2. todo' = <<e>> \o todo BY DEF SendCommand
<1> HIDE DEF e
<1>3. /\ tunnel' = tunnel /\ input' = input /\ output' = output
      /\ unanswered' = unanswered /\ tunnelPending' = tunnelPending
      /\ awaitingConnection' = awaitingConnection
      /\ awaitingTunneling' = awaitingTunneling
      /\ awaitingResponse' = awaitingResponse
      /\ buffer' = buffer /\ redirects' = redirects
  BY DEF SendCommand, queues, sockets, bounds
<1>4. todo \in Seq(Steps) BY DEF IInv, TypeOK
<1>5. todo # <<>> => ~Works(Head(todo))
  BY DEF SendCommand, EventLoop, Doing, Works, ForGET
<1>6. todo' # <<>> /\ Head(todo') = e /\ Tail(todo') = todo
  BY <1>2, <1>4, FrontOne
<1>7. todo \in Seq(Plain) => todo' \in Seq(Plain)
  BY <1>1, <1>2, FrontOne
<1>8. QuietBehind(todo) => QuietBehind(todo')
  BY <1>4, <1>5, <1>6, QuietHead DEF QuietBehind
<1>9. Parses(todo') => Parses(todo)
  <2>1. e \in Steps BY <1>1 DEF Plain
  <2>2. <<e>> \in Seq(Steps) /\ ~Parses(<<e>>) BY <1>1, <2>1, ParsesOne
  <2>3. QED BY <1>2, <1>4, <2>2, ParsesConcat
<1>10. CASE Direct
  <2>1. Direct' BY <1>3, <1>7, <1>9, <1>10 DEF Direct
  <2>2. QED BY <2>1 DEF Waits
<1>11. CASE TunnelFirst
  <2>1. BeforeTunnel' BY <1>3, <1>8, <1>11 DEF TunnelFirst, BeforeTunnel
  <2>2. ~OnGET /\ ~OnGET' BY <1>1, <1>5, <1>6 DEF OnGET, Works
  <2>3. awaitingConnection = <<>> /\ awaitingResponse = <<>>
    <3>1. CASE input = "none" BY <1>11, <3>1 DEF TunnelFirst
    <3>2. CASE input # "none"
      <4>1. NothingOutstanding
        BY <1>11, <3>2 DEF SendCommand, TunnelFirst, BeforeTunnel
      <4>2. QED BY <4>1 DEF NothingOutstanding, queues
    <3>3. QED BY <3>1, <3>2
  <2>4. TunnelFirst'
    BY <1>3, <1>11, <2>1, <2>2, <2>3 DEF TunnelFirst, GETSent, GETGood
  <2>5. QED BY <2>4 DEF Waits
<1>12. CASE AllForSecond
  <2>1. AllForSecond' BY <1>3, <1>7, <1>8, <1>12 DEF AllForSecond, BeforeTunnel
  <2>2. (TunnelSecond => TunnelSecond') /\ (TunnelStuck => TunnelStuck')
    BY <1>3, <2>1 DEF TunnelSecond, TunnelStuck
  <2>3. TunnelFirst \/ TunnelSecond \/ TunnelStuck
    BY <1>12 DEF Waits, AllForSecond, BeforeTunnel, Direct, TunnelOpen
  <2>4. QED BY <1>11, <2>2, <2>3 DEF Waits
<1>13. CASE TunnelOpen
  <2>1. TunnelOpen' BY <1>3, <1>7, <1>13 DEF TunnelOpen
  <2>2. QED BY <2>1 DEF Waits
<1>14. QED
  BY <1>10, <1>11, <1>12, <1>13 DEF Waits, TunnelSecond, TunnelStuck

\* The next step is not about the GET.
LEMMA QuietGoesOn ==
  ASSUME todo' \in Seq(Quiet)
  PROVE  /\ QuietBehind(todo') /\ todo' \in Seq(Plain)
         /\ ~Working' /\ ~OnGET' /\ ~GETSent' /\ ~GETGood'
<1>1. QuietBehind(todo') /\ todo' \in Seq(Plain) /\ (todo' # <<>> => ~Works(Head(todo')))
  BY QuietIsPlain
<1>2. ~Working' BY <1>1 DEF Working
<1>3. ~OnGET' BY <1>1 DEF OnGET, Works
<1>4. QED BY <1>1, <1>2, <1>3 DEF GETSent, GETGood

LEMMA SendingFacts ==
  ASSUME IInv, Doing("send") \/ Doing("resend")
  PROVE  /\ todo # <<>> /\ Head(todo) \in Steps /\ Head(todo).req \in Requests
         /\ Working /\ (OnGET <=> Head(todo).req = GET)
         /\ (GETSent <=> Head(todo).req = GET) /\ ~GETGood
         /\ todo \in Seq(Plain) =>
              /\ Head(todo).req \in Commands
              /\ Tail(todo) \in Seq(Plain)
              /\ Failed(Head(todo)) \o Tail(todo) \in Seq(Plain)
         /\ QuietBehind(todo) => Tail(todo) \in Seq(Quiet)
         /\ Parses(Tail(todo)) => Parses(todo)
         /\ Parses(Failed(Head(todo)) \o Tail(todo)) => Parses(todo)
<1> DEFINE h == Head(todo)
           t == Tail(todo)
           f == Failed(h)
<1>1. todo \in Seq(Steps) /\ todo # <<>> /\ h.do \in {"send", "resend"}
  BY DEF IInv, TypeOK, Doing
<1>2. h \in Steps /\ t \in Seq(Steps) /\ (Parses(t) => Parses(todo))
  BY <1>1, ParsesTail
<1>3. h.req \in Requests BY <1>2 DEF Steps
<1>4. Working /\ (OnGET <=> h.req = GET) /\ (GETSent <=> h.req = GET) /\ ~GETGood
  BY <1>1 DEF Working, OnGET, GETSent, GETGood, Works, ForGET
<1>5. QuietBehind(todo) => t \in Seq(Quiet) BY <1>1 DEF QuietBehind
<1>6. f \in Seq(Steps) /\ ~Parses(f) BY <1>2, FailedFacts
<1>7. Parses(f \o t) => Parses(todo) BY <1>2, <1>6, ParsesConcat
<1>8. ASSUME todo \in Seq(Plain)
      PROVE  h.req \in Commands /\ t \in Seq(Plain) /\ f \o t \in Seq(Plain)
  <2>1. h \in Plain /\ t \in Seq(Plain) BY <1>1, <1>8
  <2>2. h.req # GET BY <1>1, <2>1 DEF Plain, ForGET
  <2>3. h.req \in Commands BY <1>3, <2>2, CommandFacts
  <2>4. f \in Seq(Quiet) BY <1>2, <2>3, FailedSteps
  <2>5. f \in Seq(Plain) BY <2>4, QuietIsPlain
  <2> HIDE DEF h, t, f
  <2>6. QED BY <2>1, <2>3, <2>5, ConcatSeq
<1>9. QED BY <1>1, <1>2, <1>3, <1>4, <1>5, <1>7, <1>8

LEMMA EnqueueWaits ==
  ASSUME IInv, Waits, ~broken, Doing("send") \/ Doing("resend"),
         EnqueueBehind(Head(todo).req, Tail(todo)),
         UNCHANGED <<tunnel, output, tunnelPending, buffer, redirects>>
  PROVE  Waits'
<1> DEFINE r == Head(todo).req
<1>1. /\ awaitingConnection # <<>>
      /\ awaitingConnection' = Append(awaitingConnection, r) /\ todo' = Tail(todo)
      /\ awaitingTunneling' = awaitingTunneling /\ awaitingResponse' = awaitingResponse
      /\ input' = input /\ unanswered' = unanswered
      /\ tunnel' = tunnel /\ output' = output /\ tunnelPending' = tunnelPending
      /\ buffer' = buffer /\ redirects' = redirects
  BY DEF EnqueueBehind, sockets
<1>2. /\ Working
      /\ todo \in Seq(Plain) => r \in Commands /\ Tail(todo) \in Seq(Plain)
      /\ QuietBehind(todo) => Tail(todo) \in Seq(Quiet)
      /\ Parses(Tail(todo)) => Parses(todo)
  BY SendingFacts
<1> HIDE DEF r
<1>3. ASSUME awaitingConnection \in Seq(Commands), todo \in Seq(Plain)
      PROVE  /\ awaitingConnection' \in Seq(Commands) /\ awaitingConnection' # <<>>
             /\ todo' \in Seq(Plain)
  BY <1>1, <1>2, <1>3
<1>4. CASE Direct
  <2>1. Direct' BY <1>1, <1>2, <1>3, <1>4 DEF Direct
  <2>2. QED BY <2>1 DEF Waits
<1>5. CASE AllForSecond
  <2>0. QuietBehind(todo')
    <3>1. todo' \in Seq(Quiet) BY <1>1, <1>2, <1>5 DEF AllForSecond, BeforeTunnel
    <3>2. QED BY <3>1, QuietIsPlain
  <2>1. BeforeTunnel' BY <1>1, <1>5, <2>0 DEF AllForSecond, BeforeTunnel
  <2>2. AllForSecond' BY <1>1, <1>3, <1>5, <2>1 DEF AllForSecond
  <2>3. (TunnelSecond => TunnelSecond') /\ (TunnelStuck => TunnelStuck')
    BY <1>1, <2>2 DEF TunnelSecond, TunnelStuck
  <2>4. TunnelSecond \/ TunnelStuck
    BY <1>5 DEF Waits, AllForSecond, BeforeTunnel, Direct, TunnelFirst, TunnelOpen
  <2>5. QED BY <2>3, <2>4 DEF Waits
<1>6. CASE TunnelFirst BY <1>1, <1>2, <1>6 DEF TunnelFirst
<1>7. CASE TunnelOpen BY <1>1, <1>7 DEF TunnelOpen
<1>8. QED BY <1>4, <1>5, <1>6, <1>7 DEF Waits, TunnelSecond, TunnelStuck

LEMMA OpenWaits ==
  ASSUME IInv, Waits, ~broken, Doing("send") \/ Doing("resend"),
         OpenConnection(Head(todo).req, Tail(todo), Failed(Head(todo))),
         UNCHANGED <<tunnel, tunnelPending, buffer, redirects>>
  PROVE  Waits'
<1> DEFINE r == Head(todo).req
           f == Failed(Head(todo))
<1>1. /\ awaitingConnection = <<>> /\ input = "none"
      /\ awaitingTunneling' = awaitingTunneling /\ awaitingResponse' = awaitingResponse
      /\ output' = output /\ unanswered' = unanswered
      /\ tunnel' = tunnel /\ tunnelPending' = tunnelPending
      /\ buffer' = buffer /\ redirects' = redirects
  BY DEF OpenConnection
<1>2. \/ /\ input' = "connecting" /\ awaitingConnection' = <<r>> /\ todo' = Tail(todo)
      \/ /\ input' = "open" /\ awaitingConnection' = awaitingConnection /\ todo' = todo
      \/ /\ input' = input /\ awaitingConnection' = awaitingConnection
         /\ todo' = f \o Tail(todo)
  BY DEF OpenConnection
<1>3. /\ r \in Requests /\ Working /\ (OnGET <=> r = GET) /\ (GETSent <=> r = GET)
      /\ ~GETGood
      /\ todo \in Seq(Plain) => /\ r \in Commands /\ Tail(todo) \in Seq(Plain)
                                /\ f \o Tail(todo) \in Seq(Plain)
      /\ QuietBehind(todo) => Tail(todo) \in Seq(Quiet)
      /\ Parses(Tail(todo)) => Parses(todo)
      /\ Parses(f \o Tail(todo)) => Parses(todo)
  BY SendingFacts
<1>4. CASE Direct
  <2>1. <<r>> \in Seq(Commands) /\ <<r>> # <<>> BY <1>3, <1>4 DEF Direct
  <2>2. ~Parses(todo) BY <1>1, <1>4 DEF Direct
  <2> HIDE DEF r, f
  <2>3. ~Parses(todo') BY <1>2, <1>3, <2>2
  <2>4. todo' \in Seq(Plain) BY <1>2, <1>3, <1>4 DEF Direct
  <2>5. /\ awaitingConnection' \in Seq(Commands)
        /\ input' = "connecting" <=> awaitingConnection' # <<>>
        /\ input' = input \/ input' = "open" \/ awaitingResponse = <<>> \/ redirects # 0
    BY <1>1, <1>2, <1>4, <2>1 DEF Direct
  <2>6. Direct' BY <1>1, <1>4, <2>3, <2>4, <2>5 DEF Direct
  <2>7. QED BY <2>6 DEF Waits
<1>5. CASE TunnelFirst
  <2>1. Tail(todo) \in Seq(Quiet) BY <1>3, <1>5 DEF TunnelFirst, BeforeTunnel
  <2>2. awaitingResponse = <<>> /\ (awaitingTunneling # <<>> <=> r = GET)
    BY <1>1, <1>3, <1>5 DEF TunnelFirst
  <2>3. CASE input' = "connecting" /\ awaitingConnection' = <<r>> /\ todo' = Tail(todo)
    <3>1. QuietBehind(todo') /\ ~Working' /\ ~OnGET' /\ ~GETSent' /\ ~GETGood'
      BY <2>1, <2>3, QuietGoesOn
    <3>2. Len(<<r>>) = 1 /\ <<r>> # <<>> /\ (<<r>> = <<GET>> <=> r = GET) OBVIOUS
    <3>3. BeforeTunnel' BY <1>1, <1>5, <3>1 DEF TunnelFirst, BeforeTunnel
    <3> HIDE DEF r
    <3>4. TunnelFirst' BY <1>1, <1>5, <2>2, <2>3, <3>1, <3>2, <3>3 DEF TunnelFirst
    <3>5. QED BY <3>4 DEF Waits
  <2>4. CASE input' = "open" /\ awaitingConnection' = awaitingConnection /\ todo' = todo
    <3>1. (Working' <=> Working) /\ (OnGET' <=> OnGET) /\ (GETSent' <=> GETSent)
          /\ (GETGood' <=> GETGood)
      BY <2>4 DEF Working, OnGET, GETSent, GETGood
    <3>2. BeforeTunnel' BY <1>1, <1>5, <2>4 DEF TunnelFirst, BeforeTunnel
    <3>3. TunnelFirst' BY <1>1, <1>3, <1>5, <2>2, <2>4, <3>1, <3>2 DEF TunnelFirst
    <3>4. QED BY <3>3 DEF Waits
  <2>5. CASE /\ input' = input /\ awaitingConnection' = awaitingConnection
             /\ todo' = f \o Tail(todo)
    <3>1. /\ todo' # <<>> /\ Head(todo') = Call(r, Failure, FALSE)
          /\ Tail(todo') \in Seq(Quiet)
      BY <2>1, <2>5, SendingFacts, FailedSteps
    <3>2. /\ Head(todo').do = "call" /\ Head(todo').req = r /\ ~Head(todo').good
      BY <3>1 DEF Call
    <3> HIDE DEF r, f
    <3>3. QuietBehind(todo') /\ (OnGET' <=> r = GET) /\ ~GETSent' /\ ~GETGood'
      BY <3>1, <3>2 DEF QuietBehind, OnGET, GETSent, GETGood, ForGET
    <3>4. BeforeTunnel' BY <1>1, <1>5, <3>3 DEF TunnelFirst, BeforeTunnel
    <3>5. TunnelFirst' BY <1>1, <1>5, <2>2, <2>5, <3>3, <3>4 DEF TunnelFirst
    <3>6. QED BY <3>5 DEF Waits
  <2>6. QED BY <1>2, <2>3, <2>4, <2>5
<1>6. CASE TunnelSecond BY <1>1, <1>6 DEF TunnelSecond
<1>7. CASE TunnelStuck BY <1>1, <1>7 DEF TunnelStuck, AllForSecond
<1>8. CASE TunnelOpen BY <1>1, <1>8 DEF TunnelOpen
<1>9. QED BY <1>4, <1>5, <1>6, <1>7, <1>8 DEF Waits

LEMMA SetupWaits ==
  ASSUME IInv, Waits, ~broken, Doing("send") \/ Doing("resend"),
         SetupTunnel(Head(todo).req, Tail(todo), Failed(Head(todo))),
         awaitingConnection = <<>>, input # "none", Head(todo).req # GET,
         tunnel, output = "same",
         UNCHANGED <<tunnel, awaitingConnection, input, output, tunnelPending, buffer,
                     redirects>>
  PROVE  Waits'
<1> DEFINE r == Head(todo).req
           f == Failed(Head(todo))
           c == Call(GET, Failure, FALSE)
<1>1. /\ tunnel' = tunnel /\ input' = input /\ output' = output
      /\ awaitingConnection' = awaitingConnection
      /\ tunnelPending' = tunnelPending /\ buffer' = buffer /\ redirects' = redirects
  OBVIOUS
<1>2. \/ /\ awaitingResponse' = Append(awaitingResponse, GET)
         /\ unanswered' = Append(unanswered, GET)
         /\ awaitingTunneling' = Append(awaitingTunneling, r)
         /\ todo' = Tail(todo)
      \/ /\ todo' = <<c>> \o f \o Tail(todo)
         /\ awaitingResponse' = awaitingResponse
         /\ awaitingTunneling' = awaitingTunneling /\ unanswered' = unanswered
  BY DEF SetupTunnel, Transmit
<1>3. /\ r \in Commands /\ Head(todo) \in Steps /\ Working /\ ~OnGET
      /\ QuietBehind(todo) => Tail(todo) \in Seq(Quiet)
  BY SendingFacts, CommandFacts
<1>4. f \in Seq(Quiet) BY <1>3, FailedSteps
<1>5. TunnelFirst
  BY DEF Waits, Direct, TunnelOpen, TunnelSecond, TunnelStuck, AllForSecond
<1>6. Tail(todo) \in Seq(Quiet) BY <1>3, <1>5 DEF TunnelFirst, BeforeTunnel
<1>7. awaitingResponse = <<>> /\ awaitingTunneling = <<>> /\ input = "open"
  <2>1. awaitingResponse = <<>> /\ awaitingTunneling = <<>> /\ input # "connecting"
    BY <1>3, <1>5 DEF TunnelFirst
  <2>2. QED BY <2>1 DEF IInv, TypeOK
<1> HIDE DEF r, f
<1>8. CASE /\ awaitingResponse' = Append(awaitingResponse, GET)
           /\ unanswered' = Append(unanswered, GET)
           /\ awaitingTunneling' = Append(awaitingTunneling, r)
           /\ todo' = Tail(todo)
  <2>1. QuietBehind(todo') /\ ~Working' /\ ~OnGET' /\ ~GETSent' /\ ~GETGood'
    BY <1>6, <1>8, QuietGoesOn
  <2>2. /\ awaitingResponse' = <<GET>> /\ awaitingTunneling' = <<r>>
        /\ awaitingTunneling' # <<>> /\ awaitingTunneling' \in Seq(Commands)
    BY <1>3, <1>7, <1>8
  <2>3. unanswered' \in Seq({GET}) BY <1>5, <1>8 DEF TunnelFirst, BeforeTunnel
  <2>4. BeforeTunnel' BY <1>1, <1>5, <2>1, <2>3 DEF TunnelFirst, BeforeTunnel
  <2>5. TunnelFirst' BY <1>1, <1>5, <1>7, <2>1, <2>2, <2>4 DEF TunnelFirst
  <2>6. QED BY <2>5 DEF Waits
<1>9. CASE /\ todo' = <<c>> \o f \o Tail(todo)
           /\ awaitingResponse' = awaitingResponse
           /\ awaitingTunneling' = awaitingTunneling /\ unanswered' = unanswered
  <2> DEFINE t == f \o Tail(todo)
  <2>1. t \in Seq(Quiet) BY <1>4, <1>6, ConcatSeq
  <2>2. c.do = "call" /\ c.req = GET /\ ~c.good BY DEF Call
  <2>3. todo' = <<c>> \o t
    <3> HIDE DEF c
    <3>1. <<c>> \in Seq({c}) OBVIOUS
    <3>2. QED BY <1>4, <1>6, <1>9, <3>1, SMTT(30)
  <2> HIDE DEF t, c
  <2>4. todo' # <<>> /\ Head(todo') = c /\ Tail(todo') = t BY <2>1, <2>3, FrontOne
  <2>5. QuietBehind(todo') /\ OnGET' /\ ~GETSent' /\ ~GETGood'
    BY <2>1, <2>2, <2>4 DEF QuietBehind, OnGET, GETSent, GETGood, ForGET
  <2>6. BeforeTunnel' BY <1>1, <1>5, <1>9, <2>5 DEF TunnelFirst, BeforeTunnel
  <2>7. TunnelFirst' BY <1>1, <1>5, <1>7, <1>9, <2>5, <2>6 DEF TunnelFirst
  <2>8. QED BY <2>7 DEF Waits
<1>10. QED BY <1>2, <1>8, <1>9

LEMMA TransferWaits ==
  ASSUME IInv, Waits, ~broken, Doing("send") \/ Doing("resend"),
         Transfer(Head(todo).req, Tail(todo), Failed(Head(todo))),
         awaitingConnection = <<>>, input # "none",
         ~(tunnel /\ Head(todo).req # GET /\ output = "same"),
         UNCHANGED <<tunnel, awaitingConnection, input, output, tunnelPending, buffer,
                     redirects>>
  PROVE  Waits'
<1> DEFINE r == Head(todo).req
           f == Failed(Head(todo))
<1>1. /\ tunnel' = tunnel /\ input' = input /\ output' = output
      /\ awaitingConnection' = awaitingConnection
      /\ tunnelPending' = tunnelPending /\ buffer' = buffer /\ redirects' = redirects
      /\ awaitingTunneling' = awaitingTunneling
  BY DEF Transfer
<1>2. \/ /\ awaitingResponse' = Append(awaitingResponse, r)
         /\ unanswered' = Append(unanswered, r)
         /\ todo' = Tail(todo)
      \/ /\ todo' = f \o Tail(todo)
         /\ awaitingResponse' = awaitingResponse /\ unanswered' = unanswered
  BY DEF Transfer, Transmit
<1>3. /\ r \in Requests /\ Working /\ (OnGET <=> r = GET) /\ (GETSent <=> r = GET)
      /\ ~GETGood
      /\ todo \in Seq(Plain) => /\ r \in Commands /\ Tail(todo) \in Seq(Plain)
                                /\ f \o Tail(todo) \in Seq(Plain)
      /\ QuietBehind(todo) => Tail(todo) \in Seq(Quiet)
      /\ Parses(Tail(todo)) => Parses(todo)
      /\ Parses(f \o Tail(todo)) => Parses(todo)
  BY SendingFacts
<1>4. ASSUME todo \in Seq(Plain), awaitingResponse \in Seq(Commands)
      PROVE  todo' \in Seq(Plain) /\ awaitingResponse' \in Seq(Commands)
  <2>1. /\ r \in Commands /\ Tail(todo) \in Seq(Plain)
        /\ f \o Tail(todo) \in Seq(Plain)
    BY <1>3, <1>4
  <2> HIDE DEF r, f
  <2>2. todo' \in Seq(Plain) BY <1>2, <2>1
  <2>3. Append(awaitingResponse, r) \in Seq(Commands) BY <1>4, <2>1
  <2>4. QED BY <1>2, <1>4, <2>2, <2>3
<1>5. Parses(todo') => Parses(todo)
  <2> HIDE DEF r, f
  <2>1. QED BY <1>2, <1>3
<1>6. CASE Direct
  <2>1. input = "open" BY <1>6 DEF Direct, IInv, TypeOK
  <2>2. Direct' BY <1>1, <1>4, <1>5, <1>6, <2>1 DEF Direct
  <2>3. QED BY <2>2 DEF Waits
<1>7. CASE TunnelOpen
  <2>1. TunnelOpen' BY <1>1, <1>4, <1>7 DEF TunnelOpen
  <2>2. QED BY <2>1 DEF Waits
<1>8. CASE TunnelFirst
  <2>1. r = GET BY <1>8 DEF TunnelFirst, BeforeTunnel
  <2>2. /\ awaitingResponse = <<>> /\ awaitingTunneling # <<>>
        /\ Tail(todo) \in Seq(Quiet)
    BY <1>3, <1>8, <2>1 DEF TunnelFirst, BeforeTunnel
  <2>3. input = "open" BY <1>8 DEF TunnelFirst, IInv, TypeOK
  <2>4. CASE /\ awaitingResponse' = Append(awaitingResponse, r)
             /\ unanswered' = Append(unanswered, r)
             /\ todo' = Tail(todo)
    <3>1. QuietBehind(todo') /\ ~Working' /\ ~OnGET' /\ ~GETSent' /\ ~GETGood'
      BY <2>2, <2>4, QuietGoesOn
    <3>2. awaitingResponse' = <<GET>> BY <2>1, <2>2, <2>4
    <3>3. unanswered' \in Seq({GET}) BY <1>8, <2>1, <2>4 DEF TunnelFirst, BeforeTunnel
    <3>4. BeforeTunnel' BY <1>1, <1>8, <3>1, <3>3 DEF TunnelFirst, BeforeTunnel
    <3>5. TunnelFirst' BY <1>1, <1>8, <2>2, <2>3, <3>1, <3>2, <3>4 DEF TunnelFirst
    <3>6. QED BY <3>5 DEF Waits
  <2>5. CASE /\ todo' = f \o Tail(todo)
             /\ awaitingResponse' = awaitingResponse /\ unanswered' = unanswered
    <3>1. /\ todo' # <<>> /\ Head(todo') = Call(r, Failure, FALSE)
          /\ Tail(todo') \in Seq(Quiet)
      BY <2>2, <2>5, SendingFacts, FailedSteps
    <3>2. /\ Head(todo').do = "call" /\ Head(todo').req = r /\ ~Head(todo').good
      BY <3>1 DEF Call
    <3> HIDE DEF r, f
    <3>3. QuietBehind(todo') /\ OnGET' /\ ~GETSent' /\ ~GETGood'
      BY <2>1, <3>1, <3>2 DEF QuietBehind, OnGET, GETSent, GETGood, ForGET
    <3>4. BeforeTunnel' BY <1>1, <1>8, <2>5, <3>3 DEF TunnelFirst, BeforeTunnel
    <3>5. TunnelFirst' BY <1>1, <1>8, <2>2, <2>5, <3>3, <3>4 DEF TunnelFirst
    <3>6. QED BY <3>5 DEF Waits
  <2>6. QED BY <1>2, <2>4, <2>5
<1>9. QED
  BY <1>6, <1>7, <1>8 DEF Waits, TunnelSecond, TunnelStuck, AllForSecond

LEMMA SendRequestWaits ==
  ASSUME IInv, Waits, ~broken, SendRequest
  PROVE  Waits'
<1>1. Doing("send") \/ Doing("resend") BY DEF SendRequest
<1>2. UNCHANGED <<tunnel, tunnelPending, buffer, redirects>> BY DEF SendRequest
<1>3. CASE EnqueueBehind(Head(todo).req, Tail(todo))
  <2>1. output' = output BY <1>3 DEF EnqueueBehind, sockets
  <2>2. QED BY <1>1, <1>2, <1>3, <2>1, EnqueueWaits
<1>4. CASE OpenConnection(Head(todo).req, Tail(todo), Failed(Head(todo)))
  BY <1>1, <1>2, <1>4, OpenWaits
<1>5. CASE /\ awaitingConnection = <<>> /\ input # "none"
           /\ IF tunnel /\ Head(todo).req # GET /\ output = "same"
              THEN SetupTunnel(Head(todo).req, Tail(todo), Failed(Head(todo)))
              ELSE Transfer(Head(todo).req, Tail(todo), Failed(Head(todo)))
           /\ UNCHANGED <<awaitingConnection, input, output>>
  BY <1>1, <1>2, <1>5, SetupWaits, TransferWaits
<1>6. QED BY <1>3, <1>4, <1>5 DEF SendRequest

-----------------------------------------------------------------------------
(* Calling the response handlers *)

\* A step that is not about the GET, with nothing else changed than todo.
LEMMA QuietStepWaits ==
  ASSUME IInv, Waits, ~broken, todo # <<>>, ~Works(Head(todo)),
         QuietBehind(todo) => todo' \in Seq(Quiet),
         todo \in Seq(Plain) => todo' \in Seq(Plain),
         Parses(todo') => Parses(todo),
         UNCHANGED <<tunnel, queues, sockets, tunnelPending, buffer, redirects>>
  PROVE  Waits'
<1>1. /\ tunnel' = tunnel /\ input' = input /\ output' = output
      /\ unanswered' = unanswered /\ tunnelPending' = tunnelPending
      /\ awaitingConnection' = awaitingConnection
      /\ awaitingTunneling' = awaitingTunneling
      /\ awaitingResponse' = awaitingResponse
      /\ buffer' = buffer /\ redirects' = redirects
  BY DEF queues, sockets
<1>2. ~Working /\ ~OnGET BY DEF Working, OnGET, Works
<1>3. ASSUME BeforeTunnel
      PROVE  BeforeTunnel' /\ ~Working' /\ ~OnGET' /\ ~GETSent' /\ ~GETGood'
  <2>1. todo' \in Seq(Quiet) BY <1>3 DEF BeforeTunnel
  <2>2. QuietBehind(todo') /\ ~Working' /\ ~OnGET' /\ ~GETSent' /\ ~GETGood'
    BY <2>1, QuietGoesOn
  <2>3. QED BY <1>1, <1>3, <2>2 DEF BeforeTunnel
<1>4. CASE Direct
  <2>1. Direct' BY <1>1, <1>4 DEF Direct
  <2>2. QED BY <2>1 DEF Waits
<1>5. CASE TunnelFirst
  <2>1. TunnelFirst' BY <1>1, <1>2, <1>3, <1>5 DEF TunnelFirst
  <2>2. QED BY <2>1 DEF Waits
<1>6. ASSUME AllForSecond PROVE AllForSecond' BY <1>1, <1>3, <1>6 DEF AllForSecond
<1>7. CASE TunnelSecond
  <2>1. TunnelSecond' BY <1>1, <1>6, <1>7 DEF TunnelSecond
  <2>2. QED BY <2>1 DEF Waits
<1>8. CASE TunnelStuck
  <2>1. TunnelStuck' BY <1>1, <1>6, <1>8 DEF TunnelStuck
  <2>2. QED BY <2>1 DEF Waits
<1>9. CASE TunnelOpen
  <2>1. TunnelOpen' BY <1>1, <1>9 DEF TunnelOpen
  <2>2. QED BY <2>1 DEF Waits
<1>10. QED BY <1>4, <1>5, <1>7, <1>8, <1>9 DEF Waits

LEMMA CallHandlerWaits ==
  ASSUME IInv, Waits, ~broken, CallHandler \/ HandlerReturns
  PROVE  Waits'
<1>1. todo \in Seq(Steps) /\ todo # <<>>
  BY DEF IInv, TypeOK, CallHandler, HandlerReturns, Doing
<1>2. ~Works(Head(todo))
  <2>1. GET.id \notin Ids BY StepFacts
  <2>2. QED BY <2>1 DEF CallHandler, HandlerReturns, Doing, Works, ForGET
<1>3. todo' = Tail(todo) \/ todo' = <<HandlerRuns>> \o Tail(todo)
  BY DEF CallHandler, HandlerReturns
<1>4. ASSUME NEW S, Tail(todo) \in Seq(S), HandlerRuns \in S PROVE todo' \in Seq(S)
  <2>1. <<HandlerRuns>> \o Tail(todo) \in Seq(S) BY <1>4, FrontOne
  <2>2. QED BY <1>3, <1>4, <2>1
<1>5. /\ QuietBehind(todo) => todo' \in Seq(Quiet)
      /\ todo \in Seq(Plain) => todo' \in Seq(Plain)
  <2>1. HandlerRuns \in Quiet /\ HandlerRuns \in Plain
    BY PlainFacts DEF Quiet, Plain, Works
  <2>2. todo \in Seq(Plain) => Tail(todo) \in Seq(Plain) BY <1>1
  <2>3. QuietBehind(todo) => Tail(todo) \in Seq(Quiet) BY <1>1 DEF QuietBehind
  <2>4. QED BY <1>4, <2>1, <2>2, <2>3
<1>6. Parses(todo') => Parses(todo)
  <2>1. Tail(todo) \in Seq(Steps) /\ (Parses(Tail(todo)) => Parses(todo))
    BY <1>1, ParsesTail
  <2>2. <<HandlerRuns>> \in Seq(Steps) /\ ~Parses(<<HandlerRuns>>)
    BY StepFacts, ParsesOne
  <2>3. QED BY <1>3, <2>1, <2>2, ParsesConcat
<1>7. UNCHANGED <<tunnel, queues, sockets, tunnelPending, buffer, redirects>>
  BY DEF CallHandler, HandlerReturns, bounds
<1>8. QED BY <1>1, <1>2, <1>5, <1>6, <1>7, QuietStepWaits

\* responseHandlerForHTTP_GET1, which only runs before the tunnel is open.
LEMMA HandlerForGETWaits ==
  ASSUME IInv, Waits, ~broken, HandlerForGET
  PROVE  Waits'
<1> DEFINE t == Tail(todo)
<1>1. todo \in Seq(Steps) /\ todo # <<>> BY DEF IInv, TypeOK, HandlerForGET, Doing
<1>2. OnGET /\ Working /\ (GETGood <=> Head(todo).good)
  BY <1>1 DEF HandlerForGET, Doing, OnGET, Working, Works, ForGET, GETGood
<1>3. todo \notin Seq(Plain)
  <2>1. Head(todo) \notin Plain BY <1>2 DEF OnGET, Plain
  <2>2. QED BY <1>1, <2>1
<1>4. TunnelFirst
  BY <1>3 DEF Waits, Direct, TunnelSecond, TunnelStuck, AllForSecond, TunnelOpen
<1>5. /\ t \in Seq(Quiet) /\ awaitingTunneling \in Seq(Commands)
      /\ awaitingConnection = <<>> /\ awaitingResponse = <<>>
  BY <1>1, <1>2, <1>4 DEF TunnelFirst, BeforeTunnel, QuietBehind
<1>6. tunnel' = tunnel /\ awaitingResponse' = <<>> /\ buffer' = buffer
  BY <1>5 DEF HandlerForGET
<1>7. CASE TunnelFails(t)
  <2>1. Errors(awaitingTunneling) \in Seq(Quiet) BY <1>5, EachFacts
  <2>2. /\ todo' = Errors(awaitingTunneling) \o t /\ awaitingTunneling' = <<>>
        /\ input' = "none" /\ output' = "same" /\ unanswered' = <<>>
        /\ ~tunnelPending' /\ awaitingConnection' = <<>>
    BY <1>5, <1>7 DEF TunnelFails, ResetTCPSockets
  <2> HIDE DEF t
  <2>3. todo' \in Seq(Quiet) BY <1>5, <2>1, <2>2, ConcatSeq
  <2>4. QuietBehind(todo') /\ ~Working' /\ ~OnGET' /\ ~GETSent' /\ ~GETGood'
    BY <2>3, QuietGoesOn
  <2>5. BeforeTunnel' BY <1>4, <1>6, <2>2, <2>4 DEF TunnelFirst, BeforeTunnel
  <2>6. TunnelFirst' BY <1>6, <2>2, <2>4, <2>5 DEF TunnelFirst
  <2>7. QED BY <2>6 DEF Waits
<1>8. CASE Head(todo).good /\ TunnelOpens(t)
  <2>1. input = "open" /\ awaitingTunneling # <<>>
    BY <1>2, <1>4, <1>8 DEF TunnelFirst
  <2>2. /\ awaitingTunneling' = <<>> /\ input' = "open" /\ unanswered' = unanswered
    BY <1>8, <2>1 DEF TunnelOpens
  <2>3. CASE /\ output' = "connecting" /\ tunnelPending' = TRUE
             /\ awaitingConnection' = awaitingConnection \o awaitingTunneling
             /\ todo' = t
    <3>1. awaitingConnection' = awaitingTunneling BY <1>5, <2>3
    <3>2. todo' \in Seq(Plain) /\ QuietBehind(todo') BY <1>5, <2>3, QuietIsPlain
    <3>3. BeforeTunnel' BY <1>4, <1>6, <2>2, <3>2 DEF TunnelFirst, BeforeTunnel
    <3>4. AllForSecond' BY <1>5, <1>6, <2>1, <2>2, <2>3, <3>1, <3>2, <3>3 DEF AllForSecond
    <3>5. TunnelSecond' BY <2>2, <2>3, <3>4 DEF TunnelSecond
    <3>6. QED BY <3>5 DEF Waits
  <2>4. CASE /\ output' = "own" /\ tunnelPending' = FALSE
             /\ todo' = Each("send", awaitingTunneling) \o t
             /\ awaitingConnection' = awaitingConnection
    <3>1. Each("send", awaitingTunneling) \in Seq(Plain) BY <1>5, EachFacts
    <3>2. t \in Seq(Plain) BY <1>5, QuietIsPlain
    <3> HIDE DEF t
    <3>3. todo' \in Seq(Plain) BY <2>4, <3>1, <3>2, ConcatSeq
    <3>4. awaitingResponse' \in Seq(Commands) /\ tunnel
      BY <1>4, <1>6 DEF TunnelFirst, BeforeTunnel
    <3>5. TunnelOpen' BY <1>5, <1>6, <2>2, <2>4, <3>3, <3>4 DEF TunnelOpen
    <3>6. QED BY <3>5 DEF Waits
  <2>5. QED BY <1>8, <2>3, <2>4 DEF TunnelOpens
<1>9. QED BY <1>7, <1>8 DEF HandlerForGET

-----------------------------------------------------------------------------
(* The connection *)

\* Between the handlers nothing is being done.
LEMMA IdleWaits ==
  ASSUME EventLoop
  PROVE  /\ todo = <<>> /\ ~broken /\ ~Working /\ ~OnGET /\ ~GETSent /\ ~GETGood
         /\ ~Parses(todo)
<1>1. todo = <<>> /\ ~broken BY DEF EventLoop
<1>2. ~Parses(todo) BY <1>1, ParsesOne
<1>3. QED BY <1>1, <1>2 DEF Working, OnGET, GETSent, GETGood

\* One step that is to send the request r, or to call its handler.
LEMMA OneStep ==
  ASSUME NEW r \in Requests, NEW e,
         e \in {Entry("send", r), Entry("resend", r), Call(r, Failure, FALSE)},
         todo' = <<e>>
  PROVE  /\ QuietBehind(todo') /\ (OnGET' <=> r = GET)
         /\ (GETSent' <=> r = GET /\ e.do # "call") /\ ~GETGood' /\ ~Parses(todo')
<1>1. e.req = r /\ e.do \in {"send", "resend", "call"} /\ (e.do = "call" => ~e.good)
  BY DEF Entry, Call
<1>2. todo' # <<>> /\ Head(todo') = e /\ Tail(todo') = <<>> OBVIOUS
<1>3. QuietBehind(todo')
  <2>1. <<>> \in Seq(Quiet) OBVIOUS
  <2>2. QED BY <1>2, <2>1 DEF QuietBehind
<1>4. ~Parses(todo') BY <1>1, ParsesOne
<1>5. QED BY <1>1, <1>2, <1>3, <1>4 DEF OnGET, GETSent, GETGood, ForGET

\* Nothing to do.
LEMMA NoStep ==
  ASSUME todo' = <<>>
  PROVE  /\ QuietBehind(todo') /\ ~Working' /\ ~OnGET' /\ ~GETSent' /\ ~GETGood'
         /\ todo' \in Seq(Plain) /\ ~Parses(todo')
<1>1. <<>> \in Seq(Quiet) OBVIOUS
<1>2. ~Parses(todo') BY ParsesOne
<1>3. QED BY <1>1, <1>2, QuietGoesOn

LEMMA QuietNeverParses ==
  ASSUME NEW q \in Seq(Requests)
  PROVE  ~Parses(Each("send", q)) /\ ~Parses(Errors(q))
BY IntendsEach

LEMMA ConnectionSucceedsWaits ==
  ASSUME IInv, Waits, ~broken, ConnectionSucceeds
  PROVE  Waits'
<1>1. /\ todo' = Each("send", awaitingConnection) /\ awaitingConnection' = <<>>
      /\ input' = "open" /\ ~tunnelPending'
      /\ tunnel' = tunnel /\ awaitingTunneling' = awaitingTunneling
      /\ awaitingResponse' = awaitingResponse /\ unanswered' = unanswered
      /\ buffer' = buffer /\ redirects' = redirects
  BY DEF ConnectionSucceeds, bounds
<1>2. /\ output = "connecting" => output' = "own"
      /\ output # "connecting" => output' = output
      /\ input = "connecting" \/ output = "connecting"
  BY DEF ConnectionSucceeds
<1>3. ~OnGET /\ awaitingConnection \in Seq(Requests)
  BY IdleWaits, QueueTypes DEF ConnectionSucceeds
<1>4. awaitingConnection \in Seq(Commands) => todo' \in Seq(Plain)
  BY <1>1, EachFacts
<1>5. CASE Direct
  <2>1. ~Parses(todo') BY <1>1, <1>3, QuietNeverParses
  <2>2. Direct' BY <1>1, <1>2, <1>4, <1>5, <2>1 DEF Direct
  <2>3. QED BY <2>2 DEF Waits
<1>6. CASE TunnelSecond
  <2>1. /\ tunnel /\ awaitingTunneling = <<>> /\ awaitingResponse = <<>>
        /\ todo' \in Seq(Plain)
    BY <1>4, <1>6 DEF TunnelSecond, AllForSecond, BeforeTunnel
  <2>2. TunnelOpen' BY <1>1, <1>2, <1>6, <2>1 DEF TunnelSecond, TunnelOpen
  <2>3. QED BY <2>2 DEF Waits
<1>7. CASE TunnelFirst
  <2>1. awaitingConnection # <<>> /\ awaitingResponse = <<>> /\ Len(awaitingConnection) = 1
    BY <1>2, <1>7 DEF TunnelFirst
  <2> DEFINE r == awaitingConnection[1]
  <2>2. awaitingConnection = <<r>> /\ r \in Requests BY <1>3, <2>1
  <2>3. todo' = <<Entry("send", r)>> BY <1>1, <2>1 DEF Each
  <2>4. Entry("send", r).do = "send" BY DEF Entry
  <2>5. awaitingConnection = <<GET>> <=> r = GET BY <2>2
  <2> HIDE DEF r
  <2>6. QuietBehind(todo') /\ (OnGET' <=> r = GET) /\ (GETSent' <=> r = GET) /\ ~GETGood'
    BY <2>2, <2>3, <2>4, OneStep
  <2>7. BeforeTunnel' BY <1>1, <1>7, <2>6 DEF TunnelFirst, BeforeTunnel
  <2>8. TunnelFirst' BY <1>1, <1>2, <1>3, <1>7, <2>1, <2>5, <2>6, <2>7 DEF TunnelFirst
  <2>9. QED BY <2>8 DEF Waits
<1>8. CASE TunnelStuck BY <1>2, <1>8 DEF TunnelStuck
<1>9. CASE TunnelOpen BY <1>2, <1>9 DEF TunnelOpen
<1>10. QED BY <1>5, <1>6, <1>7, <1>8, <1>9 DEF Waits

\* handleRequestError for the head of the queue, or for none.
LEMMA ErrorsOfNone == Errors(<<>>) = <<>>
BY DEF Errors

LEMMA ErrorsOfOne ==
  ASSUME NEW r
  PROVE  Errors(<<r>>) = <<Call(r, Failure, FALSE)>>
<1> DEFINE c == Call(r, Failure, FALSE)
           f == Errors(<<r>>)
<1>1. \A i \in 1..Len(<<r>>) : <<r>>[i] = r OBVIOUS
<1>2. \A i \in 1..Len(<<r>>) : Call(<<r>>[i], Failure, FALSE) = c
  <2> TAKE i \in 1..Len(<<r>>)
  <2>1. <<r>>[i] = r BY <1>1
  <2>2. QED BY <2>1
<1> HIDE DEF c
<1>3. f \in [1..1 -> {c}] BY <1>2 DEF Errors
<1> HIDE DEF f
<1>4. f = <<c>> BY <1>3
<1>5. QED BY <1>4 DEF f, c

LEMMA ConnectionFailsWaits ==
  ASSUME IInv, Waits, ~broken, ConnectionFails
  PROVE  Waits'
<1>1. /\ todo' = Errors(awaitingConnection) /\ awaitingConnection' = <<>>
      /\ input' = "none" /\ output' = "same" /\ unanswered' = <<>> /\ ~tunnelPending'
      /\ tunnel' = tunnel /\ awaitingTunneling' = awaitingTunneling
      /\ awaitingResponse' = awaitingResponse
      /\ buffer' = buffer /\ redirects' = redirects
      /\ input = "connecting" \/ output = "connecting"
  BY DEF ConnectionFails, ResetTCPSockets
<1>2. ~OnGET /\ awaitingConnection \in Seq(Requests)
  BY IdleWaits, QueueTypes DEF ConnectionFails
<1>3. awaitingConnection \in Seq(Commands) => todo' \in Seq(Quiet)
  BY <1>1, EachFacts
<1>4. CASE Direct
  <2>1. ~Parses(todo') BY <1>1, <1>2, QuietNeverParses
  <2>2. todo' \in Seq(Plain) BY <1>3, <1>4, QuietIsPlain DEF Direct
  <2>3. Direct' BY <1>1, <1>4, <2>1, <2>2 DEF Direct
  <2>4. QED BY <2>3 DEF Waits
<1>5. CASE TunnelSecond
  <2>1. /\ awaitingTunneling = <<>> /\ awaitingResponse = <<>> /\ BeforeTunnel
        /\ todo' \in Seq(Quiet)
    BY <1>3, <1>5 DEF TunnelSecond, AllForSecond
  <2>2. QuietBehind(todo') /\ ~Working' /\ ~OnGET' /\ ~GETSent' /\ ~GETGood'
    BY <2>1, QuietGoesOn
  <2>3. BeforeTunnel' BY <1>1, <2>1, <2>2 DEF BeforeTunnel
  <2>4. TunnelFirst' BY <1>1, <2>1, <2>2, <2>3 DEF TunnelFirst
  <2>5. QED BY <2>4 DEF Waits
<1>6. CASE TunnelFirst
  <2>1. awaitingConnection # <<>> /\ awaitingResponse = <<>> /\ Len(awaitingConnection) = 1
    BY <1>1, <1>6 DEF TunnelFirst
  <2> DEFINE r == awaitingConnection[1]
  <2>2. awaitingConnection = <<r>> /\ r \in Requests BY <1>2, <2>1
  <2>3. todo' = <<Call(r, Failure, FALSE)>> BY <1>1, <2>2, ErrorsOfOne
  <2>4. Call(r, Failure, FALSE).do = "call" BY DEF Call
  <2>5. awaitingConnection = <<GET>> <=> r = GET BY <2>2
  <2> HIDE DEF r
  <2>6. QuietBehind(todo') /\ (OnGET' <=> r = GET) /\ ~GETSent' /\ ~GETGood'
    BY <2>2, <2>3, <2>4, OneStep
  <2>7. BeforeTunnel' BY <1>1, <1>6, <2>6 DEF TunnelFirst, BeforeTunnel
  <2>8. TunnelFirst' BY <1>1, <1>2, <1>6, <2>1, <2>5, <2>6, <2>7 DEF TunnelFirst
  <2>9. QED BY <2>8 DEF Waits
<1>7. CASE TunnelStuck BY <1>1, <1>7 DEF TunnelStuck
<1>8. CASE TunnelOpen BY <1>1, <1>8 DEF TunnelOpen
<1>9. QED BY <1>4, <1>5, <1>6, <1>7, <1>8 DEF Waits

LEMMA ConnectionLostWaits ==
  ASSUME IInv, Waits, ~broken, ConnectionLost
  PROVE  Waits'
<1>1. /\ todo' = Errors(awaitingResponse) /\ awaitingResponse' = <<>>
      /\ input' = "none" /\ output' = "same" /\ unanswered' = <<>> /\ buffer' = <<>>
      /\ tunnelPending' = tunnelPending
      /\ tunnel' = tunnel /\ awaitingTunneling' = awaitingTunneling
      /\ awaitingConnection' = awaitingConnection /\ redirects' = redirects
      /\ input = "open"
  BY DEF ConnectionLost, ResetTCPSockets
<1>2. ~OnGET /\ awaitingResponse \in Seq(Requests)
  BY IdleWaits, QueueTypes DEF ConnectionLost
<1>3. awaitingResponse \in Seq(Commands) => todo' \in Seq(Quiet)
  BY <1>1, EachFacts
<1>4. <<>> \in Seq({GET}) /\ <<>> \in Seq(Unnumbered) /\ <<>> \in Seq(Commands) OBVIOUS
<1>5. CASE Direct
  <2>1. ~Parses(todo') BY <1>1, <1>2, QuietNeverParses
  <2>2. todo' \in Seq(Plain) BY <1>3, <1>5, QuietIsPlain DEF Direct
  <2>3. Direct' BY <1>1, <1>4, <1>5, <2>1, <2>2 DEF Direct
  <2>4. QED BY <2>3 DEF Waits
<1>6. CASE TunnelOpen
  <2>1. todo' \in Seq(Quiet) BY <1>3, <1>6 DEF TunnelOpen
  <2>2. QuietBehind(todo') /\ ~Working' /\ ~OnGET' /\ ~GETSent' /\ ~GETGood'
    BY <2>1, QuietGoesOn
  <2>3. BeforeTunnel' BY <1>1, <1>4, <1>6, <2>2 DEF TunnelOpen, BeforeTunnel
  <2>4. TunnelFirst' BY <1>1, <1>4, <1>6, <2>2, <2>3 DEF TunnelOpen, TunnelFirst
  <2>5. QED BY <2>4 DEF Waits
<1>7. CASE TunnelSecond
  <2>1. todo' = <<>> BY <1>1, <1>7, ErrorsOfNone DEF TunnelSecond, AllForSecond
  <2>2. QuietBehind(todo') /\ todo' \in Seq(Plain) BY <2>1, NoStep
  <2>3. BeforeTunnel'
    BY <1>1, <1>4, <1>7, <2>2 DEF TunnelSecond, AllForSecond, BeforeTunnel
  <2>4. TunnelStuck'
    BY <1>1, <1>7, <2>2, <2>3 DEF TunnelSecond, TunnelStuck, AllForSecond
  <2>5. QED BY <2>4 DEF Waits
<1>8. CASE TunnelFirst
  <2>1. awaitingConnection = <<>> BY <1>1, <1>8 DEF TunnelFirst
  <2>2. CASE awaitingResponse = <<>>
    <3>1. todo' = <<>> BY <1>1, <2>2, ErrorsOfNone
    <3>2. QuietBehind(todo') /\ ~Working' /\ ~OnGET' /\ ~GETSent' /\ ~GETGood'
      BY <3>1, NoStep
    <3>3. awaitingTunneling = <<>> BY <1>2, <1>8, <2>1, <2>2 DEF TunnelFirst
    <3>4. BeforeTunnel' BY <1>1, <1>4, <1>8, <3>2 DEF TunnelFirst, BeforeTunnel
    <3>5. TunnelFirst' BY <1>1, <1>8, <2>1, <3>2, <3>3, <3>4 DEF TunnelFirst
    <3>6. QED BY <3>5 DEF Waits
  <2>3. CASE awaitingResponse # <<>>
    <3>1. awaitingResponse = <<GET>> BY <1>8, <2>3 DEF TunnelFirst
    <3>2. todo' = <<Call(GET, Failure, FALSE)>> BY <1>1, <3>1, ErrorsOfOne
    <3>3. Call(GET, Failure, FALSE).do = "call" /\ GET \in Requests
      BY CommandFacts DEF Call
    <3>4. QuietBehind(todo') /\ OnGET' /\ ~GETSent' /\ ~GETGood'
      BY <3>2, <3>3, OneStep
    <3>5. BeforeTunnel' BY <1>1, <1>4, <1>8, <3>4 DEF TunnelFirst, BeforeTunnel
    <3>6. TunnelFirst' BY <1>1, <1>8, <2>1, <3>4, <3>5 DEF TunnelFirst
    <3>7. QED BY <3>6 DEF Waits
  <2>4. QED BY <2>2, <2>3
<1>9. CASE TunnelStuck BY <1>1, <1>9 DEF TunnelStuck
<1>10. QED BY <1>5, <1>6, <1>7, <1>8, <1>9 DEF Waits

-----------------------------------------------------------------------------
(* Responses *)

\* The loop over the responses is all there is to do.
LEMMA ParseStep ==
  ASSUME todo' = <<ParseFirst>>
  PROVE  /\ QuietBehind(todo') /\ ~Working' /\ ~OnGET' /\ ~GETSent' /\ ~GETGood'
         /\ todo' \in Seq(Plain)
<1>1. todo' \in Seq(Quiet) BY PlainFacts
<1>2. QED BY <1>1, QuietGoesOn

\* The answers to the GET have no CSeq.
LEMMA AnswersUnnumbered ==
  ASSUME IInv, unanswered \in Seq({GET}), NEW n \in 1..2, NEW codes \in [1..n -> Codes],
         n <= Len(unanswered)
  PROVE  Answers(n, codes) \in Seq(Unnumbered) /\ ServerRequest \in Unnumbered
<1>1. \A i \in 1..n : unanswered[i] = GET BY Z3
<1>2. \A c \in Codes : Response(GET, c) \in Unnumbered
  BY RtspClientAssumption, RequestFacts, CommandFacts
     DEF Response, Unnumbered, Responses
<1>3. Answers(n, codes) \in [1..n -> Unnumbered] BY <1>1, <1>2 DEF Answers
<1>4. ServerRequest \in Unnumbered
  BY RtspClientAssumption DEF ServerRequest, Unnumbered, Responses, Failure
<1>5. n \in Nat OBVIOUS
<1>6. QED BY <1>3, <1>4, <1>5

LEMMA ReadBeforeTunnel ==
  ASSUME IInv, BeforeTunnel, ReadResponses
  PROVE  BeforeTunnel'
<1>1. PICK n \in 1..2 : \E codes \in [1..n -> Codes] : Reads(n, codes)
  BY DEF ReadResponses, Reads, Answers
<1>2. PICK codes \in [1..n -> Codes] : Reads(n, codes) BY <1>1
<1> DEFINE a == Answers(n, codes)
           s == <<ServerRequest>>
<1>3. /\ n <= Len(unanswered)
      /\ buffer' = buffer \o a \/ buffer' = buffer \o s \o a
      /\ unanswered' \in {unanswered, SubSeq(unanswered, n + 1, Len(unanswered))}
  BY <1>2 DEF Reads
<1>4. unanswered \in Seq({GET}) /\ buffer \in Seq(Unnumbered) BY DEF BeforeTunnel
<1>5. a \in Seq(Unnumbered) /\ ServerRequest \in Unnumbered
  BY <1>3, <1>4, AnswersUnnumbered
<1> HIDE DEF a
<1>6. s \in Seq(Unnumbered) BY <1>5
<1> HIDE DEF s
<1>7. buffer' \in Seq(Unnumbered)
  <2>1. buffer \o a \in Seq(Unnumbered) BY <1>4, <1>5, ConcatSeq
  <2>2. buffer \o s \in Seq(Unnumbered) BY <1>4, <1>6, ConcatSeq
  <2>3. buffer \o s \o a \in Seq(Unnumbered) BY <1>5, <2>2, ConcatSeq
  <2>4. QED BY <1>3, <2>1, <2>3
<1>8. SubSeq(unanswered, n + 1, Len(unanswered)) \in Seq({GET}) BY <1>4
<1>9. unanswered' \in Seq({GET}) BY <1>3, <1>4, <1>8
<1>10. QuietBehind(todo') /\ tunnel' = tunnel BY ParseStep DEF ReadResponses
<1>11. QED BY <1>7, <1>9, <1>10 DEF BeforeTunnel

LEMMA RestBeforeTunnel ==
  ASSUME BeforeTunnel, ReadRest
  PROVE  BeforeTunnel'
<1>1. QuietBehind(todo') BY ParseStep DEF ReadRest
<1>2. QED BY <1>1 DEF ReadRest, BeforeTunnel, sockets

LEMMA ReadsWait ==
  ASSUME IInv, Waits, ~broken, ReadResponses \/ ReadRest
  PROVE  Waits'
<1>1. /\ todo' = <<ParseFirst>>
      /\ awaitingConnection' = awaitingConnection
      /\ awaitingTunneling' = awaitingTunneling
      /\ awaitingResponse' = awaitingResponse
      /\ tunnel' = tunnel /\ input' = input /\ output' = output
      /\ tunnelPending' = tunnelPending /\ redirects' = redirects
      /\ input = "open"
  BY DEF ReadResponses, ReadRest, queues, sockets, bounds
<1>1a. BeforeTunnel => BeforeTunnel' BY ReadBeforeTunnel, RestBeforeTunnel
<1>2. /\ QuietBehind(todo') /\ ~Working' /\ ~OnGET' /\ ~GETSent' /\ ~GETGood'
      /\ todo' \in Seq(Plain)
  BY <1>1, ParseStep
<1>3. ~OnGET BY IdleWaits DEF ReadResponses, ReadRest
<1>4. CASE Direct
  <2>1. Direct' BY <1>1, <1>2, <1>4 DEF Direct
  <2>2. QED BY <2>1 DEF Waits
<1>5. CASE TunnelFirst
  <2>1. BeforeTunnel' BY <1>1a, <1>5 DEF TunnelFirst
  <2>2. TunnelFirst' BY <1>1, <1>2, <1>3, <1>5, <2>1 DEF TunnelFirst
  <2>3. QED BY <2>2 DEF Waits
<1>6. CASE TunnelSecond
  <2>1. BeforeTunnel' BY <1>1a, <1>6 DEF TunnelSecond, AllForSecond
  <2>2. TunnelSecond' BY <1>1, <1>2, <1>6, <2>1 DEF TunnelSecond, AllForSecond
  <2>3. QED BY <2>2 DEF Waits
<1>7. CASE TunnelStuck BY <1>1, <1>7 DEF TunnelStuck
<1>8. CASE TunnelOpen
  <2>1. TunnelOpen' BY <1>1, <1>2, <1>8 DEF TunnelOpen
  <2>2. QED BY <2>1 DEF Waits
<1>9. QED BY <1>4, <1>5, <1>6, <1>7, <1>8 DEF Waits

LEMMA MoreIsQuiet ==
  ASSUME NEW b
  PROVE  More(b) \in Seq(Quiet)
<1>1. <<>> \in Seq(Quiet) /\ <<ParseMore>> \in Seq(Quiet) BY PlainFacts
<1>2. QED BY <1>1 DEF More

\* What is left of a queue of commands.
LEMMA RestOfQueue ==
  ASSUME NEW S, NEW q \in Seq(S), NEW k \in 1..Len(q) + 1
  PROVE  /\ SubSeq(q, k + 1, Len(q)) \in Seq(S) /\ SubSeq(q, k, Len(q)) \in Seq(S)
         /\ k >= Len(q) => SubSeq(q, k + 1, Len(q)) = <<>>
         /\ SubSeq(q, k + 1, Len(q)) # <<>> => q # <<>>
<1>1. Len(q) \in Nat /\ k \in Nat /\ 1 <= k OBVIOUS
<1>2. k >= Len(q) => SubSeq(q, k + 1, Len(q)) = <<>> BY <1>1
<1>3. SubSeq(q, k + 1, Len(q)) \in Seq(S)
  <2>1. CASE k >= Len(q) BY <1>2, <2>1
  <2>2. CASE k < Len(q) BY <1>1, <2>2
  <2>3. QED BY <1>1, <2>1, <2>2
<1>4. q = <<>> => k >= Len(q) BY <1>1
<1>5. SubSeq(q, k, Len(q)) \in Seq(S)
  <2>1. CASE k > Len(q) BY <1>1, <2>1
  <2>2. CASE k <= Len(q) BY <1>1, <2>2
  <2>3. QED BY <1>1, <2>1, <2>2
<1>6. QED BY <1>2, <1>3, <1>4, <1>5

\* The three ways the handling of a response can go.
Called(request, extra) ==
  /\ \E from \in 0..MaxRequests + 1 : \E ok \in BOOLEAN : \E m \in {<<>>, More(extra)} :
       todo' = <<Call(request, from, ok)>> \o m
  /\ buffer' \in {extra, <<>>, buffer}
  /\ UNCHANGED <<sockets, redirects>>

SentAgain(request) ==
  /\ \E r \in Requests : todo' = <<Entry("resend", r)>> /\ (r = GET <=> request = GET)
  /\ buffer' = <<>>

\* The request found by a turn that breaks off.
Told(request) ==
  /\ todo' = <<Call(request, Failure, FALSE)>>
  /\ buffer' = Left
  /\ UNCHANGED <<sockets, redirects>>

LEMMA HandleWays ==
  ASSUME IInv, NEW response \in Responses, NEW extra, NEW request \in Requests,
         Handle(response, extra, request) \/ Told(request)
  PROVE  \/ Called(request, extra)
         \/ /\ SentAgain(request) /\ redirects' = redirects
            /\ IF request = GET THEN ResetTCPSockets ELSE UNCHANGED sockets
         \/ /\ SentAgain(request) /\ redirects' = redirects + 1
            /\ response.code = "redirect" /\ ResetTCPSockets
<1> DEFINE renewed == IF request = GET THEN GET ELSE [request EXCEPT !.cseq = cseq + 1]
<1>1. renewed \in Requests /\ (renewed = GET <=> request = GET)
  <2>1. CASE request = GET BY <2>1
  <2>2. CASE request # GET
    <3>1. request \in Commands BY <2>2, CommandFacts
    <3>2. cseq \in Nat BY DEF IInv, TypeOK
    <3>3. renewed \in Commands BY <2>2, <3>1, <3>2 DEF Commands
    <3> HIDE DEF renewed
    <3>4. QED BY <2>2, <3>3, CommandFacts
  <2>3. QED BY <2>1, <2>2
<1>2. ASSUME NEW reset, Resend(request, reset)
      PROVE  /\ SentAgain(request)
             /\ IF reset THEN ResetTCPSockets ELSE UNCHANGED sockets
  <2>1. todo' = <<Entry("resend", renewed)>> /\ buffer' = <<>> BY <1>2 DEF Resend
  <2> HIDE DEF renewed
  <2>2. SentAgain(request) BY <1>1, <2>1 DEF SentAgain
  <2>3. QED BY <1>2, <2>2 DEF Resend
<1>3. response.id \in 0..MaxRequests + 1 /\ Failure \in 0..MaxRequests + 1
  BY StepFacts DEF Responses
<1>4. CASE /\ buffer' = extra
           /\ todo' = <<Call(request, response.id, response.code = "ok")>> \o More(extra)
           /\ UNCHANGED <<cseq, sockets, unchallenged, redirects>>
  <2>1. (response.code = "ok") \in BOOLEAN OBVIOUS
  <2>2. QED BY <1>3, <1>4, <2>1 DEF Called
<1>5. CASE /\ buffer' \in {extra, <<>>, buffer}
           /\ todo' = <<Call(request, Failure, FALSE)>>
           /\ UNCHANGED <<sockets, redirects>>
  <2> DEFINE c == Call(request, Failure, FALSE)
  <2> HIDE DEF c
  <2>1. <<c>> = <<c>> \o <<>>
    <3>1. <<c>> \in Seq({c}) /\ <<>> \in Seq({c}) OBVIOUS
    <3>2. QED BY <3>1
  <2>2. todo' = <<Call(request, Failure, FALSE)>> \o <<>> BY <1>5, <2>1 DEF c
  <2>3. FALSE \in BOOLEAN OBVIOUS
  <2>4. QED BY <1>3, <1>5, <2>2, <2>3 DEF Called
<1>6. CASE Resend(request, request = GET) /\ UNCHANGED redirects
  BY <1>2, <1>6
<1>7. CASE response.code = "redirect" /\ redirects' = redirects + 1 /\ Resend(request, TRUE)
  BY <1>2, <1>7
<1>8. CASE Told(request) BY <1>5, <1>8 DEF Told, Left
<1>9. QED BY <1>4, <1>5, <1>6, <1>7, <1>8 DEF Handle

LEMMA CalledSteps ==
  ASSUME NEW request \in Requests, NEW extra, Called(request, extra)
  PROVE  /\ QuietBehind(todo') /\ (OnGET' <=> request = GET) /\ ~GETSent'
         /\ request \in Commands => todo' \in Seq(Plain)
         /\ input' = input /\ output' = output /\ unanswered' = unanswered
         /\ redirects' = redirects
<1>1. PICK from \in 0..MaxRequests + 1, ok \in BOOLEAN, m \in {<<>>, More(extra)} :
        todo' = <<Call(request, from, ok)>> \o m
  BY DEF Called
<1>2. m \in Seq(Quiet)
  <2>1. <<>> \in Seq(Quiet) OBVIOUS
  <2>2. QED BY <2>1, MoreIsQuiet
<1> DEFINE c == Call(request, from, ok)
<1>3. c.do = "call" /\ c.req = request BY DEF Call
<1>4. request \in Commands => c \in Quiet BY PlainFacts
<1> HIDE DEF c
<1>5. todo' # <<>> /\ Head(todo') = c /\ Tail(todo') = m /\ (c \in Quiet => todo' \in Seq(Quiet))
  BY <1>1, <1>2, FrontOne DEF c
<1>6. QuietBehind(todo') BY <1>2, <1>5 DEF QuietBehind
<1>7. (OnGET' <=> request = GET) /\ ~GETSent'
  BY <1>3, <1>5 DEF OnGET, GETSent, ForGET
<1>8. request \in Commands => todo' \in Seq(Plain) BY <1>4, <1>5, QuietIsPlain
<1>9. QED BY <1>6, <1>7, <1>8 DEF Called, sockets

LEMMA SentAgainSteps ==
  ASSUME NEW request \in Requests, SentAgain(request)
  PROVE  /\ QuietBehind(todo') /\ (OnGET' <=> request = GET) /\ ~GETGood'
         /\ (GETSent' <=> request = GET) /\ ~Parses(todo')
         /\ request \in Commands => todo' \in Seq(Plain)
         /\ buffer' = <<>>
<1>1. PICK r \in Requests : todo' = <<Entry("resend", r)>> /\ (r = GET <=> request = GET)
  BY DEF SentAgain
<1>2. Entry("resend", r).do = "resend" BY DEF Entry
<1>3. /\ QuietBehind(todo') /\ (OnGET' <=> r = GET)
      /\ (GETSent' <=> r = GET) /\ ~GETGood' /\ ~Parses(todo')
  BY <1>1, <1>2, OneStep
<1>4. ASSUME request \in Commands PROVE todo' \in Seq(Plain)
  <2>1. r \in Commands BY <1>1, <1>4, CommandFacts
  <2>2. Entry("resend", r) \in Plain BY <2>1, PlainFacts
  <2>3. QED BY <1>1, <2>2
<1>5. QED BY <1>1, <1>3, <1>4 DEF SentAgain

\* One turn of the loop: what it does with a response.
ParseEnds ==
  todo' = <<>> /\ buffer' = Left /\ UNCHANGED <<awaitingResponse, sockets, redirects>>

Passed(k) ==
  /\ awaitingResponse' = SubSeq(awaitingResponse, k, Len(awaitingResponse))
  /\ todo' = <<>> /\ buffer' = Left
  /\ UNCHANGED <<sockets, redirects>>

Ignored(k) ==
  /\ k > Len(awaitingResponse)
  /\ awaitingResponse' = SubSeq(awaitingResponse, k + 1, Len(awaitingResponse))
  /\ todo' = More(Tail(buffer)) /\ buffer' = Tail(buffer)
  /\ UNCHANGED <<sockets, redirects>>

Found(k) ==
  /\ k <= Len(awaitingResponse)
  /\ awaitingResponse' = SubSeq(awaitingResponse, k + 1, Len(awaitingResponse))
  /\ \/ Handle(Head(buffer), Tail(buffer), awaitingResponse[k])
     \/ Told(awaitingResponse[k])

LEMMA ParseWays ==
  ASSUME IInv, ParseResponse
  PROVE  /\ \/ ParseEnds
            \/ Passed(TakenFor(Head(buffer).cseq))
            \/ Ignored(TakenFor(Head(buffer).cseq))
            \/ Found(TakenFor(Head(buffer).cseq))
         /\ UNCHANGED <<tunnel, awaitingConnection, awaitingTunneling, tunnelPending>>
         /\ ~OnGET /\ ~Working /\ Parses(todo) /\ buffer # <<>>
         /\ Head(buffer) \in Responses /\ Tail(buffer) \in Seq(Responses)
<1>1. Doing("parse") BY DEF ParseResponse
<1>2. todo # <<>> /\ Head(todo).do = "parse" /\ todo \in Seq(Steps)
  BY <1>1 DEF Doing, IInv, TypeOK
<1>3. ~OnGET /\ ~Working BY <1>2 DEF OnGET, Working, Works, ForGET
<1>4. Parses(todo) BY <1>2, ParsesTail
<1>5. buffer # <<>> /\ buffer \in Seq(Responses) BY <1>1, ParseFacts DEF IInv, TypeOK
<1>6. Head(buffer) \in Responses /\ Tail(buffer) \in Seq(Responses) BY <1>5
<1>7. \/ ParseEnds
      \/ Passed(TakenFor(Head(buffer).cseq))
      \/ Ignored(TakenFor(Head(buffer).cseq))
      \/ Found(TakenFor(Head(buffer).cseq))
  <2> DEFINE k == TakenFor(Head(buffer).cseq)
  <2>1. ASSUME BreakOff, UNCHANGED <<sockets, redirects>> PROVE ParseEnds
    BY <2>1 DEF BreakOff, ParseEnds
  <2>2. ASSUME BreakOffLate(Head(buffer), k), UNCHANGED <<sockets, redirects>>
        PROVE  Passed(k) \/ Found(k)
    BY <2>2 DEF BreakOffLate, Passed, Found, Told, Pass, Take
  <2>3. ASSUME ParseWhole(Head(buffer), Tail(buffer), k) PROVE Ignored(k) \/ Found(k)
    BY <2>3 DEF ParseWhole, Ignored, Found, Take
  <2>4. QED BY <2>1, <2>2, <2>3 DEF ParseResponse
<1>8. UNCHANGED <<tunnel, awaitingConnection, awaitingTunneling, tunnelPending>>
  BY DEF ParseResponse
<1>9. QED BY <1>3, <1>4, <1>5, <1>6, <1>7, <1>8

\* The scan takes a request of the queue, or all of it.
LEMMA TakenRest ==
  ASSUME IInv, NEW c, NEW S, awaitingResponse \in Seq(S)
  PROVE  /\ TakenFor(c) \in Nat /\ TakenFor(c) >= 1
         /\ SubSeq(awaitingResponse, TakenFor(c) + 1, Len(awaitingResponse)) \in Seq(S)
         /\ SubSeq(awaitingResponse, TakenFor(c), Len(awaitingResponse)) \in Seq(S)
         /\ TakenFor(c) >= Len(awaitingResponse) =>
              SubSeq(awaitingResponse, TakenFor(c) + 1, Len(awaitingResponse)) = <<>>
         /\ SubSeq(awaitingResponse, TakenFor(c) + 1, Len(awaitingResponse)) # <<>>
              => awaitingResponse # <<>>
         /\ TakenFor(c) <= Len(awaitingResponse) =>
              awaitingResponse[TakenFor(c)] \in S
<1> DEFINE k == TakenFor(c)
<1>1. k \in 1..Len(awaitingResponse) + 1 /\ Len(awaitingResponse) \in Nat
  BY TakenRange, QueueTypes
<1> HIDE DEF k
<1>2. /\ SubSeq(awaitingResponse, k + 1, Len(awaitingResponse)) \in Seq(S)
      /\ SubSeq(awaitingResponse, k, Len(awaitingResponse)) \in Seq(S)
      /\ k >= Len(awaitingResponse) =>
           SubSeq(awaitingResponse, k + 1, Len(awaitingResponse)) = <<>>
      /\ SubSeq(awaitingResponse, k + 1, Len(awaitingResponse)) # <<>>
           => awaitingResponse # <<>>
  BY <1>1, RestOfQueue
<1>3. k <= Len(awaitingResponse) => awaitingResponse[k] \in S BY <1>1
<1>4. QED BY <1>1, <1>2, <1>3 DEF k

LEMMA DirectParses ==
  ASSUME IInv, Direct, ParseResponse
  PROVE  Direct'
<1> DEFINE k == TakenFor(Head(buffer).cseq)
           b == Head(buffer)
           request == awaitingResponse[k]
<1>1. /\ ParseEnds \/ Passed(k) \/ Ignored(k) \/ Found(k)
      /\ tunnel' = tunnel /\ awaitingConnection' = awaitingConnection
      /\ awaitingTunneling' = awaitingTunneling /\ tunnelPending' = tunnelPending
      /\ Parses(todo) /\ b \in Responses
  BY ParseWays
<1>2. awaitingResponse \in Seq(Commands) /\ input = "open" /\ awaitingConnection = <<>>
  BY <1>1 DEF Direct
<1>3. /\ k \in Nat /\ k >= 1
      /\ SubSeq(awaitingResponse, k + 1, Len(awaitingResponse)) \in Seq(Commands)
      /\ SubSeq(awaitingResponse, k, Len(awaitingResponse)) \in Seq(Commands)
      /\ k <= Len(awaitingResponse) => request \in Commands
  BY <1>2, TakenRest
<1> HIDE DEF k, b
<1>4. CASE ParseEnds
  <2>1. todo' \in Seq(Plain) BY <1>4, NoStep DEF ParseEnds
  <2>2. QED BY <1>1, <1>2, <1>4, <2>1 DEF ParseEnds, Direct, sockets
<1>4a. CASE Passed(k)
  <2>1. todo' \in Seq(Plain) BY <1>4a, NoStep DEF Passed
  <2>2. awaitingResponse' \in Seq(Commands) BY <1>3, <1>4a DEF Passed
  <2>3. QED BY <1>1, <1>2, <1>4a, <2>1, <2>2 DEF Passed, Direct, sockets
<1>5. CASE Ignored(k)
  <2>1. todo' \in Seq(Plain) BY <1>5, MoreIsQuiet, QuietIsPlain DEF Ignored
  <2>2. input' = input /\ output' = output /\ redirects' = redirects
    BY <1>5 DEF Ignored, sockets
  <2>3. awaitingResponse' \in Seq(Commands) BY <1>3, <1>5 DEF Ignored
  <2>4. QED BY <1>1, <1>2, <2>1, <2>2, <2>3 DEF Direct
<1>6. CASE Found(k)
  <2>1. /\ awaitingResponse' \in Seq(Commands) /\ request \in Commands
        /\ Handle(b, Tail(buffer), request) \/ Told(request)
    BY <1>3, <1>6 DEF Found, b
  <2>2. request \in Requests /\ request # GET BY <2>1, CommandFacts
  <2> HIDE DEF request
  <2>3. CASE Called(request, Tail(buffer))
    <3>1. /\ todo' \in Seq(Plain) /\ input' = input /\ output' = output
          /\ redirects' = redirects
      BY <2>1, <2>2, <2>3, CalledSteps
    <3>2. QED BY <1>1, <1>2, <2>1, <3>1 DEF Direct
  <2>4. CASE SentAgain(request) /\ redirects' = redirects /\ UNCHANGED sockets
    <3>1. todo' \in Seq(Plain) BY <2>1, <2>2, <2>4, SentAgainSteps
    <3>2. input' = input /\ output' = output BY <2>4 DEF sockets
    <3>3. QED BY <1>1, <1>2, <2>1, <2>4, <3>1, <3>2 DEF Direct
  <2>5. CASE SentAgain(request) /\ redirects' = redirects + 1 /\ ResetTCPSockets
    <3>1. todo' \in Seq(Plain) /\ ~Parses(todo')
      BY <2>1, <2>2, <2>5, SentAgainSteps
    <3>2. input' = "none" /\ output' = "same" BY <2>5 DEF ResetTCPSockets
    <3>3. redirects' # 0 BY <2>5 DEF IInv, TypeOK
    <3>4. QED BY <1>1, <1>2, <2>1, <3>1, <3>2, <3>3 DEF Direct
  <2>6. QED BY <1>1, <2>1, <2>2, <2>3, <2>4, <2>5, HandleWays
<1>7. QED BY <1>1, <1>4, <1>4a, <1>5, <1>6

\* Before the tunnel is open the only response handled is that to the GET.
LEMMA FirstParses ==
  ASSUME IInv, TunnelFirst, ParseResponse
  PROVE  TunnelFirst'
<1> DEFINE k == TakenFor(Head(buffer).cseq)
           b == Head(buffer)
<1>1. /\ ParseEnds \/ Passed(k) \/ Ignored(k) \/ Found(k)
      /\ tunnel' = tunnel /\ awaitingConnection' = awaitingConnection
      /\ awaitingTunneling' = awaitingTunneling /\ tunnelPending' = tunnelPending
      /\ ~OnGET /\ b \in Responses /\ buffer # <<>>
  BY ParseWays
<1>2. unanswered \in Seq({GET}) /\ buffer \in Seq(Unnumbered) /\ tunnel
  BY DEF TunnelFirst, BeforeTunnel
<1>3. b.cseq = 0 /\ Tail(buffer) \in Seq(Unnumbered) BY <1>1, <1>2 DEF Unnumbered
<1>4. k = 1 BY <1>3 DEF TakenFor
<1>5. <<>> \in Seq({GET}) /\ <<>> \in Seq(Unnumbered) OBVIOUS
<1> HIDE DEF k, b
<1>5a. Left \in Seq(Unnumbered) BY <1>2, <1>5 DEF Left
<1>6. CASE ParseEnds \/ Passed(k)
  <2>1. /\ todo' = <<>> /\ buffer' = Left /\ awaitingResponse' = awaitingResponse
        /\ input' = input /\ output' = output /\ unanswered' = unanswered
    <3>1. SubSeq(awaitingResponse, 1, Len(awaitingResponse)) = awaitingResponse
      BY QueueTypes
    <3>2. QED BY <1>4, <1>6, <3>1 DEF ParseEnds, Passed, sockets
  <2>2. QuietBehind(todo') /\ ~Working' /\ ~OnGET' /\ ~GETSent' /\ ~GETGood'
    BY <2>1, NoStep
  <2>3. BeforeTunnel' BY <1>1, <1>2, <1>5a, <2>1, <2>2 DEF BeforeTunnel
  <2>4. QED BY <1>1, <2>1, <2>2, <2>3 DEF TunnelFirst
<1>7. CASE Ignored(k)
  <2>1. awaitingResponse = <<>> /\ awaitingResponse' = <<>>
    <3>1. Len(awaitingResponse) \in Nat /\ awaitingResponse \in Seq(Requests)
      BY QueueTypes
    <3>2. Len(awaitingResponse) = 0 BY <1>4, <1>7, <3>1 DEF Ignored
    <3>3. awaitingResponse = <<>> BY <3>1, <3>2
    <3>4. awaitingResponse' = SubSeq(awaitingResponse, 2, Len(awaitingResponse))
      BY <1>4, <1>7 DEF Ignored
    <3>5. QED BY <3>3, <3>4
  <2>2. /\ buffer' = Tail(buffer) /\ input' = input /\ output' = output
        /\ unanswered' = unanswered
    BY <1>7 DEF Ignored, sockets
  <2>3. QuietBehind(todo') /\ ~Working' /\ ~OnGET' /\ ~GETSent' /\ ~GETGood'
    BY <1>7, MoreIsQuiet, QuietGoesOn DEF Ignored
  <2>4. BeforeTunnel' BY <1>1, <1>2, <1>3, <2>2, <2>3 DEF BeforeTunnel
  <2>5. QED BY <1>1, <2>1, <2>2, <2>3, <2>4 DEF TunnelFirst
<1>8. CASE Found(k)
  <2>1. /\ awaitingResponse = <<GET>> /\ awaitingResponse' = <<>>
        /\ Handle(b, Tail(buffer), GET) \/ Told(GET)
    <3>1. Len(awaitingResponse) >= 1 BY <1>4, <1>8 DEF Found
    <3>2. awaitingResponse = <<GET>> BY <3>1 DEF TunnelFirst
    <3>3. /\ awaitingResponse' = SubSeq(awaitingResponse, 2, Len(awaitingResponse))
          /\ Handle(b, Tail(buffer), awaitingResponse[1]) \/ Told(awaitingResponse[1])
      BY <1>4, <1>8 DEF Found, b
    <3>4. QED BY <3>2, <3>3
  <2>2. /\ input = "open" /\ awaitingConnection = <<>> /\ awaitingTunneling # <<>>
        /\ awaitingTunneling \in Seq(Commands)
    BY <2>1 DEF TunnelFirst
  <2>3. GET \in Requests BY CommandFacts
  <2>4. CASE Called(GET, Tail(buffer))
    <3>1. QuietBehind(todo') /\ OnGET' /\ input' = input /\ output' = output
          /\ unanswered' = unanswered
      BY <2>3, <2>4, CalledSteps
    <3>2. buffer' \in Seq(Unnumbered) BY <1>2, <1>3, <1>5, <2>4 DEF Called
    <3>3. BeforeTunnel' BY <1>1, <1>2, <3>1, <3>2 DEF BeforeTunnel
    <3>4. QED BY <1>1, <2>1, <2>2, <3>1, <3>3 DEF TunnelFirst
  <2>5. CASE SentAgain(GET) /\ ResetTCPSockets
    <3>1. QuietBehind(todo') /\ OnGET' /\ ~GETGood' /\ buffer' = <<>>
      BY <2>3, <2>5, SentAgainSteps
    <3>2. input' = "none" /\ output' = "same" /\ unanswered' = <<>>
      BY <2>5 DEF ResetTCPSockets
    <3>3. BeforeTunnel' BY <1>1, <1>2, <1>5, <3>1, <3>2 DEF BeforeTunnel
    <3>4. QED BY <1>1, <2>1, <2>2, <3>1, <3>2, <3>3 DEF TunnelFirst
  <2>6. QED BY <1>1, <2>1, <2>3, <2>4, <2>5, HandleWays
<1>9. QED BY <1>1, <1>6, <1>7, <1>8

\* While the second connection is pending no response is awaited.
LEMMA SecondParses ==
  ASSUME IInv, AllForSecond, ParseResponse
  PROVE  AllForSecond' /\ input' = input /\ output' = output
<1> DEFINE k == TakenFor(Head(buffer).cseq)
           b == Head(buffer)
<1>1. /\ ParseEnds \/ Passed(k) \/ Ignored(k) \/ Found(k)
      /\ tunnel' = tunnel /\ awaitingConnection' = awaitingConnection
      /\ awaitingTunneling' = awaitingTunneling /\ tunnelPending' = tunnelPending
      /\ buffer # <<>>
  BY ParseWays
<1>2. /\ unanswered \in Seq({GET}) /\ buffer \in Seq(Unnumbered) /\ tunnel
      /\ awaitingResponse = <<>>
  BY DEF AllForSecond, BeforeTunnel
<1>3. b.cseq = 0 /\ Tail(buffer) \in Seq(Unnumbered) BY <1>1, <1>2 DEF Unnumbered
<1>4. k = 1 BY <1>3 DEF TakenFor
<1> HIDE DEF k
<1>5. ~Found(k) BY <1>2, <1>4 DEF Found
<1>6. /\ awaitingResponse' = <<>> /\ todo' \in Seq(Quiet) /\ buffer' \in Seq(Unnumbered)
      /\ input' = input /\ output' = output /\ unanswered' = unanswered
  <2>1. CASE ParseEnds \/ Passed(k)
    <3>1. <<>> \in Seq(Quiet) /\ <<>> \in Seq(Unnumbered) OBVIOUS
    <3>2. Left \in Seq(Unnumbered) BY <1>2, <3>1 DEF Left
    <3>3. SubSeq(<<>>, 1, Len(<<>>)) = <<>> OBVIOUS
    <3>4. awaitingResponse' = <<>> BY <1>2, <1>4, <2>1, <3>3 DEF ParseEnds, Passed
    <3>5. QED BY <2>1, <3>1, <3>2, <3>4 DEF ParseEnds, Passed, sockets
  <2>2. CASE Ignored(k)
    <3>1. awaitingResponse' = SubSeq(awaitingResponse, 2, Len(awaitingResponse))
      BY <1>4, <2>2 DEF Ignored
    <3>2. awaitingResponse' = <<>> BY <1>2, <3>1
    <3>3. QED BY <1>3, <2>2, <3>2, MoreIsQuiet DEF Ignored, sockets
  <2>3. QED BY <1>1, <1>5, <2>1, <2>2
<1>7. QuietBehind(todo') /\ todo' \in Seq(Plain) BY <1>6, QuietIsPlain
<1>8. BeforeTunnel' BY <1>1, <1>2, <1>6, <1>7 DEF BeforeTunnel
<1>9. QED BY <1>1, <1>6, <1>7, <1>8 DEF AllForSecond

LEMMA OpenParses ==
  ASSUME IInv, RedirectAlone, ~broken, TunnelOpen, ParseResponse
  PROVE  TunnelOpen' \/ TunnelFirst'
<1> DEFINE k == TakenFor(Head(buffer).cseq)
           b == Head(buffer)
           request == awaitingResponse[k]
<1>1. /\ ParseEnds \/ Passed(k) \/ Ignored(k) \/ Found(k)
      /\ tunnel' = tunnel /\ awaitingConnection' = awaitingConnection
      /\ awaitingTunneling' = awaitingTunneling /\ tunnelPending' = tunnelPending
      /\ b \in Responses /\ buffer # <<>>
  BY ParseWays
<1>2. /\ awaitingResponse \in Seq(Commands) /\ input = "open" /\ output = "own" /\ tunnel
      /\ awaitingConnection = <<>> /\ awaitingTunneling = <<>> /\ ~tunnelPending
  BY DEF TunnelOpen
<1>3. /\ k \in Nat /\ k >= 1
      /\ SubSeq(awaitingResponse, k + 1, Len(awaitingResponse)) \in Seq(Commands)
      /\ SubSeq(awaitingResponse, k, Len(awaitingResponse)) \in Seq(Commands)
      /\ k >= Len(awaitingResponse) =>
           SubSeq(awaitingResponse, k + 1, Len(awaitingResponse)) = <<>>
      /\ k <= Len(awaitingResponse) => request \in Commands
  BY <1>2, TakenRest
<1>4. b.code = "redirect" => Len(awaitingResponse) = 1
  <2>1. buffer \in Seq(Responses) /\ 1 \in 1..Len(buffer) /\ b = buffer[1]
    BY <1>1 DEF IInv, TypeOK
  <2>2. QED BY <1>2, <2>1 DEF RedirectAlone
<1> HIDE DEF k, b
<1>5. CASE ParseEnds
  <2>1. todo' \in Seq(Plain) BY <1>5, NoStep DEF ParseEnds
  <2>2. QED BY <1>1, <1>2, <1>5, <2>1 DEF ParseEnds, TunnelOpen, sockets
<1>5a. CASE Passed(k)
  <2>1. todo' \in Seq(Plain) BY <1>5a, NoStep DEF Passed
  <2>2. awaitingResponse' \in Seq(Commands) BY <1>3, <1>5a DEF Passed
  <2>3. QED BY <1>1, <1>2, <1>5a, <2>1, <2>2 DEF Passed, TunnelOpen, sockets
<1>6. CASE Ignored(k)
  <2>1. todo' \in Seq(Plain) BY <1>6, MoreIsQuiet, QuietIsPlain DEF Ignored
  <2>2. input' = input /\ output' = output BY <1>6 DEF Ignored, sockets
  <2>3. awaitingResponse' \in Seq(Commands) BY <1>3, <1>6 DEF Ignored
  <2>4. QED BY <1>1, <1>2, <2>1, <2>2, <2>3 DEF TunnelOpen
<1>7. CASE Found(k)
  <2>1. /\ awaitingResponse' \in Seq(Commands) /\ request \in Commands
        /\ Handle(b, Tail(buffer), request) \/ Told(request)
    BY <1>3, <1>7 DEF Found, b
  <2>2. request \in Requests /\ request # GET BY <2>1, CommandFacts
  <2> HIDE DEF request
  <2>3. CASE Called(request, Tail(buffer))
    <3>1. todo' \in Seq(Plain) /\ input' = input /\ output' = output
      BY <2>1, <2>2, <2>3, CalledSteps
    <3>2. QED BY <1>1, <1>2, <2>1, <3>1 DEF TunnelOpen
  <2>4. CASE SentAgain(request) /\ UNCHANGED sockets
    <3>1. todo' \in Seq(Plain) BY <2>1, <2>2, <2>4, SentAgainSteps
    <3>2. input' = input /\ output' = output BY <2>4 DEF sockets
    <3>3. QED BY <1>1, <1>2, <2>1, <3>1, <3>2 DEF TunnelOpen
  <2>5. CASE SentAgain(request) /\ b.code = "redirect" /\ ResetTCPSockets
    <3>1. QuietBehind(todo') /\ ~OnGET' /\ ~GETSent' /\ ~GETGood' /\ buffer' = <<>>
      BY <2>2, <2>5, SentAgainSteps
    <3>2. input' = "none" /\ output' = "same" /\ unanswered' = <<>>
      BY <2>5 DEF ResetTCPSockets
    <3>3. awaitingResponse' = <<>> BY <1>3, <1>4, <1>7, <2>5 DEF Found
    <3>4. <<>> \in Seq({GET}) /\ <<>> \in Seq(Unnumbered) /\ <<>> \in Seq(Commands)
      OBVIOUS
    <3>5. BeforeTunnel' BY <1>1, <1>2, <3>1, <3>2, <3>4 DEF BeforeTunnel
    <3>6. TunnelFirst' BY <1>1, <1>2, <3>1, <3>2, <3>3, <3>4, <3>5 DEF TunnelFirst
    <3>7. QED BY <3>6
  <2>6. QED BY <1>1, <2>1, <2>2, <2>3, <2>4, <2>5, HandleWays
<1>8. QED BY <1>1, <1>5, <1>5a, <1>6, <1>7

LEMMA ParseResponseWaits ==
  ASSUME IInv, Waits, RedirectAlone, ~broken, ParseResponse
  PROVE  Waits'
<1>1. TunnelSecond => TunnelSecond' BY SecondParses DEF TunnelSecond
<1>2. TunnelStuck => TunnelStuck' BY SecondParses DEF TunnelStuck
<1>3. QED BY <1>1, <1>2, DirectParses, FirstParses, OpenParses DEF Waits

LEMMA ReadHeadersWaits ==
  ASSUME IInv, Waits, ~broken, ReadHeaders
  PROVE  Waits'
<1> DEFINE c == Response(Head(unanswered), "ok").cseq
           k == TakenFor(c)
<1>1. /\ todo' = todo /\ todo = <<>> /\ buffer' = buffer /\ unanswered' = unanswered
      /\ awaitingConnection' = awaitingConnection
      /\ awaitingTunneling' = awaitingTunneling
      /\ tunnel' = tunnel /\ input' = input /\ output' = output
      /\ tunnelPending' = tunnelPending /\ redirects' = redirects
      /\ input = "open" /\ unanswered # <<>> /\ k > 1
      /\ awaitingResponse' = SubSeq(awaitingResponse, k, Len(awaitingResponse))
  BY DEF ReadHeaders, Pass, EventLoop, sockets, bounds
<1>2. ASSUME BeforeTunnel PROVE FALSE
  <2>1. Head(unanswered) = GET BY <1>1, <1>2 DEF BeforeTunnel
  <2>2. c = 0 BY <2>1 DEF Response
  <2>3. k = 1 BY <2>2 DEF TakenFor
  <2>4. QED BY <1>1, <2>3
<1>3. ASSUME awaitingResponse \in Seq(Commands) PROVE awaitingResponse' \in Seq(Commands)
  <2>1. k \in 1..Len(awaitingResponse) + 1 BY TakenRange
  <2> HIDE DEF k
  <2>2. SubSeq(awaitingResponse, (k - 1) + 1, Len(awaitingResponse)) \in Seq(Commands)
    <3>1. k - 1 \in 1..Len(awaitingResponse) + 1 BY <1>1, <1>3, <2>1
    <3>2. QED BY <1>3, <3>1, RestOfQueue
  <2>3. (k - 1) + 1 = k BY <2>1
  <2>4. QED BY <1>1, <2>2, <2>3
<1> HIDE DEF k
<1>4. CASE Direct
  <2>1. Direct' BY <1>1, <1>3, <1>4 DEF Direct
  <2>2. QED BY <2>1 DEF Waits
<1>5. CASE TunnelOpen
  <2>1. TunnelOpen' BY <1>1, <1>3, <1>5 DEF TunnelOpen
  <2>2. QED BY <2>1 DEF Waits
<1>6. QED
  BY <1>2, <1>4, <1>5 DEF Waits, TunnelFirst, TunnelSecond, TunnelStuck, AllForSecond

LEMMA ResponseTruncatedWaits ==
  ASSUME IInv, Waits, ~broken, ResponseTruncated
  PROVE  Waits'
<1>1. /\ todo = <<>> /\ buffer' = <<>> /\ unanswered' = Tail(unanswered)
      /\ unanswered # <<>>
      /\ awaitingConnection' = awaitingConnection
      /\ awaitingTunneling' = awaitingTunneling
      /\ tunnel' = tunnel /\ input' = input /\ output' = output
      /\ tunnelPending' = tunnelPending /\ redirects' = redirects
      /\ input = "open"
      /\ awaitingResponse' = SubSeq(awaitingResponse, 2, Len(awaitingResponse))
      /\ awaitingResponse = <<>> => todo' = <<>>
      /\ awaitingResponse # <<>> => todo' = Errors(<<Head(awaitingResponse)>>)
  BY DEF ResponseTruncated, EventLoop, Take
<1>2. ~OnGET BY IdleWaits DEF ResponseTruncated
<1>3. ASSUME awaitingResponse \in Seq(Commands)
      PROVE  awaitingResponse' \in Seq(Commands) /\ todo' \in Seq(Quiet)
  <2>1. 1 \in 1..Len(awaitingResponse) + 1 BY <1>3
  <2>2. SubSeq(awaitingResponse, 1 + 1, Len(awaitingResponse)) \in Seq(Commands)
    BY <1>3, <2>1, RestOfQueue
  <2>3. CASE awaitingResponse = <<>>
    <3>1. <<>> \in Seq(Quiet) OBVIOUS
    <3>2. QED BY <1>1, <2>2, <2>3, <3>1
  <2>4. CASE awaitingResponse # <<>>
    <3> DEFINE q == <<Head(awaitingResponse)>>
    <3>1. q \in Seq(Commands) /\ todo' = Errors(q) BY <1>1, <1>3, <2>4
    <3> HIDE DEF q
    <3>2. todo' \in Seq(Quiet) BY <3>1, EachFacts
    <3>3. QED BY <1>1, <2>2, <3>2
  <2>5. QED BY <2>3, <2>4
<1>4. CASE Direct
  <2>1. todo' \in Seq(Plain) BY <1>3, <1>4, QuietIsPlain DEF Direct
  <2>2. Direct' BY <1>1, <1>3, <1>4, <2>1 DEF Direct
  <2>3. QED BY <2>2 DEF Waits
<1>5. CASE TunnelOpen
  <2>1. todo' \in Seq(Plain) BY <1>3, <1>5, QuietIsPlain DEF TunnelOpen
  <2>2. TunnelOpen' BY <1>1, <1>3, <1>5, <2>1 DEF TunnelOpen
  <2>3. QED BY <2>2 DEF Waits
<1>6. ASSUME BeforeTunnel, QuietBehind(todo') PROVE BeforeTunnel'
  <2>1. Tail(unanswered) \in Seq({GET}) /\ <<>> \in Seq(Unnumbered)
    BY <1>1, <1>6 DEF BeforeTunnel
  <2>2. QED BY <1>1, <1>6, <2>1 DEF BeforeTunnel
<1>7. ASSUME awaitingResponse = <<>>
      PROVE  awaitingResponse' = <<>> /\ todo' = <<>>
  BY <1>1, <1>7
<1>8. CASE AllForSecond
  <2>1. awaitingResponse' = <<>> /\ todo' = <<>> BY <1>7, <1>8 DEF AllForSecond
  <2>2. QuietBehind(todo') /\ todo' \in Seq(Plain) BY <2>1, NoStep
  <2>3. AllForSecond' BY <1>1, <1>6, <1>8, <2>1, <2>2 DEF AllForSecond
  <2>4. (TunnelSecond => TunnelSecond') /\ (TunnelStuck => TunnelStuck')
    BY <1>1, <2>3 DEF TunnelSecond, TunnelStuck
  <2>5. TunnelSecond \/ TunnelStuck
    BY <1>8 DEF Waits, AllForSecond, BeforeTunnel, Direct, TunnelFirst, TunnelOpen
  <2>6. QED BY <2>4, <2>5 DEF Waits
<1>9. CASE TunnelFirst
  <2>1. awaitingConnection = <<>> BY <1>1, <1>9 DEF TunnelFirst
  <2>2. CASE awaitingResponse = <<>>
    <3>1. QuietBehind(todo') /\ ~Working' /\ ~OnGET' /\ ~GETSent' /\ ~GETGood'
      BY <1>7, <2>2, NoStep
    <3>2. BeforeTunnel' BY <1>6, <1>9, <3>1 DEF TunnelFirst
    <3>3. TunnelFirst' BY <1>1, <1>2, <1>7, <1>9, <2>2, <3>1, <3>2 DEF TunnelFirst
    <3>4. QED BY <3>3 DEF Waits
  <2>3. CASE awaitingResponse # <<>>
    <3>1. awaitingResponse = <<GET>> BY <1>9, <2>3 DEF TunnelFirst
    <3>2. awaitingResponse' = <<>> BY <1>1, <3>1
    <3>3. todo' = <<Call(GET, Failure, FALSE)>>
      <4>1. Head(awaitingResponse) = GET BY <3>1
      <4>2. todo' = Errors(<<GET>>) BY <1>1, <2>3, <4>1
      <4>3. QED BY <4>2, ErrorsOfOne
    <3>4. Call(GET, Failure, FALSE).do = "call" /\ GET \in Requests
      BY CommandFacts DEF Call
    <3>5. QuietBehind(todo') /\ OnGET' /\ ~GETSent' /\ ~GETGood'
      BY <3>3, <3>4, OneStep
    <3>6. BeforeTunnel' BY <1>6, <1>9, <3>5 DEF TunnelFirst
    <3>7. TunnelFirst' BY <1>1, <1>9, <2>1, <3>2, <3>5, <3>6 DEF TunnelFirst
    <3>8. QED BY <3>7 DEF Waits
  <2>4. QED BY <2>2, <2>3
<1>10. QED
  BY <1>4, <1>5, <1>8, <1>9 DEF Waits, TunnelSecond, TunnelStuck

LEMMA ServerSkipsWaits ==
  ASSUME IInv, Waits, ~broken, ServerSkips
  PROVE  Waits'
<1>1. /\ unanswered' = Tail(unanswered) /\ unanswered # <<>>
      /\ awaitingConnection' = awaitingConnection
      /\ awaitingTunneling' = awaitingTunneling
      /\ awaitingResponse' = awaitingResponse
      /\ tunnel' = tunnel /\ input' = input /\ output' = output
      /\ tunnelPending' = tunnelPending /\ redirects' = redirects
      /\ buffer' = buffer /\ todo' = todo
  BY DEF ServerSkips, queues
<1>2. BeforeTunnel => BeforeTunnel' BY <1>1 DEF BeforeTunnel
<1>3. (OnGET' <=> OnGET) /\ (Working' <=> Working) /\ (GETSent' <=> GETSent)
      /\ (GETGood' <=> GETGood)
  BY <1>1 DEF OnGET, Working, GETSent, GETGood
<1>4. TunnelFirst => TunnelFirst' BY <1>1, <1>2, <1>3 DEF TunnelFirst
<1>5. AllForSecond => AllForSecond' BY <1>1, <1>2 DEF AllForSecond
<1>6. (TunnelSecond => TunnelSecond') /\ (TunnelStuck => TunnelStuck')
  BY <1>1, <1>5 DEF TunnelSecond, TunnelStuck
<1>7. (Direct => Direct') /\ (TunnelOpen => TunnelOpen') BY <1>1 DEF Direct, TunnelOpen
<1>8. QED BY <1>4, <1>6, <1>7 DEF Waits

-----------------------------------------------------------------------------
(* Redirections over a tunnel, and the crash *)

Redirects(b) == \E i \in 1..Len(b) : b[i].code = "redirect"

LEMMA ReadAlone ==
  ASSUME IInv, RedirectAlone, ReadResponses
  PROVE  RedirectAlone'
<1> SUFFICES ASSUME tunnel, Redirects(buffer')
             PROVE  /\ Doing("parse")' /\ Head(todo') = ParseFirst
                    /\ Len(awaitingResponse') = 1
                    /\ Len(buffer') = 1 \/ Head(buffer').code = "request"
  BY DEF RedirectAlone, Redirects, ReadResponses
<1>1. PICK n \in 1..2 : \E codes \in [1..n -> Codes] : Reads(n, codes)
  BY DEF ReadResponses, Reads, Answers
<1>2. PICK codes \in [1..n -> Codes] : Reads(n, codes) BY <1>1
<1> DEFINE a == Answers(n, codes)
<1>3. /\ n <= Len(unanswered) /\ \A i \in 1..n : MayAnswer(unanswered[i], codes[i])
      /\ buffer' = buffer \o a \/ buffer' = buffer \o <<ServerRequest>> \o a
  BY <1>2 DEF Reads
<1>4. Doing("parse")' /\ Head(todo') = ParseFirst
  <2>1. todo' = <<ParseFirst>> BY DEF ReadResponses
  <2>2. ParseFirst.do = "parse" BY StepFacts
  <2>3. QED BY <2>1, <2>2 DEF Doing
<1>5. awaitingResponse' = awaitingResponse BY DEF ReadResponses, queues
<1>6. ~Redirects(buffer)
  <2>1. todo = <<>> /\ ~broken BY DEF ReadResponses, EventLoop
  <2>2. QED BY <2>1 DEF RedirectAlone, Redirects, Doing
<1>7. /\ a \in Seq(Responses) /\ Len(a) = n /\ n \in {1, 2}
      /\ \A i \in 1..n : a[i].code = codes[i]
  <2>1. unanswered \in Seq(Requests) BY QueueTypes
  <2>2. \A i \in 1..n : unanswered[i] \in Requests /\ codes[i] \in Codes
    BY <1>3, <2>1
  <2>3. \A r \in Requests : \A c \in Codes : Response(r, c) \in Responses
    BY RtspClientAssumption, RequestFacts DEF Response, Responses
  <2>4. \A i \in 1..n : Response(unanswered[i], codes[i]) \in Responses BY <2>2, <2>3
  <2>5. a \in [1..n -> Responses] BY <2>4 DEF Answers
  <2>6. \A i \in 1..n : a[i].code = codes[i] BY DEF Answers, Response
  <2>7. Len(a) = n BY DEF Answers
  <2> HIDE DEF a
  <2>8. QED BY <2>5, <2>6, <2>7
<1>8. ServerRequest \in Responses /\ ServerRequest.code = "request"
  BY RtspClientAssumption DEF ServerRequest, Responses, Failure
<1>9. buffer \in Seq(Responses) BY DEF IInv, TypeOK
<1> HIDE DEF a
<1>10. \E i \in 1..n : codes[i] = "redirect"
  <2> SUFFICES ASSUME \A i \in 1..n : a[i].code # "redirect" PROVE FALSE
    BY <1>7
  <2>1. ASSUME NEW s \in Seq(Responses), NEW t \in Seq(Responses), ~Redirects(s),
               ~Redirects(t)
        PROVE  s \o t \in Seq(Responses) /\ ~Redirects(s \o t)
    <3>1. /\ s \o t \in Seq(Responses) /\ Len(s) \in Nat /\ Len(t) \in Nat
          /\ Len(s \o t) = Len(s) + Len(t)
          /\ \A i \in 1..Len(s) : (s \o t)[i] = s[i]
          /\ \A i \in 1..Len(s \o t) : i > Len(s) => (s \o t)[i] = t[i - Len(s)]
      OBVIOUS
    <3>2. \A i \in 1..Len(s \o t) :
            i <= Len(s) \/ (i > Len(s) /\ i - Len(s) \in 1..Len(t))
      BY <3>1
    <3>3. QED BY <2>1, <3>1, <3>2 DEF Redirects
  <2> DEFINE s == <<ServerRequest>>
  <2>2. s \in Seq(Responses) /\ ~Redirects(s) BY <1>8 DEF Redirects
  <2> HIDE DEF s
  <2>3. ~Redirects(a) BY <1>7 DEF Redirects
  <2>4. ~Redirects(buffer \o a) BY <1>6, <1>7, <1>9, <2>1, <2>3
  <2>5. buffer \o s \in Seq(Responses) /\ ~Redirects(buffer \o s)
    BY <1>6, <1>9, <2>1, <2>2
  <2>6. ~Redirects(buffer \o s \o a) BY <1>7, <2>1, <2>3, <2>5
  <2>7. QED BY <1>3, <2>4, <2>6 DEF s
<1>11. Len(awaitingResponse) = 1 /\ Len(unanswered) = 1 /\ buffer = <<>>
  BY <1>3, <1>10 DEF MayAnswer
<1>12. Len(a) = 1 BY <1>3, <1>7, <1>11
<1>13. CASE buffer' = buffer \o a
  <2>1. Len(buffer') = 1 BY <1>7, <1>11, <1>12, <1>13
  <2>2. QED BY <1>4, <1>5, <1>11, <2>1
<1>14. CASE buffer' = buffer \o <<ServerRequest>> \o a
  <2>1. buffer' = <<ServerRequest>> \o a BY <1>8, <1>11, <1>14
  <2>2. Head(buffer') = ServerRequest BY <1>7, <2>1, FrontOne
  <2>3. QED BY <1>4, <1>5, <1>8, <1>11, <2>2
<1>15. QED BY <1>3, <1>13, <1>14

\* A turn of the loop leaves no redirection behind in the buffer.
LEMMA ParseAlone ==
  ASSUME IInv, RedirectAlone, ParseResponse
  PROVE  RedirectAlone'
<1>1. tunnel' = tunnel /\ buffer # <<>> /\ buffer \in Seq(Responses)
  BY ParseWays DEF IInv, TypeOK
<1>2. broken' = broken BY DEF ParseResponse
<1>3. CASE buffer' = <<>> BY <1>3 DEF RedirectAlone
<1>4. CASE buffer' = Tail(buffer) /\ Head(buffer).code # "request"
  <2> SUFFICES ASSUME ~broken, tunnel, NEW i \in 1..Len(buffer'),
                      buffer'[i].code = "redirect"
               PROVE  FALSE
    BY <1>1, <1>2 DEF RedirectAlone
  <2>1. /\ Len(buffer) \in Nat /\ Len(buffer') = Len(buffer) - 1
        /\ buffer'[i] = buffer[i + 1] /\ i + 1 \in 1..Len(buffer)
    BY <1>1, <1>4
  <2>2. Len(buffer) = 1 BY <1>4, <2>1 DEF RedirectAlone
  <2>3. QED BY <2>1, <2>2
<1>5. CASE buffer' = buffer /\ Head(todo) # ParseFirst
  BY <1>1, <1>2, <1>5 DEF RedirectAlone
<1>6. \/ buffer' = <<>>
      \/ buffer' = Tail(buffer) /\ Head(buffer).code # "request"
      \/ buffer' = buffer /\ Head(todo) # ParseFirst
  <2>1. buffer' = Left => buffer' = <<>> \/ (buffer' = buffer /\ Head(todo) # ParseFirst)
    BY DEF Left
  <2>2. ASSUME NEW q, Handle(Head(buffer), Tail(buffer), q)
        PROVE  buffer' = <<>> \/ buffer' = Tail(buffer)
    BY <2>2 DEF Handle, Resend
  <2>3. QED BY <2>1, <2>2 DEF ParseResponse, BreakOff, BreakOffLate, ParseWhole
<1>7. QED BY <1>3, <1>4, <1>5, <1>6

LEMMA RedirectAloneKept ==
  ASSUME IInv, RedirectAlone, Next
  PROVE  RedirectAlone'
<1>1. ASSUME ~Doing("parse"), buffer' = buffer, tunnel' = tunnel, broken' = broken
      PROVE  RedirectAlone'
  BY <1>1 DEF RedirectAlone
<1>2. ASSUME buffer' = <<>> PROVE RedirectAlone' BY <1>2 DEF RedirectAlone
<1>3. ASSUME broken' PROVE RedirectAlone' BY <1>3 DEF RedirectAlone
<1>4. CASE SendCommand
  BY <1>1, <1>4 DEF SendCommand, EventLoop, Doing, results
<1>5. CASE SendRequest BY <1>1, <1>5 DEF SendRequest, Doing, results
<1>6. CASE CallHandler BY <1>1, <1>6 DEF CallHandler, Doing
<1>7. CASE HandlerReturns BY <1>1, <1>7 DEF HandlerReturns, Doing, results
<1>8. CASE CallAgain BY <1>3, <1>8 DEF CallAgain
<1>9. CASE HandlerForGET BY <1>1, <1>9 DEF HandlerForGET, Doing, results
<1>10. CASE ParseResponse BY <1>10, ParseAlone
<1>11. CASE ConnectionSucceeds
  BY <1>1, <1>11 DEF ConnectionSucceeds, EventLoop, Doing, results
<1>12. CASE ConnectionFails
  BY <1>1, <1>12 DEF ConnectionFails, EventLoop, Doing, results
<1>13. CASE ConnectionLost BY <1>2, <1>13 DEF ConnectionLost
<1>14. CASE ReadResponses BY <1>14, ReadAlone
<1>14a. CASE ReadRest BY <1>1, <1>14a DEF ReadRest, EventLoop, Doing, results
<1>15. CASE ReadHeaders BY <1>1, <1>15 DEF ReadHeaders, EventLoop, Doing
<1>16. CASE ResponseTruncated BY <1>2, <1>16 DEF ResponseTruncated
<1>17. CASE ServerSkips BY <1>1, <1>17 DEF ServerSkips, EventLoop, Doing, results
<1>18. QED
  BY <1>4, <1>5, <1>6, <1>7, <1>8, <1>9, <1>10, <1>11, <1>12, <1>13, <1>14, <1>14a,
     <1>15, <1>16, <1>17 DEF Next, Running, Connection

\* Nothing happens after a crash.
LEMMA CrashStops ==
  ASSUME BrokenStops, Next
  PROVE  ~broken /\ BrokenStops' /\ (broken' => CallAgain)
<1>1. todo # <<>> => ~broken BY DEF BrokenStops
<1>2. \A w : Doing(w) => ~broken BY <1>1 DEF Doing
<1>3. CASE SendCommand
  BY <1>2, <1>3 DEF SendCommand, EventLoop, results, BrokenStops
<1>4. CASE SendRequest BY <1>2, <1>4 DEF SendRequest, results, BrokenStops
<1>5. CASE CallHandler BY <1>2, <1>5 DEF CallHandler, BrokenStops
<1>6. CASE HandlerReturns BY <1>2, <1>6 DEF HandlerReturns, results, BrokenStops
<1>7. CASE CallAgain BY <1>2, <1>7 DEF CallAgain, BrokenStops
<1>8. CASE HandlerForGET BY <1>2, <1>8 DEF HandlerForGET, results, BrokenStops
<1>9. CASE ParseResponse BY <1>2, <1>9 DEF ParseResponse, BrokenStops
<1>10. CASE Connection
  BY <1>10 DEF Connection, ConnectionSucceeds, ConnectionFails, EventLoop, results,
               BrokenStops
<1>11. CASE ConnectionLost BY <1>11 DEF ConnectionLost, EventLoop, results, BrokenStops
<1>12. CASE ReadResponses BY <1>12 DEF ReadResponses, EventLoop, results, BrokenStops
<1>12a. CASE ReadRest BY <1>12a DEF ReadRest, EventLoop, results, BrokenStops
<1>13. CASE ReadHeaders BY <1>13 DEF ReadHeaders, EventLoop, BrokenStops
<1>14. CASE ResponseTruncated BY <1>14 DEF ResponseTruncated, EventLoop, BrokenStops
<1>15. CASE ServerSkips BY <1>15 DEF ServerSkips, EventLoop, results, BrokenStops
<1>16. QED
  BY <1>3, <1>4, <1>5, <1>6, <1>7, <1>8, <1>9, <1>10, <1>11, <1>12, <1>12a, <1>13,
     <1>14, <1>15 DEF Next, Running

-----------------------------------------------------------------------------
(* The waiting requests are never stranded *)

LEMMA WInvStep ==
  ASSUME IInv, WInv, [Next]_vars
  PROVE  WInv'
<1>1. Waits /\ RedirectAlone /\ BrokenStops BY DEF WInv
<1>2. CASE Next
  <2>1. ~broken /\ BrokenStops' /\ (broken' => CallAgain) BY <1>1, <1>2, CrashStops
  <2>2. RedirectAlone' BY <1>1, <1>2, RedirectAloneKept
  <2>3. Waits'
    <3>1. CASE SendCommand BY <1>1, <2>1, <3>1, SendCommandWaits
    <3>2. CASE Running
      <4>1. CallAgain => Waits' BY DEF CallAgain, Waits
      <4>2. QED
        BY <1>1, <2>1, <3>2, <4>1, SendRequestWaits, CallHandlerWaits,
           HandlerForGETWaits, ParseResponseWaits DEF Running
    <3>3. CASE Connection
      BY <1>1, <2>1, <3>3, ConnectionSucceedsWaits, ConnectionFailsWaits DEF Connection
    <3>4. CASE ConnectionLost BY <1>1, <2>1, <3>4, ConnectionLostWaits
    <3>5. CASE ReadResponses \/ ReadRest BY <1>1, <2>1, <3>5, ReadsWait
    <3>6. CASE ReadHeaders BY <1>1, <2>1, <3>6, ReadHeadersWaits
    <3>7. CASE ResponseTruncated BY <1>1, <2>1, <3>7, ResponseTruncatedWaits
    <3>8. CASE ServerSkips BY <1>1, <2>1, <3>8, ServerSkipsWaits
    <3>9. QED BY <1>2, <3>1, <3>2, <3>3, <3>4, <3>5, <3>6, <3>7, <3>8 DEF Next
  <2>4. QED BY <2>1, <2>2, <2>3 DEF WInv
<1>3. CASE UNCHANGED vars
  <2>1. /\ tunnel' = tunnel /\ input' = input /\ output' = output
        /\ unanswered' = unanswered /\ tunnelPending' = tunnelPending
        /\ awaitingConnection' = awaitingConnection
        /\ awaitingTunneling' = awaitingTunneling
        /\ awaitingResponse' = awaitingResponse
        /\ buffer' = buffer /\ todo' = todo /\ broken' = broken /\ redirects' = redirects
    BY <1>3 DEF vars, queues, sockets, results, bounds
  <2>2. (OnGET' <=> OnGET) /\ (Working' <=> Working) /\ (GETSent' <=> GETSent)
        /\ (GETGood' <=> GETGood) /\ (BeforeTunnel' <=> BeforeTunnel)
    BY <2>1 DEF OnGET, Working, GETSent, GETGood, BeforeTunnel
  <2>3. (Direct' <=> Direct) /\ (TunnelOpen' <=> TunnelOpen)
    BY <2>1 DEF Direct, TunnelOpen
  <2>4. (TunnelFirst' <=> TunnelFirst) BY <2>1, <2>2 DEF TunnelFirst
  <2>5. (AllForSecond' <=> AllForSecond) BY <2>1, <2>2 DEF AllForSecond
  <2>6. (TunnelSecond' <=> TunnelSecond) /\ (TunnelStuck' <=> TunnelStuck)
    BY <2>1, <2>5 DEF TunnelSecond, TunnelStuck
  <2>7. Waits' BY <1>1, <2>1, <2>3, <2>4, <2>6 DEF Waits
  <2>8. RedirectAlone' BY <1>1, <2>1 DEF RedirectAlone, Doing
  <2>9. BrokenStops' BY <1>1, <2>1 DEF BrokenStops
  <2>10. QED BY <2>7, <2>8, <2>9 DEF WInv
<1>4. QED BY <1>2, <1>3

LEMMA WInvInit ==
  ASSUME Init
  PROVE  WInv
<1>1. /\ awaitingConnection = <<>> /\ awaitingTunneling = <<>> /\ awaitingResponse = <<>>
      /\ input = "none" /\ output = "same" /\ tunnelPending = FALSE
      /\ buffer = <<>> /\ todo = <<>> /\ unanswered = <<>> /\ tunnel \in BOOLEAN
      /\ broken = FALSE
  BY DEF Init
<1>2. /\ <<>> \in Seq(Commands) /\ <<>> \in Seq(Plain) /\ <<>> \in Seq({GET})
      /\ <<>> \in Seq(Unnumbered)
  OBVIOUS
<1>3. ~Parses(todo) /\ QuietBehind(todo) /\ ~Working /\ ~OnGET
  <2>1. ~Parses(todo) BY <1>1, ParsesOne
  <2>2. QED BY <1>1, <2>1 DEF QuietBehind, Working, OnGET
<1>4. CASE tunnel
  <2>1. BeforeTunnel BY <1>1, <1>2, <1>3, <1>4 DEF BeforeTunnel
  <2>2. TunnelFirst BY <1>1, <1>2, <1>3, <2>1 DEF TunnelFirst, GETSent, GETGood
  <2>3. QED BY <1>1, <2>2 DEF WInv, Waits, RedirectAlone, BrokenStops
<1>5. CASE ~tunnel
  <2>1. Direct BY <1>1, <1>2, <1>3, <1>5 DEF Direct
  <2>2. QED BY <1>1, <2>1 DEF WInv, Waits, RedirectAlone, BrokenStops
<1>6. QED BY <1>1, <1>4, <1>5

LEMMA WaitsForSomething ==
  ASSUME IInv, WInv, EventLoop
  PROVE  /\ "connecting" \in {input, output} => awaitingConnection # <<>>
         /\ awaitingConnection # <<>> =>
              "connecting" \in {input, output} \/ (tunnelPending /\ input = "none")
         /\ awaitingTunneling # <<>> =>
              GET \in Members(awaitingConnection) \cup Members(awaitingResponse)
         /\ awaitingResponse # <<>> /\ redirects = 0 => input = "open"
<1>1. Waits /\ ~broken /\ ~OnGET BY IdleWaits DEF WInv
<1>2. GET \in Members(<<GET>>)
  <2>1. 1 \in 1..Len(<<GET>>) /\ <<GET>>[1] = GET OBVIOUS
  <2>2. QED BY <2>1 DEF Members
<1>3. CASE Direct BY <1>3 DEF Direct
<1>4. CASE TunnelFirst BY <1>1, <1>2, <1>4 DEF TunnelFirst
<1>5. CASE TunnelSecond BY <1>5 DEF TunnelSecond, AllForSecond
<1>6. CASE TunnelStuck BY <1>6 DEF TunnelStuck, AllForSecond
<1>7. CASE TunnelOpen BY <1>7 DEF TunnelOpen
<1>8. QED BY <1>1, <1>3, <1>4, <1>5, <1>6, <1>7 DEF Waits

\* What waits for what, with the invariant of RtspClientProofs, is inductive.
THEOREM WaitsInductive == Spec => [](IInv /\ RedirectInv /\ WInv)
<1>1. Init => IInv /\ RedirectInv /\ WInv BY InitHolds, WInvInit
<1>2. IInv /\ RedirectInv /\ WInv /\ [Next]_vars => (IInv /\ RedirectInv /\ WInv)'
  BY StepHolds, WInvStep
<1>3. QED BY <1>1, <1>2, PTL DEF Spec

\* No request of RTSPClient waits for something that will not come: a connection
\* that nobody is making, a tunnel whose GET is gone, or a response on a connection
\* that was closed, except where NoneStranded says so.
THEOREM NoRequestStranded == Spec => []NoneStranded
<1>1. IInv /\ RedirectInv /\ WInv => NoneStranded
  BY WaitsForSomething DEF NoneStranded
<1>2. QED BY <1>1, WaitsInductive, PTL


-----------------------------------------------------------------------------
(* Answers that come in the order of the requests *)

\* What the code can see of the answer to r.
AnswerTo(r) == [id |-> r.id, cseq |-> Response(r, "ok").cseq]

\* The answers in the buffer, and those the server has still to give.
Coming(b, u) ==
  [i \in 1..Len(b) + Len(u) |->
     IF i <= Len(b) THEN [id |-> b[i].id, cseq |-> b[i].cseq]
     ELSE AnswerTo(u[i - Len(b)])]

\* The answers c are to requests of the queue q, in its order.
Fits(c, q) ==
  /\ \A i \in 1..Len(c) : c[i].id # Failure => \E p \in 1..Len(q) : q[p].id = c[i].id
  /\ \A i \in 1..Len(c) : \A p \in 1..Len(q) : q[p].id = c[i].id => c[i] = AnswerTo(q[p])
  /\ \A i, j \in 1..Len(c) : \A p, r \in 1..Len(q) :
       i < j /\ q[p].id = c[i].id /\ q[r].id = c[j].id => p < r

\* The answers d are answers of c behind its first m, in the same order; between
\* them may be requests of the server's own.
Within(d, c, m) ==
  \E f \in [1..Len(d) -> Nat] :
    /\ \A i \in 1..Len(d) : d[i].id # Failure => f[i] \in m + 1..Len(c) /\ d[i] = c[f[i]]
    /\ \A i, j \in 1..Len(d) :
         i < j /\ d[i].id # Failure /\ d[j].id # Failure => f[i] < f[j]

\* What is in the buffer without the mark of a request answers one.
Named == \A i \in 1..Len(buffer) : buffer[i].code # "request" => buffer[i].id # Failure

Aligned ==
  repeats = 0 /\ ~broken /\ ~kept => Fits(Coming(buffer, unanswered), awaitingResponse)

AInv == Named /\ Aligned

\* Nothing that comes fits any queue.
LEMMA NothingFits ==
  ASSUME NEW c, NEW q, Len(c) = 0
  PROVE  Fits(c, q)
BY DEF Fits

LEMMA ComingFacts ==
  ASSUME NEW b \in Seq(Responses), NEW u \in Seq(Requests)
  PROVE  /\ Len(Coming(b, u)) = Len(b) + Len(u) /\ Len(b) \in Nat /\ Len(u) \in Nat
         /\ \A i \in 1..Len(b) :
              /\ i \in 1..Len(Coming(b, u)) /\ b[i] \in Responses
              /\ Coming(b, u)[i] = [id |-> b[i].id, cseq |-> b[i].cseq]
         /\ \A i \in 1..Len(u) :
              /\ i + Len(b) \in 1..Len(Coming(b, u)) /\ u[i] \in Requests
              /\ Coming(b, u)[i + Len(b)] = AnswerTo(u[i])
         /\ \A i \in 1..Len(Coming(b, u)) :
              i \in 1..Len(b) \/ (i > Len(b) /\ i - Len(b) \in 1..Len(u))
<1> DEFINE c == Coming(b, u)
<1>1. Len(b) \in Nat /\ Len(u) \in Nat OBVIOUS
<1>2. c = [i \in 1..Len(b) + Len(u) |->
             IF i <= Len(b) THEN [id |-> b[i].id, cseq |-> b[i].cseq]
             ELSE AnswerTo(u[i - Len(b)])]
  BY DEF Coming
<1>3. Len(c) = Len(b) + Len(u) BY <1>1, <1>2
<1>4. ASSUME NEW i \in 1..Len(b)
      PROVE  /\ i \in 1..Len(c) /\ b[i] \in Responses
             /\ c[i] = [id |-> b[i].id, cseq |-> b[i].cseq]
  BY <1>1, <1>2, <1>3
<1>5. ASSUME NEW i \in 1..Len(u)
      PROVE  /\ i + Len(b) \in 1..Len(c) /\ u[i] \in Requests
             /\ c[i + Len(b)] = AnswerTo(u[i])
  <2>1. i + Len(b) \in 1..Len(b) + Len(u) /\ ~(i + Len(b) <= Len(b))
        /\ (i + Len(b)) - Len(b) = i
    BY <1>1
  <2>2. QED BY <1>2, <1>3, <2>1
<1>6. \A i \in 1..Len(c) : i \in 1..Len(b) \/ (i > Len(b) /\ i - Len(b) \in 1..Len(u))
  BY <1>1, <1>3
<1>7. QED BY <1>1, <1>3, <1>4, <1>5, <1>6

\* Answers to requests behind the first k of the queue fit what is left of it.
LEMMA FitsRest ==
  ASSUME NEW c, NEW d, NEW q, NEW k, NEW r, Len(d) \in Nat, Len(c) \in Nat,
         Fits(c, q), Within(d, c, 0), RestOf(q, k, r),
         \A i \in 1..Len(d) : \A p \in 1..Len(q) :
           d[i].id # Failure /\ q[p].id = d[i].id => p > k,
         \A p \in 1..Len(q) : q[p].id # Failure
  PROVE  Fits(d, r)
<1>1. PICK f \in [1..Len(d) -> Nat] :
        /\ \A i \in 1..Len(d) : d[i].id # Failure => f[i] \in 1..Len(c) /\ d[i] = c[f[i]]
        /\ \A i, j \in 1..Len(d) :
             i < j /\ d[i].id # Failure /\ d[j].id # Failure => f[i] < f[j]
  BY DEF Within
<1>2. /\ k \in Nat /\ Len(q) \in Nat /\ Len(r) \in Nat /\ Len(q) = k + Len(r)
      /\ \A i \in 1..Len(r) : r[i] = q[i + k]
  BY DEF RestOf
<1>3. \A p \in 1..Len(r) : p + k \in 1..Len(q) BY <1>2
<1>4. ASSUME NEW i \in 1..Len(d), d[i].id # Failure
      PROVE  \E p \in 1..Len(r) : r[p].id = d[i].id
  <2>1. PICK p \in 1..Len(q) : q[p].id = d[i].id BY <1>1, <1>4 DEF Fits
  <2>2. p > k BY <1>4, <2>1
  <2>3. p - k \in 1..Len(r) /\ (p - k) + k = p BY <1>2, <2>2
  <2>4. r[p - k] = q[p] BY <1>2, <2>3
  <2>5. QED BY <2>1, <2>3, <2>4
<1>5. ASSUME NEW i \in 1..Len(d), NEW p \in 1..Len(r), r[p].id = d[i].id
      PROVE  d[i] = AnswerTo(r[p])
  <2>1. r[p] = q[p + k] /\ p + k \in 1..Len(q) BY <1>2, <1>3
  <2>2. d[i].id # Failure BY <1>5, <2>1
  <2>3. f[i] \in 1..Len(c) /\ d[i] = c[f[i]] BY <1>1, <2>2
  <2>4. QED BY <1>5, <2>1, <2>3 DEF Fits
<1>6. ASSUME NEW i \in 1..Len(d), NEW j \in 1..Len(d),
             NEW p \in 1..Len(r), NEW s \in 1..Len(r),
             i < j, r[p].id = d[i].id, r[s].id = d[j].id
      PROVE  p < s
  <2>1. /\ r[p] = q[p + k] /\ p + k \in 1..Len(q)
        /\ r[s] = q[s + k] /\ s + k \in 1..Len(q)
    BY <1>2, <1>3
  <2>2. d[i].id # Failure /\ d[j].id # Failure BY <1>6, <2>1
  <2>3. /\ f[i] \in 1..Len(c) /\ d[i] = c[f[i]] /\ f[j] \in 1..Len(c) /\ d[j] = c[f[j]]
        /\ f[i] < f[j]
    BY <1>1, <1>6, <2>2
  <2>4. q[p + k].id = c[f[i]].id /\ q[s + k].id = c[f[j]].id BY <1>6, <2>1, <2>3
  <2>5. \A a, b \in 1..Len(c) : \A x, y \in 1..Len(q) :
          a < b /\ q[x].id = c[a].id /\ q[y].id = c[b].id => x < y
    BY DEF Fits
  <2>6. p + k < s + k BY <2>1, <2>3, <2>4, <2>5
  <2>7. QED BY <1>2, <2>6
<1>7. QED BY <1>4, <1>5, <1>6 DEF Fits

\* When nothing is taken from the queue, leaving answers out changes nothing.
LEMMA FitsFewer ==
  ASSUME NEW c, NEW d, NEW q, Len(d) \in Nat, Len(c) \in Nat, Len(q) \in Nat,
         Fits(c, q), Within(d, c, 0), \A p \in 1..Len(q) : q[p].id # Failure
  PROVE  Fits(d, q)
<1>1. RestOf(q, 0, q) BY DEF RestOf
<1>2. \A p \in 1..Len(q) : p > 0 OBVIOUS
<1>3. QED BY <1>1, <1>2, FitsRest

\* When the queue is taken up to the request of an answer at most, the answers
\* behind that one fit what is left.
LEMMA FitsBehind ==
  ASSUME NEW c, NEW d, NEW q, NEW k, NEW r, NEW l \in 1..Len(c), NEW m \in Nat, l <= m,
         Len(d) \in Nat, Len(c) \in Nat, Fits(c, q), Within(d, c, m), RestOf(q, k, r),
         NEW p0 \in 1..Len(q), q[p0].id = c[l].id, k <= p0,
         \A p \in 1..Len(q) : q[p].id # Failure
  PROVE  Fits(d, r)
<1>1. PICK f \in [1..Len(d) -> Nat] :
        /\ \A i \in 1..Len(d) :
             d[i].id # Failure => f[i] \in m + 1..Len(c) /\ d[i] = c[f[i]]
        /\ \A i, j \in 1..Len(d) :
             i < j /\ d[i].id # Failure /\ d[j].id # Failure => f[i] < f[j]
  BY DEF Within
<1>2. k \in Nat /\ Len(q) \in Nat BY DEF RestOf
<1>3. Within(d, c, 0)
  <2>1. \A i \in m + 1..Len(c) : i \in 0 + 1..Len(c) OBVIOUS
  <2>2. QED BY <1>1, <2>1 DEF Within
<1>4. ASSUME NEW i \in 1..Len(d), NEW p \in 1..Len(q), d[i].id # Failure,
             q[p].id = d[i].id
      PROVE  p > k
  <2>1. f[i] \in m + 1..Len(c) /\ d[i] = c[f[i]] BY <1>1, <1>4
  <2>2. f[i] \in 1..Len(c) /\ l < f[i] BY <2>1
  <2>3. p0 < p BY <1>4, <2>1, <2>2 DEF Fits
  <2>4. QED BY <1>2, <2>3
<1>5. QED BY <1>3, <1>4, FitsRest

\* When a new request is sent its answer comes last.
LEMMA FitsOneMore ==
  ASSUME NEW b \in Seq(Responses), NEW u \in Seq(Requests), NEW q \in Seq(Requests),
         NEW r \in Requests, Fits(Coming(b, u), q),
         \A p \in 1..Len(q) : q[p].id # r.id
  PROVE  Fits(Coming(b, Append(u, r)), Append(q, r))
<1> DEFINE c == Coming(b, u)
           d == Coming(b, Append(u, r))
           s == Append(q, r)
           n == Len(b) + Len(u)
<1>1. /\ Len(c) = n /\ n \in Nat /\ Len(d) = n + 1
      /\ \A i \in 1..n : d[i] = c[i]
      /\ d[n + 1] = AnswerTo(r)
  <2> DEFINE w == Append(u, r)
  <2>1. /\ w \in Seq(Requests) /\ Len(w) = Len(u) + 1 /\ w[Len(u) + 1] = r
        /\ \A i \in 1..Len(u) : w[i] = u[i]
    OBVIOUS
  <2>2. d = Coming(b, w) OBVIOUS
  <2> HIDE DEF c, d, w
  <2>3. /\ Len(d) = Len(b) + Len(w) /\ Len(b) \in Nat /\ Len(w) \in Nat
        /\ \A i \in 1..Len(b) : d[i] = [id |-> b[i].id, cseq |-> b[i].cseq]
        /\ \A i \in 1..Len(w) : d[i + Len(b)] = AnswerTo(w[i])
    BY <2>1, <2>2, ComingFacts
  <2>4. /\ Len(c) = Len(b) + Len(u) /\ Len(u) \in Nat
        /\ \A i \in 1..Len(b) : c[i] = [id |-> b[i].id, cseq |-> b[i].cseq]
        /\ \A i \in 1..Len(u) : c[i + Len(b)] = AnswerTo(u[i])
    BY ComingFacts DEF c
  <2>5. Len(c) = n /\ n \in Nat /\ Len(d) = n + 1 BY <2>1, <2>3, <2>4
  <2>6. ASSUME NEW i \in 1..n PROVE d[i] = c[i]
    <3>1. CASE i \in 1..Len(b) BY <2>3, <2>4, <3>1
    <3>2. CASE i \notin 1..Len(b)
      <4>1. i - Len(b) \in 1..Len(u) /\ (i - Len(b)) + Len(b) = i BY <2>3, <2>4, <3>2
      <4>2. i - Len(b) \in 1..Len(w) BY <2>1, <2>3, <2>4, <4>1
      <4>3. d[i] = AnswerTo(w[i - Len(b)]) /\ c[i] = AnswerTo(u[i - Len(b)])
        BY <2>3, <2>4, <4>1, <4>2
      <4>4. QED BY <2>1, <4>1, <4>3
    <3>3. QED BY <3>1, <3>2
  <2>7. d[n + 1] = AnswerTo(r)
    <3>1. Len(u) + 1 \in 1..Len(w) /\ (Len(u) + 1) + Len(b) = n + 1
      BY <2>1, <2>3, <2>4
    <3>2. QED BY <2>1, <2>3, <3>1
  <2>8. QED BY <2>5, <2>6, <2>7
<1>2. /\ Len(q) \in Nat /\ Len(s) = Len(q) + 1 /\ s[Len(q) + 1] = r
      /\ \A p \in 1..Len(q) : s[p] = q[p]
  OBVIOUS
<1>3. r.id # Failure BY RequestFacts, RtspClientAssumption DEF Failure
<1>4. AnswerTo(r).id = r.id BY DEF AnswerTo
<1>5. Fits(c, q) OBVIOUS
<1> HIDE DEF c, d, s, n
<1>6. \A p \in 1..Len(s) : (p \in 1..Len(q) /\ s[p] = q[p]) \/ (p = Len(q) + 1 /\ s[p] = r)
  BY <1>2
<1>7. \A i \in 1..Len(d) :
        \/ i \in 1..Len(c) /\ i <= n /\ d[i] = c[i]
        \/ i = n + 1 /\ d[i] = AnswerTo(r)
  BY <1>1
<1>8. ASSUME NEW i \in 1..Len(c), NEW p \in 1..Len(s), s[p].id = c[i].id
      PROVE  p \in 1..Len(q) /\ s[p] = q[p]
  <2> SUFFICES ASSUME p = Len(q) + 1, s[p] = r PROVE FALSE BY <1>6
  <2>1. c[i].id # Failure BY <1>3, <1>8
  <2>2. PICK y \in 1..Len(q) : q[y].id = c[i].id BY <1>5, <2>1 DEF Fits
  <2>3. QED BY <1>8, <2>2
<1>9. ASSUME NEW p \in 1..Len(s), s[p].id = r.id
      PROVE  p = Len(q) + 1 /\ s[p] = r
  BY <1>6, <1>9
<1>10. ASSUME NEW i \in 1..Len(d), d[i].id # Failure
       PROVE  \E p \in 1..Len(s) : s[p].id = d[i].id
  <2>1. CASE i \in 1..Len(c) /\ d[i] = c[i]
    <3>1. PICK p \in 1..Len(q) : q[p].id = c[i].id BY <1>5, <1>10, <2>1 DEF Fits
    <3>2. p \in 1..Len(s) /\ s[p] = q[p] BY <1>2
    <3>3. QED BY <2>1, <3>1, <3>2
  <2>2. CASE d[i] = AnswerTo(r)
    <3>1. Len(q) + 1 \in 1..Len(s) /\ s[Len(q) + 1] = r BY <1>2
    <3>2. QED BY <1>4, <2>2, <3>1
  <2>3. QED BY <1>7, <2>1, <2>2
<1>11. ASSUME NEW i \in 1..Len(d), NEW p \in 1..Len(s), s[p].id = d[i].id
       PROVE  d[i] = AnswerTo(s[p])
  <2>1. CASE i \in 1..Len(c) /\ d[i] = c[i]
    <3>1. p \in 1..Len(q) /\ s[p] = q[p] BY <1>8, <1>11, <2>1
    <3>2. c[i] = AnswerTo(q[p]) BY <1>5, <1>11, <2>1, <3>1 DEF Fits
    <3>3. QED BY <2>1, <3>1, <3>2
  <2>2. CASE d[i] = AnswerTo(r)
    <3>1. s[p] = r BY <1>4, <1>9, <1>11, <2>2
    <3>2. QED BY <2>2, <3>1
  <2>3. QED BY <1>7, <2>1, <2>2
<1>12. ASSUME NEW i \in 1..Len(d), NEW j \in 1..Len(d),
              NEW p \in 1..Len(s), NEW y \in 1..Len(s),
              i < j, s[p].id = d[i].id, s[y].id = d[j].id
       PROVE  p < y
  <2>1. i \in 1..Len(c) /\ d[i] = c[i] BY <1>1, <1>7, <1>12
  <2>2. p \in 1..Len(q) /\ s[p] = q[p] BY <1>8, <1>12, <2>1
  <2>3. CASE j \in 1..Len(c) /\ d[j] = c[j]
    <3>1. y \in 1..Len(q) /\ s[y] = q[y] BY <1>8, <1>12, <2>3
    <3>2. q[p].id = c[i].id /\ q[y].id = c[j].id BY <1>12, <2>1, <2>2, <2>3, <3>1
    <3>3. \A a, e \in 1..Len(c) : \A x, z \in 1..Len(q) :
            a < e /\ q[x].id = c[a].id /\ q[z].id = c[e].id => x < z
      BY <1>5 DEF Fits
    <3>4. QED BY <1>12, <2>1, <2>2, <2>3, <3>1, <3>2, <3>3
  <2>4. CASE d[j] = AnswerTo(r)
    <3>1. y = Len(q) + 1 BY <1>4, <1>9, <1>12, <2>4
    <3>2. QED BY <1>2, <2>2, <3>1
  <2>5. QED BY <1>7, <2>3, <2>4
<1>13. Fits(d, s) BY <1>10, <1>11, <1>12 DEF Fits
<1>14. QED BY <1>13 DEF d, s

\* The rest of the buffer, and the rest of what the server has.
LEMMA ComingRest ==
  ASSUME NEW b \in Seq(Responses), NEW u \in Seq(Requests),
         NEW b2 \in Seq(Responses), NEW u2 \in Seq(Requests),
         NEW m, NEW n, RestOf(b, m, b2), RestOf(u, n, u2)
  PROVE  /\ Within(Coming(b2, u2), Coming(b, u), m)
         /\ b2 = <<>> => Within(Coming(b2, u2), Coming(b, u), Len(b) + n)
<1> DEFINE c == Coming(b, u)
           d == Coming(b2, u2)
           f == [i \in 1..Len(d) |->
                   IF i <= Len(b2) THEN i + m ELSE (i - Len(b2)) + n + Len(b)]
<1>1. /\ m \in Nat /\ Len(b) \in Nat /\ Len(b2) \in Nat /\ Len(b) = m + Len(b2)
      /\ \A i \in 1..Len(b2) : b2[i] = b[i + m]
      /\ n \in Nat /\ Len(u) \in Nat /\ Len(u2) \in Nat /\ Len(u) = n + Len(u2)
      /\ \A i \in 1..Len(u2) : u2[i] = u[i + n]
  BY DEF RestOf
<1>2. Len(c) = Len(b) + Len(u) /\ Len(d) = Len(b2) + Len(u2) BY ComingFacts
<1>3. ASSUME NEW i \in 1..Len(b2)
      PROVE  i + m \in 1..Len(c) /\ d[i] = c[i + m]
  <2>1. i + m \in 1..Len(b) /\ b2[i] = b[i + m] BY <1>1
  <2>2. c[i + m] = [id |-> b[i + m].id, cseq |-> b[i + m].cseq] BY <2>1, ComingFacts
  <2>3. d[i] = [id |-> b2[i].id, cseq |-> b2[i].cseq] BY ComingFacts
  <2>4. i + m \in 1..Len(c) BY <2>1, ComingFacts
  <2>5. QED BY <2>1, <2>2, <2>3, <2>4
<1>4. ASSUME NEW i \in 1..Len(u2)
      PROVE  /\ i + n + Len(b) \in 1..Len(c)
             /\ d[i + Len(b2)] = c[i + n + Len(b)]
  <2>1. i + n \in 1..Len(u) /\ u2[i] = u[i + n]
    <3>1. u2[i] = u[i + n] BY <1>1
    <3>2. i + n \in 1..Len(u) BY <1>1, SMTT(30)
    <3>3. QED BY <3>1, <3>2
  <2>2. (i + n) + Len(b) \in 1..Len(c) /\ c[(i + n) + Len(b)] = AnswerTo(u[i + n])
    BY <2>1, ComingFacts
  <2>3. d[i + Len(b2)] = AnswerTo(u2[i]) BY ComingFacts
  <2>4. QED BY <2>1, <2>2, <2>3
<1>5. f \in [1..Len(d) -> Nat]
  <2>1. \A i \in 1..Len(d) :
          (IF i <= Len(b2) THEN i + m ELSE (i - Len(b2)) + n + Len(b)) \in Nat
    BY <1>1, <1>2
  <2> HIDE DEF d
  <2>2. QED BY <2>1
<1>6. \A i \in 1..Len(d) : f[i] = IF i <= Len(b2) THEN i + m
                                  ELSE (i - Len(b2)) + n + Len(b)
  OBVIOUS
<1> HIDE DEF c, d, f
<1>7. ASSUME NEW i \in 1..Len(d)
      PROVE  f[i] \in m + 1..Len(c) /\ d[i] = c[f[i]]
  <2>1. CASE i <= Len(b2)
    <3>1. i \in 1..Len(b2) /\ f[i] = i + m BY <1>1, <1>6, <2>1
    <3>2. QED BY <1>1, <1>2, <1>3, <3>1
  <2>2. CASE ~(i <= Len(b2))
    <3>1. /\ i - Len(b2) \in 1..Len(u2) /\ (i - Len(b2)) + Len(b2) = i
          /\ f[i] = (i - Len(b2)) + n + Len(b)
      BY <1>1, <1>2, <1>6, <2>2
    <3>2. f[i] \in 1..Len(c) /\ d[i] = c[f[i]] BY <1>4, <3>1
    <3>3. f[i] >= m + 1 BY <1>1, <3>1
    <3>4. QED BY <1>1, <1>2, <3>2, <3>3
  <2>3. QED BY <2>1, <2>2
<1>8. ASSUME NEW i \in 1..Len(d), NEW j \in 1..Len(d), i < j
      PROVE  f[i] < f[j]
  <2>1. i \in Nat /\ j \in Nat BY <1>1
  <2>2. f[i] = (IF i <= Len(b2) THEN i + m ELSE (i - Len(b2)) + n + Len(b)) BY <1>6
  <2>3. f[j] = (IF j <= Len(b2) THEN j + m ELSE (j - Len(b2)) + n + Len(b)) BY <1>6
  <2>4. /\ Len(b2) \in Nat /\ m \in Nat /\ n \in Nat /\ Len(b) \in Nat
        /\ Len(b) = m + Len(b2)
    BY <1>1
  <2>5. CASE i <= Len(b2) BY <1>8, <2>1, <2>2, <2>3, <2>4, <2>5
  <2>6. CASE ~(i <= Len(b2))
    <3>1. ~(j <= Len(b2)) BY <1>8, <2>1, <2>4, <2>6
    <3>2. QED BY <1>8, <2>1, <2>2, <2>3, <2>4, <2>6, <3>1
  <2>7. QED BY <2>5, <2>6
<1>9. Within(d, c, m) BY <1>5, <1>7, <1>8 DEF Within
<1>10. ASSUME b2 = <<>> PROVE Within(d, c, Len(b) + n)
  <2>1. \A i \in 1..Len(d) : f[i] = i + n + Len(b) BY <1>1, <1>2, <1>6, <1>10
  <2>2. \A i \in 1..Len(d) : f[i] \in Len(b) + n + 1..Len(c) BY <1>1, <1>2, <1>7, <2>1
  <2>3. QED BY <1>5, <1>7, <1>8, <2>2 DEF Within
<1>11. QED BY <1>9, <1>10 DEF c, d

\* The answers that a read takes from the server to the buffer, with or without a
\* request of the server's own before them.
LEMMA ComingRead ==
  ASSUME NEW b \in Seq(Responses), NEW u \in Seq(Requests), NEW n \in 1..Len(u),
         NEW a \in Seq(Responses), Len(a) = n,
         \A i \in 1..n : a[i].id = u[i].id /\ a[i].cseq = AnswerTo(u[i]).cseq,
         NEW v \in Seq(Responses), \A i \in 1..Len(v) : v[i].id = Failure,
         NEW u2 \in Seq(Requests), RestOf(u, n, u2)
  PROVE  Within(Coming(b \o v \o a, u2), Coming(b, u), 0)
<1> DEFINE b2 == b \o v \o a
           c == Coming(b, u)
           d == Coming(b2, u2)
           f == [i \in 1..Len(d) |->
                   IF i <= Len(b) THEN i
                   ELSE IF i <= Len(b) + Len(v) THEN 0 ELSE i - Len(v)]
<1>1. /\ Len(b) \in Nat /\ Len(v) \in Nat /\ Len(u) \in Nat /\ n \in Nat /\ n <= Len(u)
      /\ Len(u2) \in Nat /\ Len(u) = n + Len(u2)
      /\ \A i \in 1..Len(u2) : u2[i] = u[i + n]
  BY DEF RestOf
<1>2. /\ b2 \in Seq(Responses) /\ Len(b2) = Len(b) + Len(v) + n
      /\ \A i \in 1..Len(b) : b2[i] = b[i]
      /\ \A i \in 1..Len(v) : b2[i + Len(b)] = v[i]
      /\ \A i \in 1..n : b2[i + Len(b) + Len(v)] = a[i]
  <2>1. ASSUME NEW x \in Seq(Responses), NEW y \in Seq(Responses)
        PROVE  /\ x \o y \in Seq(Responses) /\ Len(x \o y) = Len(x) + Len(y)
               /\ \A i \in 1..Len(x) : (x \o y)[i] = x[i]
               /\ \A i \in 1..Len(y) : (x \o y)[i + Len(x)] = y[i]
    OBVIOUS
  <2> DEFINE e == b \o v
  <2>2. /\ e \in Seq(Responses) /\ Len(e) = Len(b) + Len(v)
        /\ \A i \in 1..Len(b) : e[i] = b[i]
        /\ \A i \in 1..Len(v) : e[i + Len(b)] = v[i]
    BY <2>1
  <2>3. b2 = e \o a OBVIOUS
  <2> HIDE DEF e, b2
  <2>4. /\ b2 \in Seq(Responses) /\ Len(b2) = Len(e) + n
        /\ \A i \in 1..Len(e) : b2[i] = e[i]
        /\ \A i \in 1..n : b2[i + Len(e)] = a[i]
    <3>1. e \in Seq(Responses) /\ a \in Seq(Responses) /\ Len(a) = n BY <2>2
    <3>2. /\ e \o a \in Seq(Responses) /\ Len(e \o a) = Len(e) + Len(a)
          /\ \A i \in 1..Len(e) : (e \o a)[i] = e[i]
          /\ \A i \in 1..Len(a) : (e \o a)[i + Len(e)] = a[i]
      BY <2>1, <3>1
    <3>3. QED BY <2>3, <3>1, <3>2
  <2>5. \A i \in 1..Len(b) : i \in 1..Len(e) BY <1>1, <2>2
  <2>6. \A i \in 1..Len(v) : i + Len(b) \in 1..Len(e) BY <1>1, <2>2
  <2>7. \A i \in 1..n : i + Len(b) + Len(v) = i + Len(e) BY <1>1, <2>2
  <2>8. QED BY <1>1, <2>2, <2>4, <2>5, <2>6, <2>7
<1> HIDE DEF b2
<1>3. /\ Len(c) = Len(b) + Len(u)
      /\ \A i \in 1..Len(b) : c[i] = [id |-> b[i].id, cseq |-> b[i].cseq]
      /\ \A i \in 1..Len(u) : c[i + Len(b)] = AnswerTo(u[i])
  BY ComingFacts
<1>4. /\ Len(d) = Len(b2) + Len(u2)
      /\ \A i \in 1..Len(b2) : d[i] = [id |-> b2[i].id, cseq |-> b2[i].cseq]
      /\ \A i \in 1..Len(u2) : d[i + Len(b2)] = AnswerTo(u2[i])
  BY <1>2, ComingFacts
<1>5. f \in [1..Len(d) -> Nat]
  <2>1. \A i \in 1..Len(d) :
          (IF i <= Len(b) THEN i ELSE IF i <= Len(b) + Len(v) THEN 0 ELSE i - Len(v)) \in Nat
    BY <1>1
  <2> HIDE DEF d
  <2>2. QED BY <2>1
<1>6. \A i \in 1..Len(d) :
        f[i] = IF i <= Len(b) THEN i ELSE IF i <= Len(b) + Len(v) THEN 0 ELSE i - Len(v)
  OBVIOUS
<1> HIDE DEF c, d, f
<1>7. ASSUME NEW i \in 1..Len(d), i > Len(b), i <= Len(b) + Len(v)
      PROVE  d[i].id = Failure
  <2>1. /\ i - Len(b) \in 1..Len(v) /\ (i - Len(b)) + Len(b) = i /\ i \in 1..Len(b2)
    BY <1>1, <1>2, <1>7
  <2>2. b2[i] = v[i - Len(b)] BY <1>2, <2>1
  <2>3. v[i - Len(b)].id = Failure BY <2>1
  <2>4. d[i] = [id |-> b2[i].id, cseq |-> b2[i].cseq] BY <1>4, <2>1
  <2>5. QED BY <2>2, <2>3, <2>4
<1>8. ASSUME NEW i \in 1..Len(d), d[i].id # Failure
      PROVE  i <= Len(b) \/ i > Len(b) + Len(v)
  <2>1. i \in Nat BY <1>1
  <2> SUFFICES ASSUME i > Len(b), i <= Len(b) + Len(v) PROVE FALSE BY <1>1, <2>1
  <2>2. QED BY <1>7, <1>8
<1>9. ASSUME NEW i \in 1..Len(d), d[i].id # Failure
      PROVE  f[i] \in 1..Len(c) /\ d[i] = c[f[i]]
  <2>1. CASE i <= Len(b)
    <3>1. i \in 1..Len(b) /\ i \in 1..Len(b2) /\ f[i] = i /\ i \in 1..Len(c)
      <4>1. i \in 1..Len(b) BY <1>1, <2>1
      <4>2. Len(b2) = Len(b) + Len(v) + n BY <1>2
      <4>3. Len(c) = Len(b) + Len(u) BY <1>3
      <4>4. i \in 1..Len(b2) /\ i \in 1..Len(c) BY <1>1, <4>1, <4>2, <4>3
      <4>5. f[i] = i BY <1>6, <2>1
      <4>6. QED BY <4>1, <4>4, <4>5
    <3>2. d[i] = [id |-> b2[i].id, cseq |-> b2[i].cseq] BY <1>4, <3>1
    <3>3. c[i] = [id |-> b[i].id, cseq |-> b[i].cseq] BY <1>3, <3>1
    <3>4. b2[i] = b[i] BY <1>2, <3>1
    <3>5. QED BY <3>1, <3>2, <3>3, <3>4
  <2>2. CASE i > Len(b) /\ i <= Len(b2)
    <3>1. i > Len(b) + Len(v)
      <4>1. i <= Len(b) \/ i > Len(b) + Len(v) BY <1>8, <1>9
      <4>2. i \in Nat BY <1>1
      <4>3. QED BY <1>1, <2>2, <4>1, <4>2
    <3> DEFINE j == i - (Len(b) + Len(v))
    <3>2. /\ j \in 1..n /\ j \in 1..Len(u) /\ j + Len(b) + Len(v) = i /\ i \in 1..Len(b2)
          /\ f[i] = j + Len(b) /\ f[i] \in 1..Len(c)
      <4>1. Len(b2) = Len(b) + Len(v) + n /\ Len(c) = Len(b) + Len(u) BY <1>2, <1>3
      <4>2. i \in 1..Len(d) /\ i \in Nat BY <1>1
      <4>3. /\ j \in 1..n /\ j \in 1..Len(u) /\ j + Len(b) + Len(v) = i
            /\ i \in 1..Len(b2)
        BY <1>1, <2>2, <3>1, <4>1, <4>2
      <4>4. ~(i <= Len(b)) /\ ~(i <= Len(b) + Len(v)) BY <1>1, <3>1, <4>2
      <4>5. f[i] = i - Len(v) BY <1>6, <4>2, <4>4
      <4>6. f[i] = j + Len(b) BY <1>1, <4>2, <4>5
      <4>7. f[i] \in 1..Len(c) BY <1>1, <4>1, <4>3, <4>6
      <4>8. QED BY <4>3, <4>6, <4>7
    <3> HIDE DEF j
    <3>3. d[i] = [id |-> a[j].id, cseq |-> a[j].cseq] BY <1>2, <1>4, <3>2
    <3>4. c[f[i]] = AnswerTo(u[j]) BY <1>3, <3>2
    <3>5. a[j].id = u[j].id /\ a[j].cseq = AnswerTo(u[j]).cseq BY <3>2
    <3>6. QED BY <3>2, <3>3, <3>4, <3>5 DEF AnswerTo
  <2>3. CASE i > Len(b2)
    <3> DEFINE j == i - Len(b2)
    <3>1. /\ j \in 1..Len(u2) /\ j + Len(b2) = i /\ j + n \in 1..Len(u)
          /\ f[i] = (j + n) + Len(b) /\ f[i] \in 1..Len(c)
      <4>1. /\ Len(b2) = Len(b) + Len(v) + n /\ Len(c) = Len(b) + Len(u)
            /\ Len(d) = Len(b2) + Len(u2)
        BY <1>2, <1>3, <1>4
      <4>2. i \in 1..Len(d) /\ i \in Nat BY <1>1
      <4>3. /\ j \in 1..Len(u2) /\ j + Len(b2) = i /\ j + n \in 1..Len(u)
        BY <1>1, <2>3, <4>1, <4>2
      <4>4. ~(i <= Len(b)) /\ ~(i <= Len(b) + Len(v)) BY <1>1, <2>3, <4>1, <4>2
      <4>5. f[i] = i - Len(v) BY <1>6, <4>2, <4>4
      <4>6. f[i] = (j + n) + Len(b) BY <1>1, <4>1, <4>2, <4>5
      <4>7. f[i] \in 1..Len(c) BY <1>1, <4>1, <4>3, <4>6
      <4>8. QED BY <4>3, <4>6, <4>7
    <3> HIDE DEF j
    <3>2. d[i] = AnswerTo(u2[j]) /\ c[f[i]] = AnswerTo(u[j + n]) BY <1>3, <1>4, <3>1
    <3>3. QED BY <1>1, <3>1, <3>2
  <2>4. QED BY <1>1, <1>2, <2>1, <2>2, <2>3
<1>10. ASSUME NEW i \in 1..Len(d), NEW j \in 1..Len(d), i < j,
              d[i].id # Failure, d[j].id # Failure
       PROVE  f[i] < f[j]
  <2>1. i \in Nat /\ j \in Nat BY <1>1
  <2>2. i <= Len(b) \/ i > Len(b) + Len(v) BY <1>8, <1>10
  <2>3. j <= Len(b) \/ j > Len(b) + Len(v) BY <1>8, <1>10
  <2>4. f[i] = (IF i <= Len(b) THEN i ELSE IF i <= Len(b) + Len(v) THEN 0 ELSE i - Len(v))
    BY <1>6
  <2>5. f[j] = (IF j <= Len(b) THEN j ELSE IF j <= Len(b) + Len(v) THEN 0 ELSE j - Len(v))
    BY <1>6
  <2>6. QED BY <1>1, <1>10, <2>1, <2>2, <2>3, <2>4, <2>5
<1>11. 0 + 1..Len(c) = 1..Len(c) OBVIOUS
<1>12. Within(d, c, 0) BY <1>5, <1>9, <1>10, <1>11 DEF Within
<1>13. QED BY <1>12 DEF c, d, b2

-----------------------------------------------------------------------------
(* What a response takes off the queue *)

LEMMA AnswerFacts ==
  ASSUME IInv
  PROVE  /\ buffer \in Seq(Responses) /\ unanswered \in Seq(Requests)
         /\ awaitingResponse \in Seq(Requests)
         /\ Len(buffer) \in Nat /\ Len(unanswered) \in Nat
         /\ Len(awaitingResponse) \in Nat
         /\ Len(Coming(buffer, unanswered)) = Len(buffer) + Len(unanswered)
         /\ \A p \in 1..Len(awaitingResponse) :
              /\ awaitingResponse[p] \in Requests
              /\ awaitingResponse[p].id # Failure
              /\ awaitingResponse[p].cseq \in Nat \ {0}
<1>1. /\ buffer \in Seq(Responses) /\ unanswered \in Seq(Requests)
      /\ awaitingResponse \in Seq(Requests)
  BY QueueTypes DEF IInv, TypeOK
<1>2. \A p \in 1..Len(awaitingResponse) : awaitingResponse[p] \in Requests BY <1>1
<1>3. \A r \in Requests : r.id # Failure /\ r.cseq \in Nat \ {0}
  BY RequestFacts, RtspClientAssumption DEF Failure
<1>4. QED BY <1>1, <1>2, <1>3, ComingFacts

\* The scan stops at the request of the response at the latest, and there if the
\* queue is in order.
LEMMA TakenUpTo ==
  ASSUME IInv, NEW p \in 1..Len(awaitingResponse), NEW c,
         c = AnswerTo(awaitingResponse[p]).cseq
  PROVE  /\ TakenFor(c) \in 1..p
         /\ InOrder /\ awaitingResponse[p] # GET => TakenFor(c) = p
<1> DEFINE S == {i \in 1..Len(awaitingResponse) : awaitingResponse[i].cseq >= c}
           first == CHOOSE i \in S : \A j \in S : i <= j
<1>1. /\ Len(awaitingResponse) \in Nat
      /\ \A i \in 1..Len(awaitingResponse) : awaitingResponse[i].cseq \in Nat \ {0}
  BY AnswerFacts
<1>2. c = IF awaitingResponse[p] = GET THEN 0 ELSE awaitingResponse[p].cseq
  BY DEF AnswerTo, Response
<1>3. TakenFor(c) = IF c = 0 THEN 1
                    ELSE IF S = {} THEN Len(awaitingResponse) + 1
                    ELSE IF awaitingResponse[first].cseq = c THEN first ELSE first + 1
  BY DEF TakenFor
<1>4. CASE awaitingResponse[p] = GET
  <2>1. TakenFor(c) = 1 BY <1>2, <1>3, <1>4
  <2>2. QED BY <1>4, <2>1
<1>5. CASE awaitingResponse[p] # GET
  <2>1. c = awaitingResponse[p].cseq /\ c # 0 /\ c \in Nat BY <1>1, <1>2, <1>5
  <2>2. p \in S BY <2>1
  <2>3. S \in SUBSET Nat /\ S # {} BY <1>1, <2>2
  <2>4. \E i \in S : \A j \in S : i <= j BY <2>3, LeastNat
  <2>5. first \in S /\ \A j \in S : first <= j BY <2>4
  <2>6. first \in 1..Len(awaitingResponse) /\ awaitingResponse[first].cseq >= c
        /\ first <= p
    BY <2>2, <2>5
  <2>7. TakenFor(c) = IF awaitingResponse[first].cseq = c THEN first ELSE first + 1
    BY <1>3, <2>1, <2>3
  <2> HIDE DEF first, S
  <2>8. TakenFor(c) \in 1..p
    <3>1. CASE awaitingResponse[first].cseq = c BY <2>6, <2>7, <3>1
    <3>2. CASE awaitingResponse[first].cseq # c
      <4>1. first # p BY <2>1, <3>2
      <4>2. QED BY <2>6, <2>7, <3>2, <4>1
    <3>3. QED BY <3>1, <3>2
  <2>9. ASSUME InOrder PROVE TakenFor(c) = p
    <3>1. first = p
      <4> SUFFICES ASSUME first < p PROVE FALSE BY <2>6
      <4>1. awaitingResponse[first].cseq < awaitingResponse[p].cseq
        BY <2>6, <2>9 DEF InOrder
      <4>2. QED BY <1>1, <2>1, <2>6, <4>1
    <3>2. QED BY <2>1, <2>7, <3>1
  <2>10. QED BY <1>5, <2>8, <2>9
<1>6. QED BY <1>4, <1>5

\* Steps after which fewer answers are to come, and nothing else.
LEMMA LessFits ==
  ASSUME IInv, Fits(Coming(buffer, unanswered), awaitingResponse), NEW m, NEW n,
         buffer' \in Seq(Responses), unanswered' \in Seq(Requests),
         RestOf(buffer, m, buffer'), RestOf(unanswered, n, unanswered'),
         awaitingResponse' = awaitingResponse
  PROVE  Fits(Coming(buffer', unanswered'), awaitingResponse')
<1> DEFINE c == Coming(buffer, unanswered)
           d == Coming(buffer', unanswered')
<1>1. Within(d, c, m) /\ m \in Nat BY AnswerFacts, ComingRest DEF RestOf
<1>2. Len(c) \in Nat /\ Len(d) \in Nat BY AnswerFacts, ComingFacts
<1>3. Fits(c, awaitingResponse) OBVIOUS
<1> HIDE DEF c, d
<1>4. Within(d, c, 0)
  <2>1. \A i \in m + 1..Len(c) : i \in 0 + 1..Len(c) BY <1>1
  <2>2. PICK f \in [1..Len(d) -> Nat] :
          /\ \A i \in 1..Len(d) :
               d[i].id # Failure => f[i] \in m + 1..Len(c) /\ d[i] = c[f[i]]
          /\ \A i, j \in 1..Len(d) :
               i < j /\ d[i].id # Failure /\ d[j].id # Failure => f[i] < f[j]
    BY <1>1 DEF Within
  <2>3. QED BY <2>1, <2>2 DEF Within
<1>5. Fits(d, awaitingResponse) BY <1>2, <1>3, <1>4, AnswerFacts, FitsFewer
<1>6. QED BY <1>5 DEF d

LEMMA RestsOf ==
  ASSUME NEW S, NEW s \in Seq(S)
  PROVE  /\ RestOf(s, 0, s) /\ RestOf(s, Len(s), <<>>)
         /\ s # <<>> => RestOf(s, 1, Tail(s)) /\ Len(s) >= 1
         /\ \A k \in 0..Len(s) : RestOf(s, k, SubSeq(s, k + 1, Len(s)))
<1>1. Len(s) \in Nat OBVIOUS
<1>2. RestOf(s, 0, s) /\ RestOf(s, Len(s), <<>>) BY <1>1 DEF RestOf
<1>3. ASSUME s # <<>> PROVE RestOf(s, 1, Tail(s)) /\ Len(s) >= 1
  <2>1. /\ Len(s) >= 1 /\ Len(Tail(s)) = Len(s) - 1
        /\ \A i \in 1..Len(Tail(s)) : Tail(s)[i] = s[i + 1]
    BY <1>3
  <2>2. QED BY <1>1, <2>1 DEF RestOf
<1>4. ASSUME NEW k \in 0..Len(s) PROVE RestOf(s, k, SubSeq(s, k + 1, Len(s)))
  <2>1. /\ Len(SubSeq(s, k + 1, Len(s))) = Len(s) - k
        /\ \A i \in 1..Len(s) - k : SubSeq(s, k + 1, Len(s))[i] = s[i + k]
    OBVIOUS
  <2>2. QED BY <1>1, <2>1 DEF RestOf
<1>5. QED BY <1>2, <1>3, <1>4

-----------------------------------------------------------------------------
(* Sending keeps the order *)

\* A request that is being sent is not yet in the queue.
LEMMA SentIsNew ==
  ASSUME IInv, Waits, ~broken, Doing("send") \/ Doing("resend"),
         NEW r \in Requests,
         \/ r = Head(todo).req /\ r \in Commands
         \/ r = GET /\ tunnel /\ output = "same" /\ awaitingConnection = <<>>
  PROVE  \A p \in 1..Len(awaitingResponse) : awaitingResponse[p].id # r.id
<1>1. CASE r = Head(todo).req /\ r \in Commands
  <2>1. r.id \in Ids BY <1>1, CommandFacts
  <2>2. todo \in Seq(Steps) /\ todo # <<>> /\ Acts(Head(todo), r.id)
    BY <1>1 DEF IInv, TypeOK, Doing, Acts
  <2>3. Intends(todo, r.id) = 1 + Intends(Tail(todo), r.id)
        /\ Intends(Tail(todo), r.id) \in Nat
    <3>1. Tail(todo) \in Seq(Steps) BY <2>2
    <3>2. QED BY <2>2, <3>1, IntendsTail, IntendsNat
  <2>4. Total(r.id) = 1 \/ Total(r.id) = 0 BY <2>1 DEF IInv, Accounted
  <2>5. Copies(awaitingResponse, r.id) = 0
    <3> DEFINE a == Copies(awaitingConnection, r.id)
               b == Copies(awaitingTunneling, r.id)
               c == Copies(awaitingResponse, r.id)
               l == Len(outcomes[r.id])
               d == IF r.id \in dropped THEN 1 ELSE 0
               t == Intends(Tail(todo), r.id)
    <3>1. a \in Nat /\ b \in Nat /\ c \in Nat /\ l \in Nat /\ d \in Nat /\ t \in Nat
      BY <2>1, <2>3, QueueTypes
    <3>2. Total(r.id) = a + b + c + (1 + t) + l + d BY <2>3 DEF Total
    <3> HIDE DEF a, b, c, l, d, t
    <3>3. c = 0 BY <2>4, <3>1, <3>2
    <3>4. QED BY <3>3 DEF c
  <2>6. awaitingResponse \in Seq(Requests) BY QueueTypes
  <2>7. {i \in 1..Len(awaitingResponse) : awaitingResponse[i].id = r.id} = {}
    <3> DEFINE S == {i \in 1..Len(awaitingResponse) : awaitingResponse[i].id = r.id}
    <3>1. IsFiniteSet(S) BY <2>6, CopiesNat
    <3>2. Cardinality(S) = 0 BY <2>5 DEF Copies
    <3> HIDE DEF S
    <3>3. S = {} BY <3>1, <3>2, FS_EmptySet
    <3>4. QED BY <3>3 DEF S
  <2>8. QED BY <2>7
<1>2. CASE r = GET /\ tunnel /\ output = "same" /\ awaitingConnection = <<>>
  <2>1. TunnelFirst
    BY <1>2 DEF Waits, Direct, TunnelSecond, TunnelStuck, TunnelOpen, AllForSecond
  <2>2. awaitingResponse = <<>> BY <2>1, SendingFacts DEF TunnelFirst
  <2>3. QED BY <2>2
<1>3. QED BY <1>1, <1>2

LEMMA TransmitFits ==
  ASSUME IInv, Waits, ~broken, Doing("send") \/ Doing("resend"),
         NEW r \in Requests, Transmit(r), buffer' = buffer,
         \/ r = Head(todo).req /\ r \in Commands
         \/ r = GET /\ tunnel /\ output = "same" /\ awaitingConnection = <<>>,
         Fits(Coming(buffer, unanswered), awaitingResponse)
  PROVE  Fits(Coming(buffer', unanswered'), awaitingResponse')
<1>1. \A p \in 1..Len(awaitingResponse) : awaitingResponse[p].id # r.id BY SentIsNew
<1>2. Fits(Coming(buffer, Append(unanswered, r)), Append(awaitingResponse, r))
  BY <1>1, AnswerFacts, FitsOneMore
<1>3. QED BY <1>2 DEF Transmit

LEMMA SendRequestFits ==
  ASSUME IInv, Waits, ~broken, SendRequest,
         Fits(Coming(buffer, unanswered), awaitingResponse)
  PROVE  Fits(Coming(buffer', unanswered'), awaitingResponse')
<1> DEFINE r == Head(todo).req
           rest == Tail(todo)
           failed == Failed(Head(todo))
<1>1. (Doing("send") \/ Doing("resend")) /\ buffer' = buffer BY DEF SendRequest
<1>2. r \in Requests BY <1>1, SendingFacts
<1>3. CASE unanswered' = unanswered /\ awaitingResponse' = awaitingResponse
  BY <1>1, <1>3
<1>4. CASE EnqueueBehind(r, rest) BY <1>3, <1>4 DEF EnqueueBehind, sockets
<1>5. CASE OpenConnection(r, rest, failed) BY <1>3, <1>5 DEF OpenConnection
<1>6. CASE /\ awaitingConnection = <<>> /\ tunnel /\ output = "same"
           /\ SetupTunnel(r, rest, failed)
  <2>1. GET \in Requests BY StepFacts
  <2>2. CASE Transmit(GET) BY <1>1, <1>6, <2>1, <2>2, TransmitFits
  <2>3. QED BY <1>3, <1>6, <2>2 DEF SetupTunnel
<1>7. CASE /\ awaitingConnection = <<>> /\ ~(tunnel /\ r # GET /\ output = "same")
           /\ Transfer(r, rest, failed)
  <2>1. CASE Transmit(r)
    <3>1. CASE r \in Commands BY <1>1, <1>2, <2>1, <3>1, TransmitFits
    <3>2. CASE r = GET
      <4>1. todo \notin Seq(Plain) BY <1>1, <3>2, SendingFacts, CommandFacts
      <4>2. TunnelFirst
        BY <1>7, <4>1 DEF Waits, Direct, TunnelSecond, TunnelStuck, TunnelOpen,
                          AllForSecond
      <4>3. tunnel /\ output = "same" BY <4>2 DEF TunnelFirst, BeforeTunnel
      <4>4. QED BY <1>1, <1>2, <1>7, <2>1, <3>2, <4>3, TransmitFits
    <3>3. QED BY <1>2, <3>1, <3>2, CommandFacts
  <2>2. QED BY <1>3, <1>7, <2>1 DEF Transfer
<1>8. QED BY <1>4, <1>5, <1>6, <1>7 DEF SendRequest

-----------------------------------------------------------------------------
(* Responses keep the order *)

\* The response that is handled answers a request of the queue, and takes no more
\* than the requests up to it.
LEMMA HeadAnswers ==
  ASSUME IInv, Named, Fits(Coming(buffer, unanswered), awaitingResponse),
         Doing("parse"), Head(buffer).code # "request"
  PROVE  \E p \in 1..Len(awaitingResponse) :
           /\ awaitingResponse[p].id = Head(buffer).id
           /\ awaitingResponse[p].id = Coming(buffer, unanswered)[1].id
           /\ TakenFor(Head(buffer).cseq) \in 1..p
           /\ InOrder /\ awaitingResponse[p] # GET => TakenFor(Head(buffer).cseq) = p
<1> DEFINE c == Coming(buffer, unanswered)
<1>1. buffer # <<>> /\ buffer \in Seq(Responses) BY ParseFacts, AnswerFacts
<1>2. 1 \in 1..Len(buffer) /\ Head(buffer) = buffer[1] BY <1>1
<1>3. Head(buffer).id # Failure BY <1>2 DEF Named
<1>4. 1 \in 1..Len(c) /\ c[1] = [id |-> Head(buffer).id, cseq |-> Head(buffer).cseq]
  BY <1>2, AnswerFacts, ComingFacts
<1>5. Fits(c, awaitingResponse) OBVIOUS
<1> HIDE DEF c
<1>6. c[1].id = Head(buffer).id /\ c[1].cseq = Head(buffer).cseq BY <1>4
<1>7. PICK p \in 1..Len(awaitingResponse) : awaitingResponse[p].id = c[1].id
  BY <1>3, <1>4, <1>5, <1>6 DEF Fits
<1>8. c[1] = AnswerTo(awaitingResponse[p]) BY <1>4, <1>5, <1>7 DEF Fits
<1>9. Head(buffer).cseq = AnswerTo(awaitingResponse[p]).cseq BY <1>6, <1>8
<1>10. QED BY <1>6, <1>7, <1>9, TakenUpTo DEF c

LEMMA FrontMember ==
  ASSUME NEW S, NEW e, NEW m \in Seq(S)
  PROVE  \A i \in 1..Len(<<e>> \o m) :
           (<<e>> \o m)[i] = e \/ \E j \in 1..Len(m) : (<<e>> \o m)[i] = m[j]
<1> DEFINE t == <<e>> \o m
<1>1. /\ Len(t) = 1 + Len(m) /\ Len(m) \in Nat /\ t[1] = e
      /\ \A i \in 1..Len(t) : i > 1 => t[i] = m[i - 1]
  OBVIOUS
<1> HIDE DEF t
<1>2. \A i \in 1..Len(t) : i = 1 \/ (i > 1 /\ i - 1 \in 1..Len(m)) BY <1>1
<1>3. \A i \in 1..Len(t) : t[i] = e \/ \E j \in 1..Len(m) : t[i] = m[j] BY <1>1, <1>2
<1>4. QED BY <1>3 DEF t

\* What a turn of the loop does to the queue, and the calls that it leaves to do.
LEMMA ParseShape ==
  ASSUME IInv, ParseResponse
  PROVE  /\ Doing("parse") /\ buffer' \in {<<>>, Tail(buffer), buffer}
         /\ unanswered' \in {unanswered, <<>>}
         /\ \/ /\ awaitingResponse' = awaitingResponse /\ dropped' = dropped
               /\ \A i \in 1..Len(todo') : todo'[i].do # "call"
            \/ /\ Head(buffer).code # "request"
               /\ Take(TakenFor(Head(buffer).cseq)) \/ Pass(TakenFor(Head(buffer).cseq))
               /\ kept' \/ buffer' \in {<<>>, Tail(buffer)}
         /\ \A i \in 1..Len(todo') : todo'[i].do = "call" =>
              /\ todo'[i].from \in {Failure, Head(buffer).id}
              /\ TakenFor(Head(buffer).cseq) <= Len(awaitingResponse)
              /\ todo'[i].req = awaitingResponse[TakenFor(Head(buffer).cseq)]
<1> DEFINE k == TakenFor(Head(buffer).cseq)
           response == Head(buffer)
           extra == Tail(buffer)
           request == awaitingResponse[k]
           Good(t) == \A i \in 1..Len(t) : t[i].do = "call" =>
                        t[i].from \in {Failure, response.id} /\ t[i].req = request
           Silent(t) == \A i \in 1..Len(t) : t[i].do # "call"
<1>1. Silent(<<>>) /\ Silent(More(extra))
  <2>1. ParseMore.do # "call" BY StepFacts
  <2>2. Silent(<<ParseMore>>) BY <2>1
  <2>3. QED BY <2>2 DEF More
<1>2. ASSUME NEW r PROVE Silent(<<Entry("resend", r)>>) BY DEF Entry
<1>3. ASSUME NEW from \in {Failure, response.id}, NEW ok
      PROVE  /\ Good(<<Call(request, from, ok)>>)
             /\ Good(<<Call(request, from, ok)>> \o More(extra))
  <2> DEFINE e == Call(request, from, ok)
  <2>1. e.req = request /\ e.from = from BY DEF Call
  <2> HIDE DEF e
  <2>2. Good(<<e>>) BY <1>3, <2>1
  <2> DEFINE m == More(extra)
  <2>3. m \in Seq(Steps) /\ Silent(m) BY <1>1, StepFacts DEF More
  <2> HIDE DEF m
  <2>4. \A i \in 1..Len(<<e>> \o m) :
          (<<e>> \o m)[i] = e \/ \E j \in 1..Len(m) : (<<e>> \o m)[i] = m[j]
    BY <2>3, FrontMember
  <2>5. Good(<<e>> \o m) BY <1>3, <2>1, <2>3, <2>4
  <2>6. QED BY <2>2, <2>5 DEF e, m
<1>4. ASSUME NEW q, Handle(response, extra, q), q = request
      PROVE  /\ Good(todo') /\ buffer' \in {<<>>, extra}
             /\ unanswered' \in {unanswered, <<>>}
  <2>1. CASE /\ buffer' \in {extra, <<>>} /\ UNCHANGED sockets
             /\ \E from \in {Failure, response.id} : \E ok :
                  \/ todo' = <<Call(request, from, ok)>>
                  \/ todo' = <<Call(request, from, ok)>> \o More(extra)
    <3>1. PICK from \in {Failure, response.id} : \E ok :
                  \/ todo' = <<Call(request, from, ok)>>
                  \/ todo' = <<Call(request, from, ok)>> \o More(extra)
      BY <2>1
    <3>2. Good(todo')
      <4> HIDE DEF Good, request, response, extra
      <4>1. QED BY <1>3, <3>1
    <3>3. QED BY <2>1, <3>2 DEF sockets
  <2>2. CASE \E reset : Resend(q, reset)
    <3>1. PICK reset : Resend(q, reset) BY <2>2
    <3>2. \E r : todo' = <<Entry("resend", r)>> BY <3>1 DEF Resend
    <3>3. Good(todo') BY <1>2, <3>2
    <3>4. buffer' = <<>> /\ unanswered' \in {unanswered, <<>>}
      BY <3>1 DEF Resend, ResetTCPSockets, sockets
    <3>5. QED BY <3>3, <3>4
  <2>3. (\E reset : Resend(q, reset))
          \/ (/\ buffer' \in {extra, <<>>} /\ UNCHANGED sockets
              /\ \E from \in {Failure, response.id} : \E ok :
                   \/ todo' = <<Call(request, from, ok)>>
                   \/ todo' = <<Call(request, from, ok)>> \o More(extra))
    <3> HIDE DEF extra, request, response
    <3>1. QED BY <1>4 DEF Handle
  <2>4. QED BY <2>1, <2>2, <2>3
<1>5. CASE BreakOff /\ UNCHANGED sockets
  <2>1. buffer' \in {<<>>, buffer} /\ todo' = <<>> /\ unanswered' = unanswered
        /\ awaitingResponse' = awaitingResponse /\ dropped' = dropped
    BY <1>5 DEF BreakOff, Left, sockets
  <2>2. QED BY <1>1, <2>1 DEF ParseResponse
<1>6. CASE response.code # "request" /\ BreakOffLate(response, k) /\ UNCHANGED sockets
  <2>1. /\ buffer' \in {<<>>, buffer} /\ unanswered' = unanswered
        /\ kept' \/ buffer' = <<>>
    BY <1>6 DEF BreakOffLate, Left, sockets
  <2>2. CASE k <= Len(awaitingResponse) /\ Take(k) /\ todo' = <<Call(request, Failure, FALSE)>>
    <3>1. Good(todo')
      <4> HIDE DEF Good, request
      <4>1. QED BY <1>3, <2>2
    <3>2. QED BY <1>6, <2>1, <2>2, <3>1 DEF ParseResponse
  <2>3. CASE Pass(k) /\ todo' = <<>> BY <1>1, <1>6, <2>1, <2>3 DEF ParseResponse
  <2>4. QED BY <1>6, <2>2, <2>3 DEF BreakOffLate
<1>7. CASE response.code # "request" /\ ParseWhole(response, extra, k)
  <2>1. Take(k) BY <1>7 DEF ParseWhole
  <2>2. CASE k <= Len(awaitingResponse) /\ Handle(response, extra, request)
    <3>1. Good(todo') /\ buffer' \in {<<>>, extra} /\ unanswered' \in {unanswered, <<>>}
      BY <1>4, <2>2
    <3>2. QED BY <1>7, <2>1, <2>2, <3>1 DEF ParseResponse
  <2>3. CASE buffer' = extra /\ todo' = More(extra) /\ UNCHANGED sockets
    <3>1. Silent(todo')
      <4> HIDE DEF extra
      <4>1. QED BY <1>1, <2>3
    <3>2. QED BY <1>7, <2>1, <2>3, <3>1 DEF ParseResponse, sockets
  <2>4. QED BY <1>7, <2>2, <2>3 DEF ParseWhole
<1>8. \/ BreakOff /\ UNCHANGED sockets
      \/ response.code # "request" /\ BreakOffLate(response, k) /\ UNCHANGED sockets
      \/ response.code # "request" /\ ParseWhole(response, extra, k)
  <2> HIDE DEF extra, k
  <2>1. QED BY DEF ParseResponse, k, extra
<1>9. QED BY <1>5, <1>6, <1>7, <1>8

\* A turn that leaves everything in the buffer leaves the queue alone, or has kept a
\* response of which the request was taken.
LEMMA ParseFits ==
  ASSUME IInv, Named, ParseResponse, ~kept',
         Fits(Coming(buffer, unanswered), awaitingResponse)
  PROVE  Fits(Coming(buffer', unanswered'), awaitingResponse')
<1> DEFINE c == Coming(buffer, unanswered)
           d == Coming(buffer', unanswered')
           k == TakenFor(Head(buffer).cseq)
<1>1. /\ Doing("parse") /\ buffer' \in {<<>>, Tail(buffer), buffer}
      /\ unanswered' \in {unanswered, <<>>}
      /\ \/ awaitingResponse' = awaitingResponse
         \/ /\ Head(buffer).code # "request" /\ (Take(k) \/ Pass(k))
            /\ buffer' \in {<<>>, Tail(buffer)}
  <2>1. /\ \/ awaitingResponse' = awaitingResponse
           \/ /\ Head(buffer).code # "request" /\ (Take(k) \/ Pass(k))
              /\ kept' \/ buffer' \in {<<>>, Tail(buffer)}
    BY ParseShape
  <2>2. QED BY <2>1, ParseShape
<1>2. buffer # <<>> /\ buffer \in Seq(Responses) /\ unanswered \in Seq(Requests)
      /\ awaitingResponse \in Seq(Requests)
  BY <1>1, ParseFacts, AnswerFacts
<1>3. PICK m \in 0..Len(buffer) :
        RestOf(buffer, m, buffer') /\ (buffer' \in {<<>>, Tail(buffer)} => m >= 1)
  <2>1. RestOf(buffer, Len(buffer), <<>>) /\ RestOf(buffer, 1, Tail(buffer))
        /\ Len(buffer) >= 1 /\ Len(buffer) \in Nat /\ RestOf(buffer, 0, buffer)
    BY <1>2, RestsOf
  <2>2. /\ Len(buffer) \in 0..Len(buffer) /\ 1 \in 0..Len(buffer) /\ 0 \in 0..Len(buffer)
    BY <2>1
  <2>3. CASE buffer' = <<>> BY <2>1, <2>2, <2>3
  <2>4. CASE buffer' = Tail(buffer) BY <2>1, <2>2, <2>4
  <2>5. CASE buffer' = buffer /\ buffer' \notin {<<>>, Tail(buffer)} BY <2>1, <2>2, <2>5
  <2>6. QED BY <1>1, <2>3, <2>4, <2>5
<1>4. PICK n \in Nat : RestOf(unanswered, n, unanswered')
  <2>1. RestOf(unanswered, 0, unanswered) /\ RestOf(unanswered, Len(unanswered), <<>>)
        /\ Len(unanswered) \in Nat
    BY <1>2, RestsOf
  <2>2. QED BY <1>1, <2>1
<1>5. buffer' \in Seq(Responses) /\ unanswered' \in Seq(Requests)
  <2>1. <<>> \in Seq(Responses) /\ Tail(buffer) \in Seq(Responses) /\ <<>> \in Seq(Requests)
    BY <1>2
  <2>2. QED BY <1>1, <1>2, <2>1
<1>6. CASE awaitingResponse' = awaitingResponse BY <1>3, <1>4, <1>5, <1>6, LessFits
<1>7. CASE /\ Head(buffer).code # "request" /\ (Take(k) \/ Pass(k))
           /\ buffer' \in {<<>>, Tail(buffer)}
  <2>1. PICK p \in 1..Len(awaitingResponse) :
          awaitingResponse[p].id = c[1].id /\ k \in 1..p
    BY <1>1, <1>7, HeadAnswers
  <2>2. Within(d, c, m) BY <1>2, <1>3, <1>4, <1>5, ComingRest
  <2>3. Len(awaitingResponse) \in Nat /\ k \in 0..Len(awaitingResponse) /\ k <= p
        /\ k - 1 \in 0..Len(awaitingResponse) /\ k - 1 <= p /\ (k - 1) + 1 = k
    BY <1>2, <2>1
  <2>4. PICK t \in {k, k - 1} : RestOf(awaitingResponse, t, awaitingResponse')
    <3>1. CASE Take(k)
      <4>1. awaitingResponse' = SubSeq(awaitingResponse, k + 1, Len(awaitingResponse))
        BY <3>1 DEF Take
      <4> HIDE DEF k
      <4>2. RestOf(awaitingResponse, k, awaitingResponse') BY <1>2, <2>3, <4>1, RestsOf
      <4>3. QED BY <4>2
    <3>2. CASE Pass(k)
      <4>1. awaitingResponse' = SubSeq(awaitingResponse, k, Len(awaitingResponse))
        BY <3>2 DEF Pass
      <4> HIDE DEF k
      <4>2. RestOf(awaitingResponse, k - 1,
                   SubSeq(awaitingResponse, (k - 1) + 1, Len(awaitingResponse)))
        BY <1>2, <2>3, RestsOf
      <4>3. QED BY <2>3, <4>1, <4>2
    <3>3. QED BY <1>7, <3>1, <3>2
  <2>5. Fits(c, awaitingResponse) OBVIOUS
  <2>6. /\ Len(c) \in Nat /\ Len(d) \in Nat /\ 1 \in 1..Len(c) /\ m \in Nat /\ 1 <= m
    <3>1. Len(c) = Len(buffer) + Len(unanswered) /\ Len(buffer) \in Nat
          /\ Len(unanswered) \in Nat
      BY AnswerFacts
    <3>2. Len(d) \in Nat BY <1>5, ComingFacts
    <3>3. m >= 1 BY <1>3, <1>7
    <3> HIDE DEF c, d
    <3>4. QED BY <1>3, <3>1, <3>2, <3>3
  <2> HIDE DEF c, d, k
  <2>7. t <= p BY <2>3, <2>4
  <2>8. \A i \in 1..Len(awaitingResponse) : awaitingResponse[i].id # Failure
    BY AnswerFacts
  <2>9. awaitingResponse[p].id = c[1].id /\ p \in 1..Len(awaitingResponse) BY <2>1
  <2>10. Fits(d, awaitingResponse')
    BY <2>2, <2>4, <2>5, <2>6, <2>7, <2>8, <2>9, FitsBehind
  <2>11. QED BY <2>10 DEF d
<1>8. QED BY <1>1, <1>6, <1>7

\* What a turn of the loop drops the server does not have.
LEMMA ParseDrops ==
  ASSUME IInv, Named, ParseResponse,
         Fits(Coming(buffer, unanswered), awaitingResponse),
         NEW id \in dropped' \ dropped
  PROVE  id \notin {r.id : r \in Members(unanswered)}
<1> DEFINE c == Coming(buffer, unanswered)
           k == TakenFor(Head(buffer).cseq)
<1>1. Doing("parse") /\ Head(buffer).code # "request" /\ (Take(k) \/ Pass(k))
  <2> HIDE DEF k
  <2>1. dropped' # dropped OBVIOUS
  <2>2. QED BY <2>1, ParseShape DEF k
<1>2. PICK p \in 1..Len(awaitingResponse) :
        awaitingResponse[p].id = c[1].id /\ k \in 1..p
  BY <1>1, HeadAnswers
<1>3. PICK i \in 1..k - 1 : awaitingResponse[i].id = id BY <1>1 DEF Take, Pass
<1>4. i \in 1..Len(awaitingResponse) /\ i < p
  <2>1. Len(awaitingResponse) \in Nat BY AnswerFacts
  <2> HIDE DEF k
  <2>2. QED BY <1>2, <1>3, <2>1
<1> SUFFICES ASSUME NEW j \in 1..Len(unanswered), unanswered[j].id = id
             PROVE  FALSE
  BY DEF Members
<1>5. /\ j + Len(buffer) \in 1..Len(c) /\ c[j + Len(buffer)] = AnswerTo(unanswered[j])
  BY AnswerFacts, ComingFacts
<1>6. c[j + Len(buffer)].id = id BY <1>5 DEF AnswerTo
<1>7. 1 \in 1..Len(c) /\ 1 < j + Len(buffer)
  <2>1. buffer # <<>> /\ buffer \in Seq(Responses) BY <1>1, ParseFacts, AnswerFacts
  <2>2. Len(buffer) \in Nat /\ Len(buffer) >= 1 /\ Len(unanswered) \in Nat
        /\ Len(c) = Len(buffer) + Len(unanswered)
    BY <2>1, AnswerFacts
  <2> HIDE DEF c
  <2>3. QED BY <2>2
<1>8. Fits(c, awaitingResponse) OBVIOUS
<1> HIDE DEF c, k
<1>9. p < i
  <2>1. \A a, e \in 1..Len(c) : \A x, z \in 1..Len(awaitingResponse) :
          a < e /\ awaitingResponse[x].id = c[a].id /\ awaitingResponse[z].id = c[e].id
            => x < z
    BY <1>8 DEF Fits
  <2>2. awaitingResponse[i].id = c[j + Len(buffer)].id BY <1>3, <1>6
  <2>3. QED BY <1>2, <1>4, <1>5, <1>7, <2>1, <2>2
<1>10. QED BY <1>4, <1>9

\* Where the GET is in the queue it is alone there.
LEMMA GETAlone ==
  ASSUME Waits, ~broken, NEW p \in 1..Len(awaitingResponse), awaitingResponse[p] = GET
  PROVE  p = 1
<1>1. awaitingResponse \notin Seq(Commands)
  <2> SUFFICES ASSUME awaitingResponse \in Seq(Commands) PROVE FALSE OBVIOUS
  <2>1. awaitingResponse[p] \in Commands OBVIOUS
  <2>2. QED BY <2>1, CommandFacts
<1>2. awaitingResponse # <<>> OBVIOUS
<1>3. TunnelFirst
  BY <1>1, <1>2 DEF Waits, Direct, TunnelSecond, TunnelStuck, TunnelOpen, AllForSecond
<1>4. awaitingResponse = <<GET>> BY <1>2, <1>3 DEF TunnelFirst
<1>5. QED BY <1>4

\* A turn of the loop calls a handler with its own answer, or an error.
LEMMA ParseRight ==
  ASSUME IInv, Waits, ~broken, Named, ParseResponse, InOrder,
         Fits(Coming(buffer, unanswered), awaitingResponse),
         NEW i \in 1..Len(todo'), todo'[i].do = "call"
  PROVE  todo'[i].from \in {Failure, todo'[i].req.id}
<1> DEFINE k == TakenFor(Head(buffer).cseq)
<1>1. /\ Doing("parse") /\ Head(buffer).code # "request"
      /\ todo'[i].from \in {Failure, Head(buffer).id}
      /\ todo'[i].req = awaitingResponse[k]
  BY ParseShape
<1>2. PICK p \in 1..Len(awaitingResponse) :
        /\ awaitingResponse[p].id = Head(buffer).id
        /\ k \in 1..p
        /\ awaitingResponse[p] # GET => k = p
  BY <1>1, HeadAnswers
<1> HIDE DEF k
<1>3. k = p
  <2>1. CASE awaitingResponse[p] = GET
    <3>1. p = 1 BY <2>1, GETAlone
    <3>2. QED BY <1>2, <3>1
  <2>2. QED BY <1>2, <2>1
<1>4. QED BY <1>1, <1>2, <1>3

LEMMA AnswersFacts ==
  ASSUME IInv, NEW n \in 1..Len(unanswered), NEW codes \in [1..n -> Codes]
  PROVE  /\ Answers(n, codes) \in Seq(Responses) /\ Len(Answers(n, codes)) = n
         /\ \A i \in 1..n :
              /\ Answers(n, codes)[i].id = unanswered[i].id
              /\ Answers(n, codes)[i].cseq = AnswerTo(unanswered[i]).cseq
<1> DEFINE a == Answers(n, codes)
<1>1. unanswered \in Seq(Requests) BY AnswerFacts
<1>2. \A i \in 1..n : unanswered[i] \in Requests /\ codes[i] \in Codes BY <1>1
<1>3. \A r \in Requests : \A x \in Codes : Response(r, x) \in Responses
  BY RtspClientAssumption, RequestFacts DEF Response, Responses
<1>4. \A i \in 1..n : Response(unanswered[i], codes[i]) \in Responses BY <1>2, <1>3
<1>5. a \in [1..n -> Responses] BY <1>4 DEF Answers
<1>6. Len(a) = n /\ n \in Nat BY DEF Answers
<1>7. \A i \in 1..n : /\ a[i].id = unanswered[i].id
                      /\ a[i].cseq = AnswerTo(unanswered[i]).cseq
  BY DEF Answers, Response, AnswerTo
<1> HIDE DEF a
<1>8. a \in Seq(Responses) BY <1>5, <1>6
<1>9. QED BY <1>6, <1>7, <1>8 DEF a

\* What a read brings answers the requests that the server has had longest.
LEMMA ReadFits ==
  ASSUME IInv, ReadResponses, repeats' = repeats, Named,
         Fits(Coming(buffer, unanswered), awaitingResponse)
  PROVE  Fits(Coming(buffer', unanswered'), awaitingResponse')
<1>1. PICK n \in 1..2 : \E codes \in [1..n -> Codes] :
        /\ n <= Len(unanswered)
        /\ \/ buffer' = buffer \o Answers(n, codes)
           \/ buffer' = buffer \o <<ServerRequest>> \o Answers(n, codes)
        /\ unanswered' = SubSeq(unanswered, n + 1, Len(unanswered))
  <2>1. repeats' # repeats + 1 BY DEF IInv, TypeOK
  <2>2. QED BY <2>1 DEF ReadResponses, Answers
<1>2. PICK codes \in [1..n -> Codes] :
        /\ n <= Len(unanswered)
        /\ \/ buffer' = buffer \o Answers(n, codes)
           \/ buffer' = buffer \o <<ServerRequest>> \o Answers(n, codes)
        /\ unanswered' = SubSeq(unanswered, n + 1, Len(unanswered))
  BY <1>1
<1>3. /\ buffer \in Seq(Responses) /\ unanswered \in Seq(Requests)
      /\ awaitingResponse' = awaitingResponse /\ awaitingResponse \in Seq(Requests)
      /\ Len(unanswered) \in Nat
  BY AnswerFacts DEF ReadResponses, queues
<1>4. n \in 1..Len(unanswered) /\ n \in 0..Len(unanswered) BY <1>2, <1>3
<1> DEFINE a == Answers(n, codes)
<1>5. /\ a \in Seq(Responses) /\ Len(a) = n
      /\ \A i \in 1..n : a[i].id = unanswered[i].id
                         /\ a[i].cseq = AnswerTo(unanswered[i]).cseq
  BY <1>4, AnswersFacts
<1>6. RestOf(unanswered, n, unanswered') /\ unanswered' \in Seq(Requests)
  <2>1. RestOf(unanswered, n, unanswered') BY <1>2, <1>3, <1>4, RestsOf
  <2>2. unanswered' \in Seq(Requests) BY <1>2, <1>3, <1>4, CopiesFrom
  <2>3. QED BY <2>1, <2>2
<1> HIDE DEF a
<1>7. ASSUME NEW v \in Seq(Responses), \A i \in 1..Len(v) : v[i].id = Failure,
             buffer' = buffer \o v \o a
      PROVE  Fits(Coming(buffer', unanswered'), awaitingResponse')
  <2> DEFINE c == Coming(buffer, unanswered)
             b == buffer \o v \o a
             d == Coming(b, unanswered')
  <2>1. Within(d, c, 0) BY <1>3, <1>4, <1>5, <1>6, <1>7, ComingRead
  <2>2. b \in Seq(Responses) BY <1>3, <1>5, <1>7, ConcatSeq
  <2>3. Len(c) \in Nat /\ Len(d) \in Nat
    <3>1. Len(c) \in Nat BY AnswerFacts
    <3> HIDE DEF b
    <3>2. Len(d) = Len(b) + Len(unanswered') /\ Len(b) \in Nat /\ Len(unanswered') \in Nat
      BY <1>6, <2>2, ComingFacts
    <3>3. QED BY <3>1, <3>2
  <2>4. Fits(c, awaitingResponse) OBVIOUS
  <2> HIDE DEF c, d, b
  <2>5. Fits(d, awaitingResponse) BY <2>1, <2>3, <2>4, AnswerFacts, FitsFewer
  <2>6. QED BY <1>3, <1>7, <2>5 DEF d, b
<1>8. CASE buffer' = buffer \o a
  <2>1. buffer \o <<>> = buffer BY <1>3
  <2>2. <<>> \in Seq(Responses) /\ \A i \in 1..Len(<<>>) : <<>>[i].id = Failure OBVIOUS
  <2>3. buffer' = buffer \o <<>> \o a BY <1>8, <2>1
  <2>4. QED BY <1>7, <2>2, <2>3
<1>9. CASE buffer' = buffer \o <<ServerRequest>> \o a
  <2> DEFINE v == <<ServerRequest>>
  <2>1. ServerRequest \in Responses /\ ServerRequest.id = Failure
    BY RtspClientAssumption DEF ServerRequest, Responses, Failure
  <2>2. v \in Seq(Responses) /\ \A i \in 1..Len(v) : v[i].id = Failure BY <2>1
  <2> HIDE DEF v
  <2>3. buffer' = buffer \o v \o a BY <1>9 DEF v
  <2>4. QED BY <1>7, <2>2, <2>3
<1>10. QED BY <1>2, <1>8, <1>9 DEF a

\* When the headers have been read the request found stays, those before it go.
LEMMA HeadersFit ==
  ASSUME IInv, ReadHeaders, Fits(Coming(buffer, unanswered), awaitingResponse)
  PROVE  /\ Fits(Coming(buffer', unanswered'), awaitingResponse')
         /\ \A id \in dropped' \ dropped : id \notin {r.id : r \in Members(unanswered)}
<1> DEFINE c == Coming(buffer, unanswered)
           k == TakenFor(Response(Head(unanswered), "ok").cseq)
<1>1. /\ buffer = <<>> /\ unanswered # <<>> /\ k > 1
      /\ buffer' = buffer /\ unanswered' = unanswered
      /\ dropped' = dropped \cup {awaitingResponse[i].id : i \in 1..k - 1}
      /\ awaitingResponse' = SubSeq(awaitingResponse, k, Len(awaitingResponse))
  BY DEF ReadHeaders, Pass, sockets
<1>2. /\ unanswered \in Seq(Requests) /\ awaitingResponse \in Seq(Requests)
      /\ Len(awaitingResponse) \in Nat /\ Len(buffer) = 0 /\ Len(unanswered) \in Nat
  BY <1>1, AnswerFacts
<1>3. /\ Len(c) = Len(unanswered)
      /\ \A i \in 1..Len(unanswered) : c[i] = AnswerTo(unanswered[i])
  <2>1. Len(c) = Len(unanswered) BY <1>2, AnswerFacts
  <2>2. \A i \in 1..Len(unanswered) : c[i + Len(buffer)] = AnswerTo(unanswered[i])
    BY AnswerFacts, ComingFacts
  <2> HIDE DEF c
  <2>3. \A i \in 1..Len(unanswered) : i + Len(buffer) = i BY <1>2
  <2>4. QED BY <2>1, <2>2, <2>3
<1>4. Head(unanswered) = unanswered[1] /\ 1 \in 1..Len(unanswered) BY <1>1, <1>2
<1>5. k = TakenFor(AnswerTo(unanswered[1]).cseq) BY <1>4 DEF AnswerTo
<1>6. Fits(c, awaitingResponse) OBVIOUS
<1>7. c[1].id = unanswered[1].id /\ unanswered[1].id # Failure
  <2>1. unanswered[1] \in Requests BY <1>2, <1>4
  <2>2. c[1] = AnswerTo(unanswered[1]) BY <1>3, <1>4
  <2> HIDE DEF c
  <2>3. QED BY <2>1, <2>2, RequestFacts, RtspClientAssumption DEF AnswerTo, Failure
<1> HIDE DEF c, k
<1>8. ASSUME NEW p \in 1..Len(awaitingResponse), awaitingResponse[p].id = c[1].id
      PROVE  k \in 1..p
  <2>1. c[1] = AnswerTo(awaitingResponse[p]) BY <1>3, <1>4, <1>6, <1>8 DEF Fits
  <2>2. c[1] = AnswerTo(unanswered[1]) BY <1>3, <1>4
  <2>3. k = TakenFor(AnswerTo(awaitingResponse[p]).cseq) BY <1>5, <2>1, <2>2
  <2>4. QED BY <2>3, TakenUpTo
<1>9. PICK p0 \in 1..Len(awaitingResponse) : awaitingResponse[p0].id = c[1].id
  BY <1>3, <1>4, <1>6, <1>7 DEF Fits
<1>10. k \in 1..p0 BY <1>8, <1>9
<1>11. ASSUME NEW j \in 1..Len(c), NEW p \in 1..Len(awaitingResponse),
              awaitingResponse[p].id = c[j].id
       PROVE  k <= p
  <2>1. CASE j = 1 BY <1>8, <1>11, <2>1
  <2>2. CASE 1 < j
    <3>1. \A a, e \in 1..Len(c) : \A x, z \in 1..Len(awaitingResponse) :
            a < e /\ awaitingResponse[x].id = c[a].id /\ awaitingResponse[z].id = c[e].id
              => x < z
      BY <1>6 DEF Fits
    <3>2. 1 \in 1..Len(c) BY <1>3, <1>4
    <3>3. p0 < p BY <1>9, <1>11, <2>2, <3>1, <3>2
    <3>4. QED BY <1>2, <1>10, <3>3
  <2>3. QED BY <1>2, <1>3, <2>1, <2>2
<1>12. k - 1 \in 0..Len(awaitingResponse) /\ (k - 1) + 1 = k BY <1>2, <1>10
<1>13. RestOf(awaitingResponse, k - 1, awaitingResponse')
  <2>1. RestOf(awaitingResponse, k - 1,
               SubSeq(awaitingResponse, (k - 1) + 1, Len(awaitingResponse)))
    BY <1>2, <1>12, RestsOf
  <2>2. QED BY <1>1, <1>12, <2>1 DEF k
<1>14. Within(c, c, 0)
  <2> DEFINE f == [i \in 1..Len(c) |-> i]
  <2>1. f \in [1..Len(c) -> Nat] /\ \A i \in 1..Len(c) : f[i] = i BY <1>2, <1>3
  <2> HIDE DEF f
  <2>2. 0 + 1..Len(c) = 1..Len(c) OBVIOUS
  <2>3. QED BY <2>1, <2>2 DEF Within
<1>15. \A i \in 1..Len(c) : \A p \in 1..Len(awaitingResponse) :
         c[i].id # Failure /\ awaitingResponse[p].id = c[i].id => p > k - 1
  BY <1>2, <1>10, <1>11
<1>16. Fits(c, awaitingResponse')
  <2>1. Len(c) \in Nat BY <1>2, <1>3
  <2>2. QED BY <1>6, <1>13, <1>14, <1>15, <2>1, AnswerFacts, FitsRest
<1>17. ASSUME NEW id \in dropped' \ dropped, NEW r \in Members(unanswered), r.id = id
       PROVE  FALSE
  <2>1. PICK i \in 1..k - 1 : awaitingResponse[i].id = id BY <1>1, <1>17 DEF k
  <2>2. PICK j \in 1..Len(unanswered) : unanswered[j] = r BY <1>17 DEF Members
  <2>3. c[j].id = id /\ j \in 1..Len(c)
    <3>1. c[j] = AnswerTo(r) /\ j \in 1..Len(c) BY <1>3, <2>2
    <3>2. AnswerTo(r).id = id BY <1>17 DEF AnswerTo
    <3>3. QED BY <3>1, <3>2
  <2>4. i \in 1..Len(awaitingResponse) /\ i < k BY <1>2, <1>10, <2>1
  <2>5. k <= i BY <1>11, <2>1, <2>3, <2>4
  <2>6. QED BY <1>2, <1>10, <2>4, <2>5
<1>18. Fits(Coming(buffer', unanswered'), awaitingResponse') BY <1>1, <1>16 DEF c
<1>19. QED BY <1>17, <1>18

\* When a response is too large the first request is told: it is the one, or an
\* older one that the server left without an answer.
LEMMA TruncatedFits ==
  ASSUME IInv, ResponseTruncated, Fits(Coming(buffer, unanswered), awaitingResponse)
  PROVE  Fits(Coming(buffer', unanswered'), awaitingResponse') /\ dropped' = dropped
<1> DEFINE c == Coming(buffer, unanswered)
           d == Coming(buffer', unanswered')
<1>1. /\ buffer' = <<>> /\ unanswered # <<>> /\ unanswered' = Tail(unanswered)
      /\ dropped' = dropped \cup {awaitingResponse[i].id : i \in 1..1 - 1}
      /\ awaitingResponse' = SubSeq(awaitingResponse, 1 + 1, Len(awaitingResponse))
  BY DEF ResponseTruncated, Take
<1>2. dropped' = dropped
  <2>1. 1..1 - 1 = {} OBVIOUS
  <2>2. QED BY <1>1, <2>1
<1>3. /\ buffer \in Seq(Responses) /\ unanswered \in Seq(Requests)
      /\ awaitingResponse \in Seq(Requests)
      /\ Len(buffer) \in Nat /\ Len(unanswered) \in Nat /\ Len(awaitingResponse) \in Nat
      /\ Len(c) = Len(buffer) + Len(unanswered)
  BY AnswerFacts
<1>4. buffer' \in Seq(Responses) /\ unanswered' \in Seq(Requests) BY <1>1, <1>3
<1>5. RestOf(buffer, Len(buffer), buffer') /\ RestOf(unanswered, 1, unanswered')
      /\ Len(unanswered) >= 1
  BY <1>1, <1>3, RestsOf
<1>6. Within(d, c, Len(buffer) + 1) BY <1>1, <1>3, <1>4, <1>5, ComingRest
<1>7. c[1 + Len(buffer)] = AnswerTo(unanswered[1]) /\ unanswered[1] \in Requests
  <2>1. 1 \in 1..Len(unanswered) BY <1>3, <1>5
  <2>2. QED BY <1>3, <2>1, ComingFacts
<1>8. Fits(c, awaitingResponse) OBVIOUS
<1>9. Len(d) \in Nat BY <1>4, ComingFacts
<1> HIDE DEF c, d
<1> DEFINE l == Len(buffer) + 1
<1>10. l \in 1..Len(c) /\ l \in Nat /\ 1 + Len(buffer) = l BY <1>3, <1>5
<1>11. c[l].id # Failure
  BY <1>7, <1>10, RequestFacts, RtspClientAssumption DEF AnswerTo, Failure
<1> HIDE DEF l
<1>12. PICK p \in 1..Len(awaitingResponse) : awaitingResponse[p].id = c[l].id
  BY <1>8, <1>10, <1>11 DEF Fits
<1>13. RestOf(awaitingResponse, 1, awaitingResponse') /\ 1 <= p
  <2>1. 1 \in 0..Len(awaitingResponse) /\ 1 <= p BY <1>3, <1>12
  <2>2. QED BY <1>1, <1>3, <2>1, RestsOf
<1>14. Within(d, c, l) /\ l <= l BY <1>6, <1>10 DEF l
<1>15. Fits(d, awaitingResponse')
  <2>1. \A q \in 1..Len(awaitingResponse) : awaitingResponse[q].id # Failure
    BY AnswerFacts
  <2>2. Len(c) \in Nat BY <1>3
  <2>3. QED
    BY <1>8, <1>9, <1>10, <1>12, <1>13, <1>14, <2>1, <2>2, FitsBehind
<1>16. QED BY <1>2, <1>15 DEF d

-----------------------------------------------------------------------------
(* Every handler gets its own answer *)

\* Steps that leave the queue alone, and the buffer too.
LEMMA QueueKept ==
  ASSUME IInv, buffer' = buffer, awaitingResponse' = awaitingResponse,
         \/ unanswered' \in {unanswered, <<>>}
         \/ unanswered # <<>> /\ unanswered' = Tail(unanswered),
         Fits(Coming(buffer, unanswered), awaitingResponse)
  PROVE  Fits(Coming(buffer', unanswered'), awaitingResponse')
<1>1. buffer \in Seq(Responses) /\ unanswered \in Seq(Requests) BY AnswerFacts
<1>2. /\ RestOf(buffer, 0, buffer') /\ RestOf(unanswered, 0, unanswered)
      /\ RestOf(unanswered, Len(unanswered), <<>>)
      /\ unanswered # <<>> => RestOf(unanswered, 1, Tail(unanswered))
  BY <1>1, RestsOf
<1>3. /\ \E n : RestOf(unanswered, n, unanswered')
      /\ unanswered' \in Seq(Requests) /\ buffer' \in Seq(Responses)
  <2>1. CASE unanswered' = unanswered BY <1>1, <1>2, <2>1
  <2>2. CASE unanswered' = <<>> BY <1>1, <1>2, <2>2
  <2>3. CASE unanswered # <<>> /\ unanswered' = Tail(unanswered) BY <1>1, <1>2, <2>3
  <2>4. QED BY <2>1, <2>2, <2>3
<1>4. QED BY <1>2, <1>3, LessFits

LEMMA NothingComes ==
  ASSUME NEW b \in Seq(Responses), NEW u \in Seq(Requests), Len(b) = 0, Len(u) = 0, NEW q
  PROVE  Fits(Coming(b, u), q)
<1>1. Len(Coming(b, u)) = Len(b) + Len(u) BY ComingFacts
<1>2. QED BY <1>1, NothingFits

LEMMA LostFits ==
  ASSUME ConnectionLost
  PROVE  Fits(Coming(buffer', unanswered'), awaitingResponse')
<1>1. buffer' = <<>> /\ unanswered' = <<>> BY DEF ConnectionLost, ResetTCPSockets
<1>2. buffer' \in Seq(Responses) /\ unanswered' \in Seq(Requests) BY <1>1
<1>3. Len(buffer') = 0 /\ Len(unanswered') = 0 BY <1>1
<1>4. QED BY <1>2, <1>3, NothingComes

\* A response that was kept is not forgotten.
LEMMA KeptStays ==
  ASSUME Next, kept
  PROVE  kept'
<1>1. CASE Running
  BY <1>1 DEF Running, SendRequest, CallHandler, HandlerReturns, CallAgain,
              HandlerForGET, ParseResponse, BreakOff, BreakOffLate, ParseWhole, results
<1>2. CASE Connection
  BY <1>2 DEF Connection, ConnectionSucceeds, ConnectionFails, results
<1>3. CASE ~Running /\ ~Connection
  BY <1>3 DEF Next, SendCommand, ConnectionLost, ReadResponses, ReadRest, ReadHeaders,
              ResponseTruncated, ServerSkips, results
<1>4. QED BY <1>1, <1>2, <1>3

LEMMA AlignedStep ==
  ASSUME IInv, WInv, AInv, Next
  PROVE  Aligned'
<1> DEFINE Fit == Fits(Coming(buffer, unanswered), awaitingResponse)
<1> SUFFICES ASSUME repeats' = 0, ~broken', ~kept'
             PROVE  Fits(Coming(buffer', unanswered'), awaitingResponse')
  BY DEF Aligned
<1>1. Waits /\ Named /\ Aligned /\ ~broken /\ ~kept
  BY CrashStops, KeptStays DEF WInv, AInv
<1>2. repeats \in Nat BY RtspClientAssumption DEF IInv, TypeOK
<1>3. ASSUME repeats' = repeats PROVE Fit BY <1>1, <1>3 DEF Aligned
<1>4. CASE SendCommand
  <2>1. Fit BY <1>3, <1>4 DEF SendCommand, bounds
  <2>2. QED BY <1>4, <2>1, QueueKept DEF SendCommand, queues, sockets
<1>5. CASE SendRequest
  <2>1. Fit BY <1>3, <1>5 DEF SendRequest
  <2>2. QED BY <1>1, <1>5, <2>1, SendRequestFits
<1>6. CASE CallHandler \/ HandlerReturns
  <2>1. Fit BY <1>3, <1>6 DEF CallHandler, HandlerReturns, bounds
  <2>2. QED BY <1>6, <2>1, QueueKept DEF CallHandler, HandlerReturns, queues, sockets
<1>7. CASE CallAgain BY <1>7 DEF CallAgain
<1>8. CASE HandlerForGET
  <2>1. Fit BY <1>3, <1>8 DEF HandlerForGET
  <2>2. unanswered' \in {unanswered, <<>>}
    BY <1>8 DEF HandlerForGET, TunnelFails, TunnelOpens, ResetTCPSockets
  <2>3. QED BY <1>8, <2>1, <2>2, QueueKept DEF HandlerForGET
<1>9. CASE ParseResponse
  <2>1. Fit BY <1>3, <1>9 DEF ParseResponse
  <2>2. QED BY <1>1, <1>9, <2>1, ParseFits
<1>10. CASE ConnectionSucceeds
  <2>1. Fit BY <1>3, <1>10 DEF ConnectionSucceeds, bounds
  <2>2. QED BY <1>10, <2>1, QueueKept DEF ConnectionSucceeds
<1>11. CASE ConnectionFails
  <2>1. Fit BY <1>3, <1>11 DEF ConnectionFails
  <2>2. QED BY <1>11, <2>1, QueueKept DEF ConnectionFails, ResetTCPSockets
<1>12. CASE ConnectionLost BY <1>12, LostFits
<1>13. CASE ReadResponses
  <2>1. repeats' = repeats \/ repeats' = repeats + 1 BY <1>13 DEF ReadResponses
  <2>2. repeats' = repeats BY <1>2, <2>1
  <2>3. Fit BY <1>3, <2>2
  <2>4. QED BY <1>1, <1>13, <2>2, <2>3, ReadFits
<1>13a. CASE ReadRest
  <2>1. Fit BY <1>3, <1>13a DEF ReadRest, bounds
  <2>2. QED BY <1>13a, <2>1, QueueKept DEF ReadRest, queues, sockets
<1>14. CASE ReadHeaders
  <2>1. Fit BY <1>3, <1>14 DEF ReadHeaders, bounds
  <2>2. QED BY <1>14, <2>1, HeadersFit
<1>15. CASE ResponseTruncated
  <2>1. Fit BY <1>3, <1>15 DEF ResponseTruncated
  <2>2. QED BY <1>15, <2>1, TruncatedFits
<1>16. CASE ServerSkips
  <2>1. Fit BY <1>3, <1>16 DEF ServerSkips
  <2>2. QED BY <1>16, <2>1, QueueKept DEF ServerSkips, queues
<1>17. QED
  BY <1>4, <1>5, <1>6, <1>7, <1>8, <1>9, <1>10, <1>11, <1>12, <1>13, <1>13a,
     <1>14, <1>15, <1>16 DEF Next, Running, Connection

LEMMA ReadNamed ==
  ASSUME IInv, Named, ReadResponses
  PROVE  Named'
<1>1. PICK n \in 1..2 : \E codes \in [1..n -> Codes] : Reads(n, codes)
  BY DEF ReadResponses, Reads, Answers
<1>2. PICK codes \in [1..n -> Codes] : Reads(n, codes) BY <1>1
<1> DEFINE a == Answers(n, codes)
           s == <<ServerRequest>>
           Good(b) == \A i \in 1..Len(b) : b[i].code # "request" => b[i].id # Failure
<1>3. unanswered \in Seq(Requests) /\ buffer \in Seq(Responses) BY AnswerFacts
<1>4. n \in 1..Len(unanswered)
  <2>1. n <= Len(unanswered) /\ Len(unanswered) \in Nat BY <1>2, <1>3 DEF Reads
  <2>2. QED BY <2>1
<1>5. a \in Seq(Responses) /\ Good(a)
  <2>1. /\ a \in Seq(Responses) /\ Len(a) = n
        /\ \A i \in 1..n : a[i].id = unanswered[i].id
    BY <1>4, AnswersFacts
  <2>2. \A i \in 1..n : unanswered[i] \in Requests BY <1>3, <1>4
  <2>3. \A i \in 1..n : unanswered[i].id # Failure
    BY <2>2, RequestFacts, RtspClientAssumption DEF Failure
  <2> HIDE DEF a
  <2>4. QED BY <2>1, <2>3
<1>6. s \in Seq(Responses) /\ Good(s)
  <2>1. ServerRequest \in Responses /\ ServerRequest.code = "request"
    BY RtspClientAssumption DEF ServerRequest, Responses, Failure
  <2>2. QED BY <2>1
<1>7. Good(buffer) BY DEF Named
<1> HIDE DEF a, s
<1>8. ASSUME NEW b \in Seq(Responses), NEW c \in Seq(Responses), Good(b), Good(c)
      PROVE  b \o c \in Seq(Responses) /\ Good(b \o c)
  <2>1. /\ b \o c \in Seq(Responses) /\ Len(b) \in Nat /\ Len(c) \in Nat
        /\ Len(b \o c) = Len(b) + Len(c)
        /\ \A i \in 1..Len(b) : (b \o c)[i] = b[i]
        /\ \A i \in 1..Len(b \o c) : i > Len(b) => (b \o c)[i] = c[i - Len(b)]
    OBVIOUS
  <2>2. \A i \in 1..Len(b \o c) :
          i <= Len(b) \/ (i > Len(b) /\ i - Len(b) \in 1..Len(c))
    BY <2>1
  <2>3. QED BY <1>8, <2>1, <2>2
<1>9. Good(buffer \o a) BY <1>3, <1>5, <1>7, <1>8
<1>10. buffer \o s \in Seq(Responses) /\ Good(buffer \o s) BY <1>3, <1>6, <1>7, <1>8
<1>11. Good(buffer \o s \o a) BY <1>5, <1>8, <1>10
<1>12. buffer' = buffer \o a \/ buffer' = buffer \o s \o a BY <1>2 DEF Reads, a, s
<1>13. QED BY <1>9, <1>11, <1>12 DEF Named

LEMMA NamedStep ==
  ASSUME IInv, Named, Next
  PROVE  Named'
<1>1. ASSUME buffer' = buffer PROVE Named' BY <1>1 DEF Named
<1>2. ASSUME buffer' = <<>> PROVE Named' BY <1>2 DEF Named
<1>3. CASE SendCommand \/ SendRequest BY <1>1, <1>3 DEF SendCommand, SendRequest
<1>4. CASE CallHandler \/ HandlerReturns \/ CallAgain \/ HandlerForGET
  BY <1>1, <1>4 DEF CallHandler, HandlerReturns, CallAgain, HandlerForGET
<1>5. CASE ParseResponse
  <2>1. buffer' \in {<<>>, Tail(buffer), buffer} /\ buffer # <<>> /\ buffer \in Seq(Responses)
    BY <1>5, ParseShape, ParseFacts, AnswerFacts
  <2>2. CASE buffer' = Tail(buffer)
    <3>1. /\ Len(buffer) \in Nat /\ Len(Tail(buffer)) = Len(buffer) - 1
          /\ \A i \in 1..Len(Tail(buffer)) : Tail(buffer)[i] = buffer[i + 1]
      BY <2>1
    <3>2. \A i \in 1..Len(Tail(buffer)) : i + 1 \in 1..Len(buffer) BY <3>1
    <3>3. QED BY <2>2, <3>1, <3>2 DEF Named
  <2>3. QED BY <1>1, <1>2, <2>1, <2>2
<1>6. CASE Connection
  BY <1>1, <1>6 DEF Connection, ConnectionSucceeds, ConnectionFails
<1>7. CASE ConnectionLost BY <1>2, <1>7 DEF ConnectionLost
<1>8. CASE ReadResponses BY <1>8, ReadNamed
<1>9. CASE ReadRest \/ ReadHeaders \/ ServerSkips
  BY <1>1, <1>9 DEF ReadRest, ReadHeaders, ServerSkips
<1>10. CASE ResponseTruncated BY <1>2, <1>10 DEF ResponseTruncated
<1>11. QED
  BY <1>3, <1>4, <1>5, <1>6, <1>7, <1>8, <1>9, <1>10 DEF Next, Running

LEMMA AInvStep ==
  ASSUME IInv, WInv, AInv, [Next]_vars
  PROVE  AInv'
<1>1. CASE Next BY <1>1, AlignedStep, NamedStep DEF AInv
<1>2. CASE UNCHANGED vars
  BY <1>2 DEF AInv, Named, Aligned, vars, queues, sockets, results, bounds
<1>3. QED BY <1>1, <1>2

LEMMA AInvInit ==
  ASSUME Init
  PROVE  AInv
<1>1. buffer = <<>> /\ unanswered = <<>> /\ awaitingResponse = <<>> BY DEF Init
<1>2. Fits(Coming(buffer, unanswered), awaitingResponse)
  <2>1. buffer \in Seq(Responses) /\ unanswered \in Seq(Requests) BY <1>1
  <2>2. Len(buffer) = 0 /\ Len(unanswered) = 0 BY <1>1
  <2>3. QED BY <2>1, <2>2, NothingComes
<1>3. Named BY <1>1 DEF Named
<1>4. QED BY <1>2, <1>3 DEF AInv, Aligned

\* Until a response stays in the buffer after its request was taken, the answers that
\* are to come fit the queue.  With the invariants before this is inductive, for every
\* number of requests, faults, redirections and repetitions.
THEOREM AnswersInductive == Spec => [](IInv /\ RedirectInv /\ WInv /\ AInv)
<1>1. Init => IInv /\ RedirectInv /\ WInv /\ AInv BY InitHolds, WInvInit, AInvInit
<1>2. IInv /\ RedirectInv /\ WInv /\ AInv /\ [Next]_vars
        => (IInv /\ RedirectInv /\ WInv /\ AInv)'
  BY StepHolds, WInvStep, AInvStep
<1>3. QED BY <1>1, <1>2, PTL DEF Spec

\* A handler is never called with the answer to the request of another, as long as
\* the server answers in order and once, the queue is by CSeq and no response has
\* stayed in the buffer after its request was taken.
THEOREM AnswersAreRight == Spec => RightAnswer
<1>1. ASSUME IInv, WInv, AInv, [Next]_vars
      PROVE  [Doing("parse") /\ repeats = 0 /\ ~kept /\ InOrder =>
                \A i \in 1..Len(todo') :
                  todo'[i].do = "call" =>
                    todo'[i].from \in {Failure, todo'[i].req.id}]_vars
  <2> SUFFICES ASSUME Next, Doing("parse"), repeats = 0, ~kept, InOrder,
                      NEW i \in 1..Len(todo'), todo'[i].do = "call"
               PROVE  todo'[i].from \in {Failure, todo'[i].req.id}
    BY <1>1
  <2>1. Waits /\ Named /\ Aligned /\ ~broken BY <1>1, CrashStops DEF WInv, AInv
  <2>2. Fits(Coming(buffer, unanswered), awaitingResponse) BY <2>1 DEF Aligned
  <2>3. ParseResponse
    <3>1. \A w \in {"send", "resend", "again", "call", "handler"} : ~Doing(w)
          /\ ~EventLoop
      BY DEF Doing, EventLoop
    <3>2. QED
      BY <3>1 DEF Next, Running, Connection, SendCommand, SendRequest, CallHandler,
                  HandlerReturns, CallAgain, HandlerForGET, ConnectionSucceeds,
                  ConnectionFails, ConnectionLost, ReadResponses, ReadRest, ReadHeaders,
                  ResponseTruncated, ServerSkips
  <2>4. QED BY <1>1, <2>1, <2>2, <2>3, ParseRight
<1>2. QED BY <1>1, AnswersInductive, PTL DEF Spec, RightAnswer

\* With such a server, and until a response stays in the buffer after its request was
\* taken, a request is deleted without a call only when the server will not answer it
\* any more.
THEOREM OnlySkippedAreDropped == Spec => OnlySkippedDropped
<1>1. ASSUME IInv, WInv, AInv, [Next]_vars
      PROVE  [repeats = 0 /\ ~kept =>
                \A id \in dropped' \ dropped :
                  id \notin {r.id : r \in Members(unanswered)}]_vars
  <2> SUFFICES ASSUME Next, repeats = 0, ~kept, NEW id \in dropped' \ dropped
               PROVE  id \notin {r.id : r \in Members(unanswered)}
    BY <1>1
  <2>1. Named /\ Aligned /\ ~broken BY <1>1, CrashStops DEF WInv, AInv
  <2>2. Fits(Coming(buffer, unanswered), awaitingResponse) BY <2>1 DEF Aligned
  <2>3. CASE ParseResponse BY <1>1, <2>1, <2>2, <2>3, ParseDrops
  <2>4. CASE ReadHeaders BY <1>1, <2>2, <2>4, HeadersFit
  <2>5. CASE ResponseTruncated BY <1>1, <2>2, <2>5, TruncatedFits
  <2>6. ParseResponse \/ ReadHeaders \/ ResponseTruncated
    BY DEF Next, Running, Connection, SendCommand, SendRequest, CallHandler,
           HandlerReturns, CallAgain, HandlerForGET, ConnectionSucceeds,
           ConnectionFails, ConnectionLost, ReadResponses, ReadRest, ServerSkips,
           results
  <2>7. QED BY <2>3, <2>4, <2>5, <2>6
<1>2. QED BY <1>1, AnswersInductive, PTL DEF Spec, OnlySkippedDropped
=============================================================================
